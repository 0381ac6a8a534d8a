------------------------------ MODULE Commands ------------------------------
(***************************************************************************)
(* The subcommands that go through their steps alone, as main dispatches   *)
(* them (cmd/zoubench/main.go): run, attach, probe and dashboard; and      *)
(* three parts of the others that stand alone, the hold phase of fleet,    *)
(* the histograms of sockets and the counters that sustain reads around a  *)
(* segment.  One process is one of them.                                   *)
(***************************************************************************)
EXTENDS RunCommand, Attach, Probe, Board, IdleHold, Quantiles, StoreCounters

VARIABLE command

vars == <<command, runVars, attachVars, probeVars, boardVars, holdVars, histVars, counterVars>>

Init ==
  /\ command \in {"run", "attach", "probe", "dashboard", "fleet", "sockets", "sustain"}
  /\ RunInit /\ AttachInit /\ ProbeInit /\ BoardInit /\ HoldInit /\ HistInit /\ CountersInit

\* main: the subcommand named on the command line.
Next ==
  \/ /\ command = "run" /\ RunNext
     /\ UNCHANGED <<command, attachVars, probeVars, boardVars, holdVars, histVars, counterVars>>
  \/ /\ command = "attach" /\ AttachNext
     /\ UNCHANGED <<command, runVars, probeVars, boardVars, holdVars, histVars, counterVars>>
  \/ /\ command = "probe" /\ ProbeNext
     /\ UNCHANGED <<command, runVars, attachVars, boardVars, holdVars, histVars, counterVars>>
  \/ /\ command = "dashboard" /\ BoardNext
     /\ UNCHANGED <<command, runVars, attachVars, probeVars, holdVars, histVars, counterVars>>
  \/ /\ command = "fleet" /\ HoldNext
     /\ UNCHANGED <<command, runVars, attachVars, probeVars, boardVars, histVars, counterVars>>
  \/ /\ command = "sockets" /\ HistNext
     /\ UNCHANGED <<command, runVars, attachVars, probeVars, boardVars, holdVars, counterVars>>
  \/ /\ command = "sustain" /\ CountersNext
     /\ UNCHANGED <<command, runVars, attachVars, probeVars, boardVars, holdVars, histVars>>

Spec == Init /\ [][Next]_vars
=============================================================================

------------------------------- MODULE Attach -------------------------------
(***************************************************************************)
(* The cold attach (cmd/zoubench/attach.go: the cycles of cmdAttach;       *)
(* pgwire/pgwire.go: WaitReady): a postgres is started, waited for, asked  *)
(* one query and stopped, a number of times.                               *)
(*                                                                         *)
(* External: the server, which comes up, refuses, says it is starting,     *)
(* reports an error, or dies; and whatever else listens on its socket:     *)
(* WaitReady and the query take their answer from anybody there, so        *)
(* neither says that the server of this cycle is up.                       *)
(***************************************************************************)
EXTENDS Integers

CONSTANTS
  Cycles,   \* scenario.cycles
  Polls     \* tries of WaitReady until its deadline

ASSUME AttachAssumption == Cycles \in Nat /\ Polls \in Nat \ {0}

VARIABLES
  attachPc,  \* "off", "start", "poll", "query", "stop", "wait", "done" or "died"
  cycle,     \* len(cycles)
  polls,     \* tries left
  server,    \* external: "none", "alive", or "dead" and not waited for
  conn       \* a connection is open

attachVars == <<attachPc, cycle, polls, server, conn>>

AttachInit ==
  /\ attachPc = "off" /\ cycle = 0 /\ polls = 0 /\ server = "none" /\ conn = FALSE

AttachStart ==
  /\ attachPc = "off" /\ attachPc' = "start"
  /\ UNCHANGED <<cycle, polls, server, conn>>

\* The top of a cycle: the server is started, or cannot be.
ServerStarts ==
  /\ attachPc = "start" /\ cycle < Cycles
  /\ \/ attachPc' = "poll" /\ server' = "alive" /\ polls' = Polls
     \/ attachPc' = "died" /\ UNCHANGED <<server, polls>>
  /\ UNCHANGED <<cycle, conn>>

\* External: the server is gone by itself.
ServerDies ==
  /\ server = "alive" /\ server' = "dead"
  /\ UNCHANGED <<attachPc, cycle, polls, conn>>

\* WaitReady: refused, dropped or still starting, one try less.
PollAgain ==
  /\ attachPc = "poll" /\ polls > 0
  /\ polls' = polls - 1
  /\ UNCHANGED <<attachPc, cycle, server, conn>>

\* WaitReady: a connection opened and answered.
Ready ==
  /\ attachPc = "poll" /\ polls > 0
  /\ attachPc' = "query" /\ conn' = TRUE
  /\ UNCHANGED <<cycle, polls, server>>

\* Mutant of KillAndDie: the error is reported with the server up.
DieOnly ==
  /\ attachPc' = "died" /\ conn' = FALSE
  /\ UNCHANGED <<cycle, polls, server>>

\* The server is killed and waited for before the command dies.
KillAndDie ==
  /\ attachPc' = "died" /\ conn' = FALSE /\ server' = "none"
  /\ UNCHANGED <<cycle, polls>>

\* The deadline has passed, or an answer was an error other than "starting";
\* or the query failed.
NotReady == attachPc = "poll" /\ KillAndDie
QueryFails == attachPc = "query" /\ KillAndDie

QueryDone ==
  /\ attachPc = "query" /\ attachPc' = "stop" /\ conn' = FALSE
  /\ UNCHANGED <<cycle, polls, server>>

\* SIGINT, which a server that is gone by itself may or may not still take:
\* it is not reaped before Wait.
Interrupt ==
  /\ attachPc = "stop" /\ attachPc' = "wait"
  /\ UNCHANGED <<cycle, polls, server, conn>>

\* Wait returns once the server is gone; an exit code other than 0 is fatal.
Waited ==
  /\ attachPc = "wait" /\ server' = "none"
  /\ \/ server = "alive" /\ attachPc' = "start" /\ cycle' = cycle + 1
     \/ attachPc' = "died" /\ UNCHANGED cycle
  /\ UNCHANGED <<polls, conn>>

AttachReturns ==
  /\ attachPc = "start" /\ cycle = Cycles /\ attachPc' = "done"
  /\ UNCHANGED <<cycle, polls, server, conn>>

AttachNext ==
  \/ AttachStart \/ ServerStarts \/ ServerDies
  \/ PollAgain \/ Ready \/ NotReady \/ QueryFails \/ QueryDone
  \/ Interrupt \/ Waited \/ AttachReturns

-----------------------------------------------------------------------------
(* Properties.                                                             *)

\* Through whichever of its own exits the command leaves, and between any two
\* cycles, no server and no connection of it is left, and a result has every
\* cycle of the scenario (cmdAttach: the exits of a cycle; a kill of the
\* command itself has no clean-up and is not among them).
AttachStops ==
  /\ attachPc \in {"start", "done", "died"} => server = "none" /\ ~conn
  /\ attachPc = "done" => cycle = Cycles
=============================================================================

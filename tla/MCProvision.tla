---------------------------- MODULE MCProvision ----------------------------
(***************************************************************************)
(* Provisioning on small instances, and what the README and a message of   *)
(* the program say of it that the code does not keep.                      *)
(***************************************************************************)
EXTENDS Provision

\* README: fleet-state.json "names every ref that has a database, a table
\* and rows", here at the end of a run that reported success.
FileNamesEveryReady == pc = "ok" => Provisioned(store) \subseteq file.ready

\* README: provision "applies the scenario's setup sql over the postgres
\* door, which is the step that runs initdb and captures the genesis, and
\* sends one http request".
SetupBeforeRequest ==
  \A s \in Stores, r \in Refs : "touch" \in done[s][r] => "setup" \in done[s][r]

\* cmd/zoubench/fleet.go, the error: "%d tenants could not be provisioned".
FailuresCounted == pc = "error" => failed = Cardinality(failures)
=============================================================================

----------------------------- MODULE MCFleetRun -----------------------------
(***************************************************************************)
(* The fleet command and its load generator on a small instance.           *)
(***************************************************************************)
EXTENDS FleetRun

\* A run at a pace and with a warmup, one that keeps the node it provisioned,
\* and one that measures in two phases what an earlier one provisioned, on its
\* own node or on one that was left behind with its counters.
SomeOptions ==
  LET Call(w, k, r, u) == [want |-> w, keep |-> k, rated |-> r, warmup |-> u]
  IN  { Call({"provision", "steady", "hold"}, FALSE, TRUE, TRUE),
        Call({"provision", "hold"}, TRUE, FALSE, FALSE),
        Call({"steady", "churn"}, FALSE, FALSE, FALSE) }
=============================================================================

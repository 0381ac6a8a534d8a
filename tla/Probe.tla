-------------------------------- MODULE Probe --------------------------------
(***************************************************************************)
(* The store probe (probe/probe.go: Run, timed): a fixed script of         *)
(* requests, one after the other, each retried while the store throttles   *)
(* it, and given up with the whole probe at the first error.               *)
(*                                                                         *)
(* External: the store, which may do what a request asks and still fail    *)
(* to say so.                                                              *)
(***************************************************************************)
EXTENDS Integers, Sequences

CONSTANTS
  WarmN,      \* warmup round trips, 3 in the code
  Samples,    \* opt.Samples
  ListN,      \* lists, a quarter of the samples and at least 10 in the code
  LargeN,     \* opt.LargeN
  Attempts    \* tries of one request, 4 in the code

ASSUME ProbeAssumption ==
  /\ WarmN \in Nat /\ Samples \in Nat /\ ListN \in Nat /\ LargeN \in Nat
  /\ Attempts \in Nat \ {0}

VARIABLES
  probePc,    \* "off", "run", "done" or "failed"
  at,         \* the request of the script
  attempt,    \* its attempt
  attempts, slowdowns,  \* runner
  keys        \* external: the keys of this probe in the store

probeVars == <<probePc, at, attempt, attempts, slowdowns, keys>>

Req(o, k) == [op |-> o, key |-> k]
RoundTrips(name, n) ==
  [i \in 1..3 * n |-> Req(<<"put", "get", "delete">>[((i - 1) % 3) + 1],
                          <<name, ((i - 1) \div 3) + 1>>)]
Each(o) == [i \in 1..Samples |-> Req(o, <<"key", i>>)]
Lists == [i \in 1..ListN |-> Req("list", <<>>)]
Warmup == RoundTrips("warmup", WarmN)

\* Mutant of Script: the large bodies are not taken down.
ScriptKeepsLarge ==
  Warmup \o Each("put") \o Each("get") \o Lists
    \o [i \in 1..LargeN |-> Req("put", <<"large", i>>)] \o Each("delete")

\* Run: the warmup, the puts, gets and lists, the large bodies, the deletes.
Script ==
  Warmup \o Each("put") \o Each("get") \o Lists \o RoundTrips("large", LargeN)
    \o Each("delete")

ProbeInit ==
  /\ probePc = "off" /\ at = 1 /\ attempt = 1 /\ attempts = 0 /\ slowdowns = 0 /\ keys = {}

ProbeStart ==
  /\ probePc = "off" /\ probePc' = "run"
  /\ UNCHANGED <<at, attempt, attempts, slowdowns, keys>>

InScript == probePc = "run" /\ at <= Len(Script)

Effect(r) == CASE r.op = "put" -> keys \cup {r.key}
               [] r.op = "delete" -> keys \ {r.key}
               [] OTHER -> keys

\* The request succeeds: on to the next.  The counters start anew behind the
\* warmup.
Succeeds ==
  /\ InScript
  /\ keys' = Effect(Script[at])
  /\ at' = at + 1 /\ attempt' = 1
  /\ IF at = Len(Warmup) THEN attempts' = 0 /\ slowdowns' = 0
     ELSE attempts' = attempts + 1 /\ UNCHANGED slowdowns
  /\ UNCHANGED probePc

\* The store throttles it, or answers 500, 502 or 504, which do not say whether
\* the request was done: tried again, up to the last attempt.
Throttled ==
  /\ InScript
  /\ attempts' = attempts + 1 /\ slowdowns' = slowdowns + 1
  /\ IF attempt < Attempts THEN attempt' = attempt + 1 /\ UNCHANGED probePc
     ELSE probePc' = "failed" /\ UNCHANGED attempt
  /\ keys' \in {keys, Effect(Script[at])}
  /\ UNCHANGED at

\* Any other status, or no answer: the probe returns the error.
Errs ==
  /\ InScript
  /\ attempts' = attempts + 1 /\ probePc' = "failed"
  /\ keys' \in {keys, Effect(Script[at])}
  /\ UNCHANGED <<at, attempt, slowdowns>>

ProbeReturns ==
  /\ probePc = "run" /\ at = Len(Script) + 1 /\ probePc' = "done"
  /\ UNCHANGED <<at, attempt, attempts, slowdowns, keys>>

ProbeNext == ProbeStart \/ Succeeds \/ Throttled \/ Errs \/ ProbeReturns

-----------------------------------------------------------------------------
(* Properties.                                                             *)

Undone(k) ==
  \E i \in 1 .. at : /\ i <= Len(Script) /\ Script[i] = Req("put", k)
                     /\ \A j \in 1 .. at - 1 : Script[j] # Req("delete", k)

\* A probe that returns a profile has taken down every key it wrote, one that
\* fails has left at most the keys its own script had put and not yet deleted;
\* and the rate of throttling is over the measured requests, none of the
\* warmup's among them (Run, timed).
ProbeCleans ==
  /\ probePc = "done" => /\ keys = {}
                         /\ attempts = Len(Script) - Len(Warmup) + slowdowns
  /\ \A k \in keys : Undone(k)
=============================================================================

------------------------------ MODULE HttpLoad ------------------------------
(***************************************************************************)
(* The closed loop http load generator (resthttp/resthttp.go: Run, drive,  *)
(* once): a warmup whose numbers are thrown away, then the measured        *)
(* window.  Every client loops until the window's context is done, paced   *)
(* by one ticker they share when there is a rate; what they counted is     *)
(* added up when all of them have returned.                                *)
(*                                                                         *)
(* External: the server, which answers with the status a request wants or  *)
(* with another, or does not answer; and its own count of the requests it  *)
(* has answered with 200, which it may add to when the client has long     *)
(* given up, and which is lost when it starts again.                       *)
(***************************************************************************)
EXTENDS Integers, Sequences, FiniteSets, FiniteSetsExt, Functions

CONSTANTS
  Clients,     \* the clients
  Tenants,     \* the tenants there are: 1 .. Tenants
  FailureCap,  \* how many failures are kept, 5 in the code
  MaxSends     \* bound on the requests of one Run

ASSUME HttpLoadAssumption ==
  /\ IsFiniteSet(Clients) /\ Clients # {} /\ Tenants \in Nat
  /\ FailureCap \in Nat \ {0} /\ MaxSends \in Nat

VARIABLES
  refs,     \* the tenants requests are drawn from
  paced,    \* Rate > 0
  window,   \* "none", "warm", "measure" or "done"
  over,     \* the window's context is done
  tick,     \* a tick waits in the shared channel, which holds one
  client,   \* each client: where it is, its request and its local counts
  out,      \* the Outcome
  sends,    \* requests sent in this Run
  served,   \* external: the server's count of the requests it answered with 200
  late,     \* external: requests it will answer with 200, or has, and not counted yet
  taken,    \* history of the Run: requests that have come into served or into late
  truth     \* history of the window: what came back to the clients

serverVars == <<served, late, taken>>
loadVars   == <<refs, paced, window, over, tick, client, out, sends, serverVars, truth>>

NoTenant == 0
NoCount == [requests |-> 0, errors |-> 0, ok |-> 0, other |-> 0, samples |-> 0,
            failures |-> 0, touched |-> {}]
NoTruth == [ok |-> 0, made |-> 0, odd |-> 0, wrong |-> 0, failed |-> 0, dropped |-> 0]
Away == [pc |-> "away", to |-> NoTenant, n |-> NoCount]

LoadInit ==
  /\ refs = {} /\ paced = FALSE /\ window = "none" /\ over = FALSE /\ tick = FALSE
  /\ client = [c \in Clients |-> Away] /\ out = NoCount
  /\ sends = 0 /\ served = 0 /\ late = 0 /\ taken = 0 /\ truth = NoTruth

\* The Outcome has been used and the generator's memory is free.
LoadReset ==
  /\ refs' = {} /\ paced' = FALSE /\ window' = "none" /\ over' = FALSE /\ tick' = FALSE
  /\ client' = [c \in Clients |-> Away] /\ out' = NoCount
  /\ sends' = 0 /\ taken' = 0 /\ truth' = NoTruth

\* drive: a context with a timeout, fresh locals, and the clients started.
StartWindow(w) ==
  /\ window' = w /\ over' = FALSE /\ tick' = FALSE /\ truth' = NoTruth
  /\ client' = [c \in Clients |-> [Away EXCEPT !.pc = "loop"]]

\* Run: the warmup first, when there is one.
StartLoad(from, rated, warmup) ==
  /\ window = "none" /\ refs' = from /\ paced' = rated
  /\ StartWindow(IF warmup THEN "warm" ELSE "measure")
  /\ out' = NoCount /\ sends' = 0 /\ taken' = 0 /\ UNCHANGED <<served, late>>

InWindow == window \in {"warm", "measure"}

\* Mutant of Expire: only the warmup has a timeout.
ExpireWarmup ==
  /\ window = "warm" /\ ~over /\ over' = TRUE
  /\ UNCHANGED <<refs, paced, window, tick, client, out, sends, serverVars, truth>>

\* The timeout of the window's context.
Expire ==
  /\ InWindow /\ ~over /\ over' = TRUE
  /\ UNCHANGED <<refs, paced, window, tick, client, out, sends, serverVars, truth>>

\* The ticker, which drops a tick nobody has taken.
TickFires ==
  /\ InWindow /\ paced /\ ~tick /\ tick' = TRUE
  /\ UNCHANGED <<refs, paced, window, over, client, out, sends, serverVars, truth>>

Goes(c, p) == client' = [client EXCEPT ![c].pc = p]

\* The top of the loop: ctx.Done() or ctx.Err().
Leave(c) ==
  /\ client[c].pc = "loop" /\ over /\ Goes(c, "away")
  /\ UNCHANGED <<refs, paced, window, over, tick, out, sends, serverVars, truth>>

\* A request is drawn and sent; select may take a tick although the context
\* is done.
Send(c) ==
  /\ client[c].pc = "loop" /\ sends < MaxSends
  /\ IF paced THEN tick /\ tick' = FALSE ELSE ~over /\ UNCHANGED tick
  /\ \E t \in refs : client' = [client EXCEPT ![c].pc = "sent", ![c].to = t]
  /\ sends' = sends + 1
  /\ UNCHANGED <<refs, paced, window, over, out, serverVars, truth>>

\* Requests come to the server that it answers with 200 sooner or later.
Takes == taken' = taken + 1 /\ late' = late + 1

\* External: an answer of one of four kinds: "ok" is the 200 the request
\* wants, "made" another status that it wants, "odd" a 200 that it does not,
\* and "wrong" neither.  A body that breaks off is read as far as it goes and
\* passes for a whole one.  The server counts when it likes (CountLate).
Serve(c) ==
  /\ client[c].pc = "sent"
  /\ \/ \E p \in {"ok", "odd"} : Goes(c, p) /\ Takes
     \/ \E p \in {"made", "wrong"} : Goes(c, p) /\ UNCHANGED <<late, taken>>
  /\ UNCHANGED <<refs, paced, window, over, tick, out, sends, served, truth>>

\* client.Do fails: refused, timed out, or the context is done; the server
\* may have the request all the same, and answer it to nobody.
Fail(c) ==
  /\ client[c].pc = "sent" /\ Goes(c, "failed")
  /\ Takes \/ UNCHANGED <<late, taken>>
  /\ UNCHANGED <<refs, paced, window, over, tick, out, sends, served, truth>>

\* External: the server counts a request.
CountLate ==
  /\ late > 0 /\ late' = late - 1 /\ served' = served + 1
  /\ UNCHANGED <<refs, paced, window, over, tick, client, out, sends, taken, truth>>

\* External: the server starts again, from zero.
Restart ==
  /\ served' = 0 /\ late' = 0
  /\ UNCHANGED <<refs, paced, window, over, tick, client, out, sends, taken, truth>>

Answered == {"ok", "made", "odd", "wrong", "failed"}

\* What one request adds to its client's counts: a status (200 or another)
\* whenever there was an answer, a sample for the status the request wants (in
\* a measured window), a failure in words while there is room.
Counted(n, how, to) ==
  [requests |-> n.requests + 1,
   touched  |-> n.touched \cup {to},
   ok       |-> IF how \in {"ok", "odd"} THEN n.ok + 1 ELSE n.ok,
   other    |-> IF how \in {"made", "wrong"} THEN n.other + 1 ELSE n.other,
   errors   |-> IF how \in {"odd", "wrong", "failed"} THEN n.errors + 1 ELSE n.errors,
   failures |-> IF how \in {"odd", "wrong", "failed"} /\ n.failures < FailureCap
                THEN n.failures + 1 ELSE n.failures,
   samples  |-> IF how \in {"ok", "made"} /\ window = "measure"
                THEN n.samples + 1 ELSE n.samples]

\* Mutant of Return: an answer after the end of the window is counted.
ReturnLate(c) ==
  /\ client[c].pc \in Answered
  /\ client' = [client EXCEPT ![c] = [pc |-> IF over THEN "away" ELSE "loop", to |-> NoTenant,
                                      n |-> Counted(client[c].n, client[c].pc, client[c].to)]]
  /\ truth' = IF over THEN [truth EXCEPT !.dropped = @ + 1]
                      ELSE [truth EXCEPT ![client[c].pc] = @ + 1]
  /\ UNCHANGED <<refs, paced, window, over, tick, out, sends, serverVars>>

\* once has returned: in a window that is over the client leaves without a
\* word, and otherwise counts.
Return(c) ==
  /\ client[c].pc \in Answered
  /\ IF over
     THEN /\ client' = [client EXCEPT ![c].pc = "away", ![c].to = NoTenant]
          /\ truth' = [truth EXCEPT !.dropped = @ + 1]
     ELSE /\ client' = [client EXCEPT ![c] =
                          [pc |-> "loop", to |-> NoTenant,
                           n |-> Counted(client[c].n, client[c].pc, client[c].to)]]
          /\ truth' = [truth EXCEPT ![client[c].pc] = @ + 1]
  /\ UNCHANGED <<refs, paced, window, over, tick, out, sends, serverVars>>

Sum(Figure(_)) == SumFunctionOnSet([c \in Clients |-> Figure(client[c].n)], Clients)

\* wg.Wait has returned: the locals are added up, and the failures cut off.
Summed ==
  [requests |-> Sum(LAMBDA n : n.requests), errors   |-> Sum(LAMBDA n : n.errors),
   ok       |-> Sum(LAMBDA n : n.ok),       other    |-> Sum(LAMBDA n : n.other),
   samples  |-> Sum(LAMBDA n : n.samples),
   failures |-> Min({FailureCap, Sum(LAMBDA n : n.failures)}),
   touched  |-> UNION {client[c].n.touched : c \in Clients}]

Joined == over /\ \A c \in Clients : client[c].pc = "away"

\* The outcome of the warmup is not looked at.
WarmupDone ==
  /\ window = "warm" /\ Joined /\ StartWindow("measure")
  /\ UNCHANGED <<refs, paced, out, sends, serverVars>>

DriveDone ==
  /\ window = "measure" /\ Joined
  /\ window' = "done" /\ out' = Summed
  /\ UNCHANGED <<refs, paced, over, tick, client, sends, serverVars, truth>>

ClientStep(c) == Leave(c) \/ Send(c) \/ Serve(c) \/ Fail(c) \/ Return(c)

LoadStep == Expire \/ TickFires \/ WarmupDone \/ DriveDone \/ \E c \in Clients : ClientStep(c)

-----------------------------------------------------------------------------
(* Properties.                                                             *)

LoadTypeOK ==
  /\ window \in {"none", "warm", "measure", "done"} /\ paced \in BOOLEAN
  /\ over \in BOOLEAN /\ tick \in BOOLEAN
  /\ \A c \in Clients :
       /\ client[c].pc \in {"away", "loop", "sent"} \cup Answered
       /\ client[c].to \in refs \cup {NoTenant}
  /\ sends \in 0..MaxSends /\ served \in Nat /\ late \in Nat

\* The outcome is what came back in the measured window and nothing else: a
\* request is counted once, as a sample or as an error; a request whose answer
\* came after the end is in no count, of which there is at most one a client;
\* nothing of the warmup is in it; and a run with errors has at least one of
\* them in words (drive: the counts, the early returns and the sums).
OutcomeIsTruth ==
  window = "done" =>
    /\ out.requests = truth.ok + truth.made + truth.odd + truth.wrong + truth.failed
    /\ out.samples = truth.ok + truth.made
    /\ out.requests = out.samples + out.errors
    /\ out.ok = truth.ok + truth.odd /\ out.other = truth.made + truth.wrong
    /\ truth.dropped <= Cardinality(Clients)
    /\ out.touched \subseteq refs /\ Cardinality(out.touched) <= out.requests
    /\ out.failures = Min({FailureCap, out.errors})
=============================================================================

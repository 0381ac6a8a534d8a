---------------------------- MODULE MCSocketRun ----------------------------
(***************************************************************************)
(* The socket run on small instances, and what the repository's comments   *)
(* and README claim of it.  The claims below are the ones the code does    *)
(* not keep, with a run in which TLC shows how or a hint in the README.    *)
(***************************************************************************)
EXTENDS SocketRun

\* README: "a run that dropped frames says so instead of publishing a fast
\* percentile over the ones that survived".  Here only frames of rows that
\* deliveries_expected itself counts; a row committed without its answer
\* coming back is delivered and not expected, and makes up for them.
DropsShow ==
  (phase = "written" /\ \E f \in dropped : f.row \in owed) => Missing # 0

\* sockets.go: "Only shards that ended up with a socket on them are written
\* to."
WrittenShardsHaveSockets ==
  phase = "opened" => \A s \in 0..(shards - 1) : \E id \in Ids :
     sock[id] \notin {"new", "refused"} /\ ShardOf(id) = s

\* writer.go: push "runs the write load for a span and returns when the span
\* is over".
PushReturns == phase # "panicked"

\* cmd/zoubench/sockets.go: "A run that is interrupted still writes what it
\* measured."
InterruptedRunWrites == phase = "exited" => tally.cols = 0
=============================================================================

---------------------------- MODULE SocketRamp ----------------------------
(***************************************************************************)
(* The ramp of a socket run and the life of a socket after it              *)
(* (sockets/sockets.go: ramp, join, read's error path, close).             *)
(*                                                                         *)
(* One goroutine hands socket ids 0 .. Sockets-1 to a channel of capacity  *)
(* Dialers; Dialers workers take them in order, dial, join one shard, and  *)
(* leave a reader behind on every socket that joined.  A reader whose      *)
(* connection fails before the run is stopped moves the socket from the    *)
(* counter `held' to the counter `lost', in two separate atomic steps.     *)
(*                                                                         *)
(* A worker handles one id at a time, so the workers are not modelled as   *)
(* processes of their own: an id that is being dialled or joined occupies  *)
(* one of the Dialers workers.  The pacing ticker delays the next id by an *)
(* arbitrary time, which is what interleaving already allows.              *)
(***************************************************************************)
EXTENDS Integers, FiniteSets

CONSTANTS
  Sockets,   \* Options.Sockets
  Shards,    \* Options.Shards
  Dialers    \* Options.Dialers, the workers and the channel's capacity

\* Run refuses every other shape before it opens anything.
ASSUME ShapeAssumption ==
  /\ Sockets \in Nat \ {0}
  /\ Shards \in 1..Sockets
  /\ Dialers \in Nat \ {0}

VARIABLES
  sock,       \* where each socket id is in its life
  nextId,     \* the id the handing goroutine is at
  offering,   \* it has looked at the context and is about to send nextId
  ramp,       \* "handing", "closed" (ids closed), "returned"
  held,       \* run.held
  lost,       \* run.lost
  noted,      \* failures.n
  stopped,    \* run.stop is closed
  cancelled   \* the context is done

rampVars == <<sock, nextId, offering, ramp, held, lost, noted, stopped, cancelled>>

Ids == 0..(Sockets - 1)
ShardOf(id) == id % Shards

\* A socket waits in the channel, is dialled, is joined, and is then up.
\* "dropping" has seen its connection fail and run.stop still open,
\* "losing" has counted itself lost and is still counted held; "closed"
\* saw its connection fail after run.stop was closed.
SockStates == {"new", "queued", "dialing", "joining", "up",
               "dropping", "losing", "lost", "closed", "refused"}

InState(S) == {id \in Ids : sock[id] \in S}
Working == InState({"dialing", "joining"})

RampInit ==
  /\ sock = [id \in Ids |-> "new"]
  /\ nextId = 0 /\ offering = FALSE /\ ramp = "handing"
  /\ held = 0 /\ lost = 0 /\ noted = 0
  /\ stopped = FALSE /\ cancelled = FALSE

Move(id, from, to) ==
  /\ sock[id] = from
  /\ sock' = [sock EXCEPT ![id] = to]

\* The producer waits for its tick and looks at the context: a done
\* context ends the loop, and so does the last id.
Offer ==
  /\ ramp = "handing" /\ ~offering /\ nextId < Sockets /\ ~cancelled
  /\ offering' = TRUE
  /\ UNCHANGED <<sock, nextId, ramp, held, lost, noted, stopped, cancelled>>

\* ids <- id, which blocks while the channel is full and does not look at
\* the context again.
SendId ==
  /\ offering
  /\ Cardinality(InState({"queued"})) < Dialers
  /\ Move(nextId, "new", "queued")
  /\ nextId' = nextId + 1
  /\ offering' = FALSE
  /\ UNCHANGED <<ramp, held, lost, noted, stopped, cancelled>>

\* Mutant of CloseIds: the loop stops one id early.
CloseIdsOneShort ==
  /\ ramp = "handing" /\ ~offering
  /\ nextId >= Sockets - 1 \/ cancelled
  /\ ramp' = "closed"
  /\ UNCHANGED <<sock, nextId, offering, held, lost, noted, stopped, cancelled>>

CloseIds ==
  /\ ramp = "handing" /\ ~offering
  /\ nextId = Sockets \/ cancelled
  /\ ramp' = "closed"
  /\ UNCHANGED <<sock, nextId, offering, held, lost, noted, stopped, cancelled>>

\* A free worker takes the oldest id in the channel.
Take(id) ==
  /\ Cardinality(Working) < Dialers
  /\ \A other \in InState({"queued"}) : id <= other
  /\ Move(id, "queued", "dialing")
  /\ UNCHANGED <<nextId, offering, ramp, held, lost, noted, stopped, cancelled>>

DialOK(id) ==
  /\ Move(id, "dialing", "joining")
  /\ UNCHANGED <<nextId, offering, ramp, held, lost, noted, stopped, cancelled>>

\* The dial fails, or the join is answered with anything but ok, or the
\* connection breaks under it.
Refuse(id) ==
  /\ \E at \in {"dialing", "joining"} : Move(id, at, "refused")
  /\ noted' = noted + 1
  /\ UNCHANGED <<nextId, offering, ramp, held, lost, stopped, cancelled>>

\* The reply to the join: the socket is counted and its reader started.
JoinOK(id) ==
  /\ Move(id, "joining", "up")
  /\ held' = held + 1
  /\ UNCHANGED <<nextId, offering, ramp, lost, noted, stopped, cancelled>>

\* wg.Wait: every worker has drained the closed channel.
RampReturn ==
  /\ ramp = "closed"
  /\ InState({"queued", "dialing", "joining"}) = {}
  /\ ramp' = "returned"
  /\ UNCHANGED <<sock, nextId, offering, held, lost, noted, stopped, cancelled>>

\* A reader's connection fails.  It looks at run.stop once, and only a
\* failure before the stop is a loss.
ReadFails(id) ==
  /\ Move(id, "up", IF stopped THEN "closed" ELSE "dropping")
  /\ UNCHANGED <<nextId, offering, ramp, held, lost, noted, stopped, cancelled>>

CountLost(id) ==
  /\ Move(id, "dropping", "losing")
  /\ lost' = lost + 1
  /\ UNCHANGED <<nextId, offering, ramp, held, noted, stopped, cancelled>>

\* Mutant of UncountHeld: a lost socket keeps its place among the held.
UncountHeldForgotten(id) ==
  /\ Move(id, "losing", "lost")
  /\ noted' = noted + 1
  /\ UNCHANGED <<nextId, offering, ramp, held, lost, stopped, cancelled>>

UncountHeld(id) ==
  /\ Move(id, "losing", "lost")
  /\ held' = held - 1
  /\ noted' = noted + 1
  /\ UNCHANGED <<nextId, offering, ramp, lost, stopped, cancelled>>

\* SIGINT or SIGTERM: the context is done.
Interrupt ==
  /\ ~cancelled
  /\ cancelled' = TRUE
  /\ UNCHANGED <<sock, nextId, offering, ramp, held, lost, noted, stopped>>

\* Everything the ramp's own goroutines do when nothing is refused.
RampStep ==
  \/ Offer \/ SendId \/ CloseIds \/ RampReturn
  \/ \E id \in Ids : Take(id) \/ DialOK(id) \/ JoinOK(id)

RampTypeOK ==
  /\ sock \in [Ids -> SockStates]
  /\ nextId \in 0..Sockets
  /\ offering \in BOOLEAN
  /\ ramp \in {"handing", "closed", "returned"}
  /\ held \in Nat /\ lost \in Nat /\ noted \in Nat
  /\ stopped \in BOOLEAN /\ cancelled \in BOOLEAN

-----------------------------------------------------------------------------

\* The counters say what the sockets are, whatever order the workers and
\* readers add and subtract in: a reader that has counted its loss and not
\* yet given up its place is in both, and a connection that fails after the
\* stop stays held.
CountersMatch ==
  /\ held = Cardinality(InState({"up", "dropping", "losing", "closed"}))
  /\ lost = Cardinality(InState({"losing", "lost"}))

\* A socket id is handed out once and in order: what the producer has
\* passed is not new, and what it has not reached is.  With CountersMatch
\* this is what RampSettles rests on.
HandedInOrder ==
  /\ \A id \in Ids : (sock[id] = "new") <=> (id >= nextId)
  /\ offering => ramp = "handing" /\ nextId < Sockets

\* Once the ramp has returned, no socket is on its way up any more, and
\* without an interrupt every id was tried: the held ones, the refused ones
\* and the lost ones are all the sockets that were wanted.
RampSettles ==
  ramp = "returned" =>
    /\ InState({"queued", "dialing", "joining"}) = {}
    /\ ~cancelled =>
         Sockets = held + Cardinality(InState({"lost", "refused"}))
=============================================================================

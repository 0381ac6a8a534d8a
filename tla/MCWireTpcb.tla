----------------------------- MODULE MCWireTpcb -----------------------------
(***************************************************************************)
(* The tpcb driver on a small instance, and two comments of tpcb.go that   *)
(* the code does not keep.                                                 *)
(***************************************************************************)
EXTENDS WireTpcb

\* tpcb/tpcb.go: "the connection is fine, since Query only returns after
\* ReadyForQuery", where the client rolls back.
FineBeforeRollback ==
  \A c \in Conns :
    (pc[c] = "write" /\ stmt[c] = Rollback) => link[c] = "up" /\ unread[c] = <<>>

\* tpcb/tpcb.go: "A connection that dies takes its client with it, because a
\* run whose clients quietly halve is a run reporting a rate nobody asked for."
NoQuietHalving ==
  [][main' = "defer" /\ main = "run" => \A c \in Conns : link[c] = "up"]_vars
=============================================================================

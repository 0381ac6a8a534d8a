------------------------------ MODULE WireTpcb ------------------------------
(***************************************************************************)
(* The tpcb driver on the wire client (tpcb/tpcb.go: Run, loop;            *)
(* pgwire/pgwire.go: DialPassword, startup, Query, read).                  *)
(*                                                                         *)
(* Run dials its clients one after the other and then lets each loop a     *)
(* transaction of Last statements until the deadline.  A statement is one  *)
(* simple query: what is sent is answered by messages that are read one by *)
(* one until ReadyForQuery.                                                *)
(*                                                                         *)
(* A message is its kind.  The kinds startup or Query skip are "C"; what a *)
(* row carries is left out, the driver drops it.  External: the server     *)
(* behind each connection, which answers, fails a statement, breaks the    *)
(* connection, or sends a kind the client does not know.                   *)
(***************************************************************************)
EXTENDS Integers, Sequences, Functions

CONSTANTS
  Clients,    \* the clients are 1 .. Clients
  Last,       \* statements of a transaction, 7 in the code: BEGIN is 1, END is Last
  MaxRounds,  \* bound on the transactions a client starts
  MaxErrors,  \* bound on the statements that fail
  MaxBreaks,  \* bound on the connections that break
  MaxStrays   \* bound on the messages of an unknown kind

ASSUME WireAssumption ==
  /\ Clients \in Nat \ {0} /\ Last \in Nat \ {0, 1} /\ MaxRounds \in Nat
  /\ MaxErrors \in Nat /\ MaxBreaks \in Nat /\ MaxStrays \in Nat

VARIABLES
  main,      \* where Run is
  dialling,  \* the client being dialled
  closing,   \* the next connection a loop of closes is at
  late,      \* the deadline has passed
  pc,        \* each client: in its loop, about to write, reading an answer, returned
  stmt,      \* the statement of the query it is in, or the rollback
  queryErr,  \* Query's queryErr
  txns,      \* len(txns)
  failed,    \* failed
  result,    \* what Run returned
  link,      \* each connection
  sent,      \* queries the server has not looked at
  unread,    \* messages the client has not read
  txn,       \* external: the state of the server's transaction
  errors, breaks, strays,   \* how much of each bound is used
  rounds,    \* history: transactions started
  commits,   \* history: transactions the server committed
  stray      \* history: the connections that carried an unknown kind

clientVars == <<pc, stmt, queryErr, txns, failed, rounds>>
wireVars   == <<link, sent, unread>>
serverVars == <<txn, commits, stray, errors, breaks, strays>>
runVars    == <<main, dialling, closing, late, result>>
vars       == <<runVars, clientVars, wireVars, serverVars>>

Conns == 1..Clients
Begin == 1
Rollback == 0
NoResult == [err |-> FALSE, txns |-> 0, failed |-> 0]

Init ==
  /\ main = "dial" /\ dialling = 1 /\ closing = 1 /\ late = FALSE /\ result = NoResult
  /\ pc = [c \in Conns |-> "off"] /\ stmt = [c \in Conns |-> Begin]
  /\ queryErr = [c \in Conns |-> FALSE]
  /\ txns = [c \in Conns |-> 0] /\ failed = [c \in Conns |-> 0]
  /\ rounds = [c \in Conns |-> 0] /\ commits = [c \in Conns |-> 0]
  /\ link = [c \in Conns |-> "none"] /\ txn = [c \in Conns |-> "idle"]
  /\ sent = [c \in Conns |-> <<>>] /\ unread = [c \in Conns |-> <<>>]
  /\ stray = {} /\ errors = 0 /\ breaks = 0 /\ strays = 0

-----------------------------------------------------------------------------
\* Dialling.

\* The connection of the client being dialled opens, and what the server
\* answers to the startup message: it trusts, or wants a password nobody has,
\* or refuses, or says what the client does not know.
Greetings == {<<"R0", "C", "Z">>, <<"R3">>, <<"E">>, <<"R0", "other">>}

Connect ==
  /\ main = "dial" /\ dialling <= Clients /\ link[dialling] = "none"
  /\ \E g \in Greetings :
       /\ link' = [link EXCEPT ![dialling] = "up"]
       /\ unread' = [unread EXCEPT ![dialling] = g]
  /\ UNCHANGED <<runVars, clientVars, sent, serverVars>>

\* A client that could not be dialled: Run goes to close the ones before it.
DialFails ==
  /\ main' = "undial"
  /\ UNCHANGED <<dialling, closing, late, result, clientVars, sent, unread, serverVars>>

\* net.Dial fails: there is nothing to close here.
Refused ==
  /\ main = "dial" /\ dialling <= Clients /\ link[dialling] = "none"
  /\ DialFails
  /\ UNCHANGED link

\* startup fails: DialPassword closes the connection, which conns never held.
StartupFails ==
  /\ link' = [link EXCEPT ![dialling] = "closed"]
  /\ DialFails

\* startup reads one message.
StartupReads ==
  /\ main = "dial" /\ dialling <= Clients /\ link[dialling] \in {"up", "down"}
  /\ unread[dialling] # <<>>
  /\ LET kind == Head(unread[dialling]) IN
     \/ /\ kind \in {"R0", "C"}
        /\ unread' = [unread EXCEPT ![dialling] = Tail(@)]
        /\ UNCHANGED <<runVars, clientVars, link, sent, serverVars>>
     \/ /\ kind = "Z"
        /\ unread' = [unread EXCEPT ![dialling] = Tail(@)]
        /\ dialling' = dialling + 1
        /\ UNCHANGED <<main, closing, late, result, clientVars, link, sent, serverVars>>
     \/ /\ kind \in {"R3", "E", "other"}
        /\ StartupFails

\* The connection broke under startup.
StartupBroken ==
  /\ main = "dial" /\ dialling <= Clients /\ link[dialling] = "down"
  /\ unread[dialling] = <<>>
  /\ StartupFails

\* Closing the connection a loop of closes is at, whatever state it is in.
CloseOne ==
  /\ link' = [link EXCEPT ![closing] = "closed"]
  /\ closing' = closing + 1
  /\ UNCHANGED <<main, dialling, late, result, clientVars, sent, unread, serverVars>>

\* Mutant of Undial: the loop stops one connection short.
UndialShort ==
  /\ main = "undial"
  /\ \/ closing < dialling - 1 /\ CloseOne
     \/ /\ closing >= dialling - 1
        /\ main' = "returned"
        /\ result' = [err |-> TRUE, txns |-> 0, failed |-> 0]
        /\ UNCHANGED <<dialling, closing, late, clientVars, wireVars, serverVars>>

\* The loop over conns[:i], and then the error is returned: Run has not come
\* to its defer.
Undial ==
  /\ main = "undial"
  /\ \/ closing < dialling /\ CloseOne
     \/ /\ closing >= dialling
        /\ main' = "returned"
        /\ result' = [err |-> TRUE, txns |-> 0, failed |-> 0]
        /\ UNCHANGED <<dialling, closing, late, clientVars, wireVars, serverVars>>

\* Every client is connected: the loops start.
StartLoops ==
  /\ main = "dial" /\ dialling > Clients
  /\ main' = "run"
  /\ pc' = [c \in Conns |-> "loop"]
  /\ UNCHANGED <<dialling, closing, late, result, stmt, queryErr, txns, failed, rounds,
                 wireVars, serverVars>>

Deadline ==
  /\ main = "run" /\ ~late
  /\ late' = TRUE
  /\ UNCHANGED <<main, dialling, closing, result, clientVars, wireVars, serverVars>>

-----------------------------------------------------------------------------
\* A client.

\* One turn of loop: the deadline is only looked at here.
Turn(c) ==
  /\ pc[c] = "loop"
  /\ IF late
     THEN pc' = [pc EXCEPT ![c] = "done"] /\ UNCHANGED <<stmt, rounds>>
     ELSE /\ rounds[c] < MaxRounds
          /\ pc' = [pc EXCEPT ![c] = "write"]
          /\ stmt' = [stmt EXCEPT ![c] = Begin]
          /\ rounds' = [rounds EXCEPT ![c] = @ + 1]
  /\ UNCHANGED <<runVars, queryErr, txns, failed, wireVars, serverVars>>

\* Mutant of StmtFailed: the next transaction starts without a rollback.
StmtFailedNoRollback(c) ==
  /\ failed' = [failed EXCEPT ![c] = @ + 1]
  /\ pc' = [pc EXCEPT ![c] = "loop"]
  /\ UNCHANGED <<stmt, txns>>

\* A statement fails: the transaction is counted and rolled back.
StmtFailed(c) ==
  /\ failed' = [failed EXCEPT ![c] = @ + 1]
  /\ stmt' = [stmt EXCEPT ![c] = Rollback]
  /\ pc' = [pc EXCEPT ![c] = "write"]
  /\ UNCHANGED txns

\* The rollback is answered or not, and then the client gives up.
RollbackReturned(c, err) ==
  /\ pc' = [pc EXCEPT ![c] = IF err THEN "done" ELSE "loop"]
  /\ UNCHANGED <<stmt, txns, failed>>

\* Mutant of StmtDone: the transaction is timed before END has returned.
StmtDoneEarly(c) ==
  /\ IF stmt[c] = Last - 1
     THEN txns' = [txns EXCEPT ![c] = @ + 1]
     ELSE UNCHANGED txns
  /\ IF stmt[c] = Last
     THEN pc' = [pc EXCEPT ![c] = "loop"] /\ UNCHANGED stmt
     ELSE /\ stmt' = [stmt EXCEPT ![c] = @ + 1]
          /\ pc' = [pc EXCEPT ![c] = "write"]
  /\ UNCHANGED failed

\* Mutant of StmtDone: one statement too many.
StmtDonePastEnd(c) ==
  /\ IF stmt[c] > Last
     THEN /\ txns' = [txns EXCEPT ![c] = @ + 1]
          /\ pc' = [pc EXCEPT ![c] = "loop"]
          /\ UNCHANGED stmt
     ELSE /\ stmt' = [stmt EXCEPT ![c] = @ + 1]
          /\ pc' = [pc EXCEPT ![c] = "write"]
          /\ UNCHANGED txns
  /\ UNCHANGED failed

\* A statement succeeds: the next one, or the transaction is timed.
StmtDone(c) ==
  /\ IF stmt[c] = Last
     THEN /\ txns' = [txns EXCEPT ![c] = @ + 1]
          /\ pc' = [pc EXCEPT ![c] = "loop"]
          /\ UNCHANGED stmt
     ELSE /\ stmt' = [stmt EXCEPT ![c] = @ + 1]
          /\ pc' = [pc EXCEPT ![c] = "write"]
          /\ UNCHANGED txns
  /\ UNCHANGED failed

\* Query returns to loop, with an error or without.
Returns(c, err) ==
  /\ \/ stmt[c] = Rollback /\ RollbackReturned(c, err)
     \/ stmt[c] # Rollback /\ err /\ StmtFailed(c)
     \/ stmt[c] # Rollback /\ ~err /\ StmtDone(c)
  /\ UNCHANGED <<runVars, rounds, serverVars>>

\* Query writes.  A write on a broken connection may still succeed.
Write(c) ==
  /\ pc[c] = "write"
  /\ pc' = [pc EXCEPT ![c] = "read"]
  /\ queryErr' = [queryErr EXCEPT ![c] = FALSE]
  /\ sent' = [sent EXCEPT ![c] = IF link[c] = "up" THEN Append(@, stmt[c]) ELSE @]
  /\ UNCHANGED <<runVars, stmt, txns, failed, rounds, link, unread, serverVars>>

WriteFails(c) ==
  /\ pc[c] = "write" /\ link[c] = "down"
  /\ Returns(c, TRUE)
  /\ UNCHANGED <<queryErr, wireVars>>

Consume(c) ==
  /\ unread' = [unread EXCEPT ![c] = Tail(@)]
  /\ UNCHANGED <<link, sent>>

\* Query reads a row, a tag or a notice.
ReadSkips(c) ==
  /\ pc[c] = "read" /\ unread[c] # <<>> /\ Head(unread[c]) = "C"
  /\ Consume(c)
  /\ UNCHANGED <<runVars, clientVars, serverVars>>

\* Mutant of ReadError: Query returns at the error.
ReadErrorReturns(c) ==
  /\ pc[c] = "read" /\ unread[c] # <<>> /\ Head(unread[c]) = "E"
  /\ Consume(c)
  /\ Returns(c, TRUE)
  /\ UNCHANGED queryErr

\* Query reads an error, and goes on reading.
ReadError(c) ==
  /\ pc[c] = "read" /\ unread[c] # <<>> /\ Head(unread[c]) = "E"
  /\ Consume(c)
  /\ queryErr' = [queryErr EXCEPT ![c] = TRUE]
  /\ UNCHANGED <<runVars, pc, stmt, txns, failed, rounds, serverVars>>

\* Query reads ReadyForQuery.
ReadReady(c) ==
  /\ pc[c] = "read" /\ unread[c] # <<>> /\ Head(unread[c]) = "Z"
  /\ Consume(c)
  /\ Returns(c, queryErr[c])
  /\ UNCHANGED queryErr

\* Query reads a kind it does not know and returns, whatever follows.
ReadOther(c) ==
  /\ pc[c] = "read" /\ unread[c] # <<>> /\ Head(unread[c]) = "other"
  /\ Consume(c)
  /\ Returns(c, TRUE)
  /\ UNCHANGED queryErr

\* Mutant of ReadBroken: the error of the connection is not looked at.
ReadBrokenIgnored(c) ==
  /\ pc[c] = "read" /\ unread[c] = <<>> /\ link[c] = "down"
  /\ UNCHANGED vars

\* The connection is gone, perhaps in the middle of a message.
ReadBroken(c) ==
  /\ pc[c] = "read" /\ unread[c] = <<>> /\ link[c] = "down"
  /\ Returns(c, TRUE)
  /\ UNCHANGED <<queryErr, wireVars>>

-----------------------------------------------------------------------------
\* wg.Wait and what Run returns.

Return ==
  /\ main = "run" /\ \A c \in Conns : pc[c] = "done"
  /\ main' = "defer"
  /\ result' = [err |-> FALSE, txns |-> SumFunction(txns), failed |-> SumFunction(failed)]
  /\ UNCHANGED <<dialling, closing, late, clientVars, wireVars, serverVars>>

\* The deferred loop over conns, and Run has returned.
Deferred ==
  /\ main = "defer"
  /\ \/ closing <= Clients /\ CloseOne
     \/ /\ closing > Clients
        /\ main' = "returned"
        /\ UNCHANGED <<dialling, closing, late, result, clientVars, wireVars, serverVars>>

-----------------------------------------------------------------------------
\* External: the server behind a connection.

Answers(c, messages) ==
  /\ unread' = [unread EXCEPT ![c] = @ \o messages]
  /\ sent' = [sent EXCEPT ![c] = Tail(@)]
  /\ UNCHANGED <<runVars, clientVars, link, breaks>>

Asked(c) == link[c] = "up" /\ sent[c] # <<>>

\* What a statement that succeeds makes of the transaction.
NextTxn(c) ==
  CASE Head(sent[c]) = Begin -> "open"
    [] Head(sent[c]) \in {Last, Rollback} -> "idle"
    [] OTHER -> txn[c]

\* An aborted transaction refuses everything that does not end it.
Refuses(c) == txn[c] = "aborted" /\ Head(sent[c]) \notin {Last, Rollback}

\* The statement succeeds, perhaps with a message the client does not know.
\* END in an aborted transaction succeeds and commits nothing.
Executes(c) ==
  /\ Asked(c) /\ ~Refuses(c)
  /\ txn' = [txn EXCEPT ![c] = NextTxn(c)]
  /\ commits' = [commits EXCEPT
       ![c] = IF Head(sent[c]) = Last /\ txn[c] = "open" THEN @ + 1 ELSE @]
  /\ \/ Answers(c, <<"C", "Z">>) /\ UNCHANGED <<stray, strays>>
     \/ /\ strays < MaxStrays /\ strays' = strays + 1 /\ stray' = stray \cup {c}
        /\ Answers(c, <<"other", "C", "Z">>)
  /\ UNCHANGED errors

\* The statement fails; END fails too when the commit does.
Fails(c) ==
  /\ Asked(c)
  /\ Refuses(c) \/ (Head(sent[c]) # Rollback /\ errors < MaxErrors)
  /\ errors' = IF Refuses(c) THEN errors ELSE errors + 1
  /\ txn' = [txn EXCEPT ![c] =
       IF Head(sent[c]) = Last \/ @ = "idle" THEN "idle" ELSE "aborted"]
  /\ Answers(c, <<"E", "Z">>)
  /\ UNCHANGED <<commits, stray, strays>>

\* The connection breaks: some of what was sent to the client still arrives,
\* the server drops what it was asked and rolls back.
Breaks(c) ==
  /\ link[c] = "up" /\ breaks < MaxBreaks
  /\ breaks' = breaks + 1
  /\ link' = [link EXCEPT ![c] = "down"]
  /\ \E n \in 0..Len(unread[c]) : unread' = [unread EXCEPT ![c] = SubSeq(@, 1, n)]
  /\ sent' = [sent EXCEPT ![c] = <<>>]
  /\ txn' = [txn EXCEPT ![c] = "idle"]
  /\ UNCHANGED <<runVars, clientVars, commits, stray, errors, strays>>

-----------------------------------------------------------------------------
Client(c) ==
  \/ Turn(c) \/ Write(c) \/ WriteFails(c)
  \/ ReadSkips(c) \/ ReadError(c) \/ ReadReady(c) \/ ReadOther(c) \/ ReadBroken(c)

Server(c) == Executes(c) \/ Fails(c)

Main ==
  \/ Connect \/ Refused \/ StartupReads \/ StartupBroken \/ Undial \/ StartLoops
  \/ Deadline \/ Return \/ Deferred

Next == Main \/ \E c \in Conns : Client(c) \/ Server(c) \/ Breaks(c)

Spec == Init /\ [][Next]_vars

\* Goroutines make progress and the deadline passes.  A server that has a
\* query answers it or the connection breaks: the client has no timeout.
FairSpec ==
  /\ Spec
  /\ WF_vars(Main)
  /\ \A c \in Conns : WF_vars(Client(c)) /\ WF_vars(Server(c))

-----------------------------------------------------------------------------
\* Properties.

Kinds == {"R0", "R3", "C", "E", "Z", "other"}

\* The types; no statement past END is ever asked for.
TypeOK ==
  /\ main \in {"dial", "undial", "run", "defer", "returned"}
  /\ dialling \in 1..(Clients + 1) /\ closing \in 1..(Clients + 1)
  /\ late \in BOOLEAN
  /\ result \in [err : BOOLEAN, txns : Nat, failed : Nat]
  /\ pc \in [Conns -> {"off", "loop", "write", "read", "done"}]
  /\ stmt \in [Conns -> 0..Last] /\ queryErr \in [Conns -> BOOLEAN]
  /\ txns \in [Conns -> Nat] /\ failed \in [Conns -> Nat] /\ rounds \in [Conns -> Nat]
  /\ link \in [Conns -> {"none", "up", "down", "closed"}]
  /\ sent \in [Conns -> Seq(0..Last)] /\ unread \in [Conns -> Seq(Kinds)]
  /\ txn \in [Conns -> {"idle", "open", "aborted"}] /\ commits \in [Conns -> Nat]
  /\ stray \subseteq Conns
  /\ errors \in 0..MaxErrors /\ breaks \in 0..MaxBreaks /\ strays \in 0..MaxStrays

\* Between two queries of a connection nothing is unread and nothing is still
\* to be answered, so the answer Query reads is the answer to its own
\* statement, through failed statements and rollbacks (pgwire.go, Query), as
\* long as the server keeps to the kinds the client knows.
AnswersAreOwn ==
  \A c \in Conns :
    (pc[c] \in {"loop", "write", "done"} /\ link[c] = "up" /\ c \notin stray) =>
      sent[c] = <<>> /\ unread[c] = <<>>

\* A transaction that starts finds the server's transaction closed: what a
\* failed one left open is rolled back before the client's next turn
\* (tpcb.go, loop).
RoundsStartClean ==
  \A c \in Conns :
    (pc[c] = "loop" /\ link[c] = "up" /\ c \notin stray) => txn[c] = "idle"

\* Every transaction started is timed or counted as failed, exactly once, and
\* the timed ones are the committed ones; the only commit that is not timed is
\* one whose answer went down with its connection (tpcb.go, loop and Run).
TimedIsCommitted ==
  \A c \in Conns :
    pc[c] \in {"loop", "done"} =>
      /\ txns[c] + failed[c] = rounds[c]
      /\ c \notin stray =>
           /\ txns[c] <= commits[c]
           /\ commits[c] <= txns[c] + (IF link[c] = "up" THEN 0 ELSE 1)

\* However Run returns, it leaves no connection open: the one whose startup
\* failed is closed by DialPassword, the ones dialled before it by the loop over
\* conns[:i], and all of them by the defer, which is only there once every
\* client is connected (pgwire.go, DialPassword; tpcb.go, Run).
NoConnLeft == main = "returned" => \A c \in Conns : link[c] \in {"none", "closed"}

\* Run returns, whatever breaks, and after a stray message too.
RunReturns == <>(main = "returned")
=============================================================================

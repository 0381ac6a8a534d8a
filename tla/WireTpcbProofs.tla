--------------------------- MODULE WireTpcbProofs ---------------------------
(***************************************************************************)
(* Proofs about WireTpcb, for every number of clients and statements and   *)
(* without a bound on rounds, failures, broken connections and strays.     *)
(***************************************************************************)
EXTENDS WireTpcb, SumsProofs, SequenceTheorems

\* The types the other properties need; the rest of TypeOK is RestType.
WireType ==
  /\ main \in {"dial", "undial", "run", "defer", "returned"}
  /\ dialling \in 1..(Clients + 1) /\ closing \in 1..(Clients + 1)
  /\ pc \in [Conns -> {"off", "loop", "write", "read", "done"}]
  /\ stmt \in [Conns -> 0..Last] /\ queryErr \in [Conns -> BOOLEAN]
  /\ txns \in [Conns -> Nat] /\ failed \in [Conns -> Nat] /\ rounds \in [Conns -> Nat]
  /\ link \in [Conns -> {"none", "up", "down", "closed"}]
  /\ sent \in [Conns -> Seq(0..Last)] /\ unread \in [Conns -> Seq(Kinds)]
  /\ txn \in [Conns -> {"idle", "open", "aborted"}] /\ commits \in [Conns -> Nat]
  /\ stray \subseteq Conns

-----------------------------------------------------------------------------
\* The inductive invariant.

\* ReadyForQuery is the last message.
ReadyLast(s) == \A i \in 1..Len(s) : s[i] = "Z" => i = Len(s)

\* A connection of conns under a loop of closes: closed behind the loop's index,
\* still open from it on.
Held(c) == IF c < closing THEN link[c] = "closed" ELSE link[c] \in {"up", "down"}

\* Where Run is decides what the clients and their connections can be: behind a
\* client that could not be dialled nothing was ever opened, and what it had
\* opened itself is closed before the loop over conns[:i] starts.
MainInv ==
  /\ main = "dial" => closing = 1 /\ \A c \in Conns :
       /\ pc[c] = "off" /\ link[c] # "closed" /\ ReadyLast(unread[c])
       /\ c < dialling => link[c] \in {"up", "down"} /\ unread[c] = <<>>
       /\ c > dialling => link[c] = "none"
  /\ main = "undial" => \A c \in Conns :
       /\ pc[c] = "off" /\ (c < dialling => Held(c))
       /\ c >= dialling => link[c] \in {"none", "closed"}
  /\ main = "run" => closing = 1 /\ \A c \in Conns :
       pc[c] # "off" /\ link[c] \in {"up", "down"}
  /\ main = "defer" => \A c \in Conns : pc[c] = "done" /\ Held(c)
  /\ main = "returned" => \A c \in Conns :
       /\ pc[c] \in {"off", "done"} /\ link[c] \in {"none", "closed"}
       /\ link[c] = "none" => pc[c] = "off"

\* A client whose loop has not started has done nothing.
OffInv(c) ==
  pc[c] = "off" =>
    /\ sent[c] = <<>> /\ txn[c] = "idle" /\ c \notin stray
    /\ txns[c] = 0 /\ failed[c] = 0 /\ rounds[c] = 0 /\ commits[c] = 0

\* A round is counted when it is over, and a rollback comes after the count.
RoundInv(c) ==
  rounds[c] = txns[c] + failed[c]
    + (IF pc[c] \in {"write", "read"} /\ stmt[c] # Rollback THEN 1 ELSE 0)

\* The server's transaction before the statement is executed, and after it
\* succeeded.
Pre(c) ==
  /\ stmt[c] = Begin => txn[c] = "idle"
  /\ stmt[c] \notin {Begin, Rollback} => txn[c] = "open"

Post(c) == txn[c] = IF stmt[c] \in {Last, Rollback} THEN "idle" ELSE "open"

Even(c) == commits[c] = txns[c]
Ahead(c) == commits[c] = txns[c] + (IF stmt[c] = Last THEN 1 ELSE 0)

\* A query is with the server, or its good answer is being read, or its error.
Waiting(c) == sent[c] = <<stmt[c]>> /\ unread[c] = <<>> /\ ~queryErr[c] /\ Pre(c) /\ Even(c)

Succeeded(c) ==
  /\ unread[c] = <<"C", "Z">> \/ unread[c] = <<"Z">>
  /\ ~queryErr[c] /\ Ahead(c)

Erred(c) ==
  /\ unread[c] = <<"E", "Z">> \/ (unread[c] = <<"Z">> /\ queryErr[c])
  /\ Even(c)

\* A connection that is up and has carried no stray message.
UpInv(c) ==
  /\ pc[c] # "read" => sent[c] = <<>> /\ unread[c] = <<>> /\ Even(c)
  /\ pc[c] \in {"loop", "done"} => txn[c] = "idle"
  /\ pc[c] = "write" => Pre(c)
  /\ pc[c] = "read" =>
       \/ Waiting(c)
       \/ sent[c] = <<>> /\ Succeeded(c) /\ Post(c)
       \/ sent[c] = <<>> /\ Erred(c) /\ stmt[c] # Rollback

AtMostOneUntimed(c) == txns[c] <= commits[c] /\ commits[c] <= txns[c] + 1

\* A connection that broke: at most the last commit is not timed, and if the
\* whole good answer to END is there it still will be.
DownInv(c) ==
  /\ sent[c] = <<>> /\ AtMostOneUntimed(c)
  /\ pc[c] # "read" => unread[c] = <<>>
  /\ pc[c] = "read" =>
       \/ unread[c] = <<>> \/ unread[c] = <<"C">> \/ unread[c] = <<"E">>
       \/ Succeeded(c) \/ Erred(c)

ConnInv(c) ==
  /\ OffInv(c) /\ RoundInv(c)
  /\ (pc[c] # "off" /\ c \notin stray /\ link[c] = "up") => UpInv(c)
  /\ (pc[c] # "off" /\ c \notin stray /\ link[c] = "down") => DownInv(c)
  /\ (pc[c] # "off" /\ c \notin stray /\ link[c] = "closed") => AtMostOneUntimed(c)

IInv == WireType /\ MainInv /\ \A c \in Conns : ConnInv(c)

-----------------------------------------------------------------------------
\* Short sequences of messages.

\* What reading the head of the answers in question leaves.
LEMMA Answer ==
  ASSUME NEW a, NEW b
  PROVE  /\ Head(<<a, b>>) = a /\ Tail(<<a, b>>) = <<b>>
         /\ Head(<<a>>) = a /\ Tail(<<a>>) = <<>>
         /\ <<a, b>> # <<>> /\ <<a>> # <<>> /\ <<a, b>> # <<a>> /\ <<a, b>> # <<b>>
         /\ Append(<<>>, a) = <<a>>
OBVIOUS

\* What a broken connection leaves of an answer.
LEMMA Cut ==
  ASSUME NEW a, NEW b
  PROVE  /\ \A n \in 0..Len(<<>>) : SubSeq(<<>>, 1, n) = <<>>
         /\ \A n \in 0..Len(<<a>>) : SubSeq(<<a>>, 1, n) = <<>> \/ SubSeq(<<a>>, 1, n) = <<a>>
         /\ \A n \in 0..Len(<<a, b>>) :
              \/ SubSeq(<<a, b>>, 1, n) = <<>> \/ SubSeq(<<a, b>>, 1, n) = <<a>>
              \/ SubSeq(<<a, b>>, 1, n) = <<a, b>>
<1>1. ASSUME NEW s, s \in Seq({a, b})
      PROVE  SubSeq(s, 1, 0) = <<>>
  BY <1>1
<1>3. <<>> \in Seq({a, b}) /\ <<a>> \in Seq({a, b}) /\ <<a, b>> \in Seq({a, b})
  OBVIOUS
<1>4. Len(<<>>) = 0 /\ Len(<<a>>) = 1 /\ Len(<<a, b>>) = 2
  OBVIOUS
<1>5. \A n \in 0..Len(<<>>) : SubSeq(<<>>, 1, n) = <<>>
  BY <1>1, <1>3, <1>4
<1>6. SubSeq(<<a>>, 1, 1) = <<a>>
  BY <1>3, <1>4, SubSeqFull
<1>7. SubSeq(<<a, b>>, 1, 1) = <<a>>
  <2>1. SubSeq(<<a, b>>, 1, 1) = SubSeq(<<a, b>>, 1, 0) \o << <<a, b>>[1] >>
    BY <1>3, <1>4, SubSeqRecursiveSecond
  <2>2. <<>> \o <<a>> = <<a>>
    OBVIOUS
  <2> QED
    BY <1>1, <1>3, <2>1, <2>2
<1>8. SubSeq(<<a, b>>, 1, 2) = <<a, b>>
  BY <1>3, <1>4, SubSeqFull
<1> QED
  BY <1>1, <1>3, <1>4, <1>5, <1>6, <1>7, <1>8

\* An answer in a connection on which nothing was unread.
LEMMA Appended ==
  ASSUME NEW a, NEW b
  PROVE  <<>> \o <<a, b>> = <<a, b>>
OBVIOUS

\* What is read or cut off leaves ReadyForQuery last, and nothing after it.
LEMMA ReadyStaysLast ==
  ASSUME NEW s \in Seq(Kinds), ReadyLast(s)
  PROVE  /\ s # <<>> => ReadyLast(Tail(s))
         /\ s # <<>> /\ Head(s) = "Z" => Tail(s) = <<>>
         /\ \A n \in 0..Len(s) : ReadyLast(SubSeq(s, 1, n))
<1> DEFINE t == Tail(s)
<1>0. ASSUME s # <<>>
      PROVE  /\ t \in Seq(Kinds) /\ Len(t) = Len(s) - 1 /\ Len(s) \in Nat \ {0}
             /\ \A i \in 1..Len(t) : t[i] = s[i + 1]
             /\ t # <<>> => Len(t) \in Nat \ {0}
  <2>1. /\ t \in Seq(Kinds) /\ Len(t) = Len(s) - 1
        /\ \A i \in 1..Len(t) : t[i] = s[i + 1]
    BY <1>0, HeadTailProperties
  <2>2. Len(s) \in Nat \ {0} /\ (t # <<>> => Len(t) \in Nat \ {0})
    BY <1>0, <2>1, EmptySeq
  <2> QED
    BY <2>1, <2>2
<1> HIDE DEF t
<1>1. ASSUME s # <<>> PROVE ReadyLast(t)
  BY <1>0, <1>1 DEF ReadyLast
<1>2. ASSUME s # <<>>, Head(s) = "Z" PROVE t = <<>>
  <2>1. s[1] = "Z" /\ 1 \in 1..Len(s)
    BY <1>0, <1>2
  <2>2. 1 = Len(s)
    BY <2>1 DEF ReadyLast
  <2> QED
    BY <1>0, <1>2, <2>2
<1>3. ASSUME NEW n \in 0..Len(s) PROVE ReadyLast(SubSeq(s, 1, n))
  <2>1. Len(s) \in Nat
    BY LenProperties
  <2>2. CASE n = 0
    <3>1. SubSeq(s, 1, 0) = <<>>
      OBVIOUS
    <3> QED
      BY <2>2, <3>1 DEF ReadyLast
  <2>3. CASE n # 0
    <3>1. /\ Len(SubSeq(s, 1, n)) = n
          /\ \A i \in 1..n : SubSeq(s, 1, n)[i] = s[i]
      BY <2>1, <2>3, SubSeqProperties
    <3> QED
      BY <2>1, <2>3, <3>1 DEF ReadyLast
  <2> QED
    BY <2>2, <2>3
<1> QED
  BY <1>1, <1>2, <1>3 DEF t

\* The initial state satisfies the invariant.
LEMMA InitInv == Init => IInv
BY WireAssumption
   DEF Init, IInv, WireType, MainInv, ReadyLast, ConnInv, OffInv, RoundInv, Conns, Begin, Rollback, Kinds

-----------------------------------------------------------------------------
\* Steps that leave a connection alone.

Untouched(d) ==
  /\ pc'[d] = pc[d] /\ stmt'[d] = stmt[d] /\ queryErr'[d] = queryErr[d]
  /\ txns'[d] = txns[d] /\ failed'[d] = failed[d] /\ rounds'[d] = rounds[d]
  /\ link'[d] = link[d] /\ sent'[d] = sent[d] /\ unread'[d] = unread[d]
  /\ txn'[d] = txn[d] /\ commits'[d] = commits[d] /\ (d \in stray' <=> d \in stray)

\* What holds of a connection goes on holding when nothing of it changes.
LEMMA UntouchedKeeps ==
  ASSUME NEW d \in Conns, ConnInv(d), Untouched(d)
  PROVE  ConnInv(d)'
BY DEF Untouched, ConnInv, OffInv, RoundInv, UpInv, DownInv, Waiting, Succeeded, Erred, Pre, Post,
       Even, Ahead, AtMostOneUntimed

\* A step of one client or its server leaves the other connections alone.
LEMMA OthersUntouched ==
  ASSUME WireType, NEW c \in Conns, NEW d \in Conns, d # c,
         Client(c) \/ Server(c) \/ Breaks(c)
  PROVE  Untouched(d)
<1> USE DEF WireType, Untouched, runVars, clientVars, wireVars, serverVars
<1>1. CASE Turn(c)
  BY <1>1 DEF Turn
<1>2. CASE Write(c)
  BY <1>2 DEF Write
<1>3. ASSUME NEW err, Returns(c, err)
      PROVE  /\ pc'[d] = pc[d] /\ stmt'[d] = stmt[d] /\ txns'[d] = txns[d]
             /\ failed'[d] = failed[d] /\ rounds' = rounds /\ UNCHANGED serverVars
  BY <1>3 DEF Returns, RollbackReturned, StmtFailed, StmtDone
<1>4. CASE WriteFails(c)
  BY <1>3, <1>4 DEF WriteFails
<1>5. CASE ReadSkips(c)
  BY <1>5 DEF ReadSkips, Consume
<1>6. CASE ReadError(c)
  BY <1>6 DEF ReadError, Consume
<1>7. CASE ReadReady(c)
  BY <1>3, <1>7 DEF ReadReady, Consume
<1>8. CASE ReadOther(c)
  BY <1>3, <1>8 DEF ReadOther, Consume
<1>9. CASE ReadBroken(c)
  BY <1>3, <1>9 DEF ReadBroken
<1>10. CASE Executes(c)
  BY <1>10 DEF Executes, Answers
<1>11. CASE Fails(c)
  BY <1>11 DEF Fails, Answers
<1>12. CASE Breaks(c)
  BY <1>12 DEF Breaks
<1> QED
  BY <1>1, <1>2, <1>4, <1>5, <1>6, <1>7, <1>8, <1>9, <1>10, <1>11, <1>12 DEF Client, Server

-----------------------------------------------------------------------------
\* Types.

\* What Query returns keeps the client's types: a statement that is not END
\* has a successor.
LEMMA ReturnsType ==
  ASSUME WireType, NEW c \in Conns, NEW err \in BOOLEAN, Returns(c, err)
  PROVE  /\ pc' \in [Conns -> {"off", "loop", "write", "read", "done"}]
         /\ pc'[c] \in {"loop", "write", "done"}
         /\ stmt' \in [Conns -> 0..Last]
         /\ txns' \in [Conns -> Nat] /\ failed' \in [Conns -> Nat]
         /\ UNCHANGED <<runVars, rounds, serverVars>>
<1> USE WireAssumption DEF WireType, Rollback
<1>1. CASE stmt[c] = Rollback
  BY <1>1 DEF Returns, RollbackReturned
<1>2. CASE stmt[c] # Rollback /\ err
  <2>1. StmtFailed(c) /\ UNCHANGED <<runVars, rounds, serverVars>>
    BY <1>2 DEF Returns
  <2> QED
    BY <2>1 DEF StmtFailed
<1>3. CASE stmt[c] # Rollback /\ ~err
  <2>1. StmtDone(c) /\ UNCHANGED <<runVars, rounds, serverVars>>
    BY <1>3 DEF Returns
  <2>2. CASE stmt[c] = Last
    <3>1. txns[c] + 1 \in Nat
      OBVIOUS
    <3>2. /\ txns' = [txns EXCEPT ![c] = txns[c] + 1] /\ pc' = [pc EXCEPT ![c] = "loop"]
          /\ stmt' = stmt /\ failed' = failed
      BY <2>1, <2>2 DEF StmtDone
    <3> QED
      BY <2>1, <3>1, <3>2
  <2>3. CASE stmt[c] # Last
    <3>1. stmt[c] + 1 \in 0..Last
      BY <2>3
    <3>2. /\ stmt' = [stmt EXCEPT ![c] = stmt[c] + 1] /\ pc' = [pc EXCEPT ![c] = "write"]
          /\ txns' = txns /\ failed' = failed
      BY <2>1, <2>3 DEF StmtDone
    <3> QED
      BY <2>1, <3>1, <3>2
  <2> QED
    BY <2>2, <2>3
<1> QED
  BY <1>1, <1>2, <1>3

\* Reading a message keeps the types of the wire.
LEMMA ConsumeType ==
  ASSUME WireType, NEW c \in Conns, unread[c] # <<>>, Consume(c)
  PROVE  unread' \in [Conns -> Seq(Kinds)] /\ UNCHANGED <<link, sent>>
<1>1. unread[c] \in Seq(Kinds)
  BY DEF WireType
<1>2. Tail(unread[c]) \in Seq(Kinds)
  BY <1>1
<1> QED
  BY <1>2 DEF Consume, WireType

\* Every step of a client keeps the types.
LEMMA ClientType ==
  ASSUME WireType, NEW c \in Conns, Client(c)
  PROVE  WireType'
<1>1. CASE Turn(c)
  <2>1. Begin \in 0..Last
    BY WireAssumption DEF Begin
  <2>2. CASE late
    BY <1>1, <2>2 DEF Turn, WireType, runVars, wireVars, serverVars
  <2>3. CASE ~late
    <3>1. /\ pc' = [pc EXCEPT ![c] = "write"] /\ stmt' = [stmt EXCEPT ![c] = Begin]
          /\ rounds' = [rounds EXCEPT ![c] = rounds[c] + 1]
          /\ UNCHANGED <<runVars, queryErr, txns, failed, wireVars, serverVars>>
      BY <1>1, <2>3 DEF Turn
    <3>2. rounds[c] + 1 \in Nat
      BY DEF WireType
    <3> QED
      BY <2>1, <3>1, <3>2 DEF WireType, runVars, wireVars, serverVars
  <2> QED
    BY <2>2, <2>3
<1>2. CASE Write(c)
  <2>1. sent[c] \in Seq(0..Last) /\ stmt[c] \in 0..Last
    BY DEF WireType
  <2>2. Append(sent[c], stmt[c]) \in Seq(0..Last)
    BY <2>1
  <2> QED
    BY <1>2, <2>2 DEF Write, WireType, runVars, serverVars
<1>3. CASE WriteFails(c)
  BY <1>3, ReturnsType DEF WriteFails, WireType, runVars, wireVars, serverVars
<1>4. CASE ReadSkips(c)
  BY <1>4, ConsumeType DEF ReadSkips, WireType, runVars, clientVars, serverVars
<1>5. CASE ReadError(c)
  BY <1>5, ConsumeType DEF ReadError, WireType, runVars, serverVars
<1>6. CASE ReadReady(c)
  <2>1. queryErr[c] \in BOOLEAN
    BY DEF WireType
  <2> QED
    BY <1>6, <2>1, ConsumeType, ReturnsType DEF ReadReady, WireType, runVars, serverVars
<1>7. CASE ReadOther(c)
  BY <1>7, ConsumeType, ReturnsType DEF ReadOther, WireType, runVars, serverVars
<1>8. CASE ReadBroken(c)
  BY <1>8, ReturnsType DEF ReadBroken, WireType, runVars, wireVars, serverVars
<1> QED
  BY <1>1, <1>2, <1>3, <1>4, <1>5, <1>6, <1>7, <1>8 DEF Client

\* Every step of a server, and a connection that breaks, keeps the types.
LEMMA ServerType ==
  ASSUME WireType, NEW c \in Conns, Server(c) \/ Breaks(c)
  PROVE  WireType'
<1>1. unread[c] \in Seq(Kinds) /\ sent[c] \in Seq(0..Last)
  BY DEF WireType
<1>2. ASSUME NEW m \in Seq(Kinds), sent[c] # <<>>, Answers(c, m)
      PROVE  /\ unread' \in [Conns -> Seq(Kinds)] /\ sent' \in [Conns -> Seq(0..Last)]
             /\ UNCHANGED <<runVars, clientVars, link>>
  <2>1. unread[c] \o m \in Seq(Kinds)
    BY <1>1, ConcatProperties
  <2>2. Tail(sent[c]) \in Seq(0..Last)
    BY <1>1, <1>2, HeadTailProperties
  <2> QED
    BY <1>2, <2>1, <2>2 DEF Answers, WireType
<1>3. /\ <<"C", "Z">> \in Seq(Kinds) /\ <<"E", "Z">> \in Seq(Kinds)
      /\ <<"other", "C", "Z">> \in Seq(Kinds)
  BY DEF Kinds
<1>4. CASE Executes(c)
  <2>1. sent[c] # <<>> /\ \E m \in Seq(Kinds) : Answers(c, m)
    BY <1>3, <1>4 DEF Executes, Asked
  <2>2. txn' \in [Conns -> {"idle", "open", "aborted"}] /\ commits' \in [Conns -> Nat]
    BY <1>4 DEF Executes, NextTxn, WireType
  <2>3. stray' \subseteq Conns
    BY <1>4 DEF Executes, WireType
  <2> QED
    BY <1>2, <2>1, <2>2, <2>3 DEF WireType, runVars, clientVars
<1>5. CASE Fails(c)
  BY <1>2, <1>3, <1>5 DEF Fails, Asked, WireType, runVars, clientVars
<1>6. CASE Breaks(c)
  <2>1. PICK n \in 0..Len(unread[c]) : unread' = [unread EXCEPT ![c] = SubSeq(@, 1, n)]
    BY <1>6 DEF Breaks
  <2>2. SubSeq(unread[c], 1, n) \in Seq(Kinds)
    BY <1>1, <2>1
  <2> QED
    BY <1>6, <2>1, <2>2 DEF Breaks, WireType, runVars, clientVars
<1> QED
  BY <1>4, <1>5, <1>6 DEF Server

\* A dial that fails keeps the types.
LEMMA DialFailsType ==
  ASSUME WireType, DialFails, link' = link \/ (dialling \in Conns /\ StartupFails)
  PROVE  WireType'
BY DEF DialFails, StartupFails, WireType, clientVars, serverVars

\* So does closing a connection.
LEMMA CloseOneType ==
  ASSUME WireType, closing <= Clients, CloseOne
  PROVE  WireType'
<1>1. closing \in Conns /\ closing + 1 \in 1..(Clients + 1)
  BY WireAssumption DEF WireType, Conns
<1> QED
  BY <1>1 DEF CloseOne, WireType, clientVars, serverVars

\* Every step of Run keeps the types.
LEMMA MainType ==
  ASSUME WireType, Main
  PROVE  WireType'
<1>1. CASE Connect
  <2>1. Greetings \subseteq Seq(Kinds)
    BY DEF Greetings, Kinds
  <2>2. dialling \in Conns
    BY <1>1 DEF Connect, WireType, Conns
  <2>3. PICK g \in Seq(Kinds) : unread' = [unread EXCEPT ![dialling] = g]
    BY <1>1, <2>1 DEF Connect
  <2>4. /\ link' = [link EXCEPT ![dialling] = "up"]
        /\ UNCHANGED <<runVars, clientVars, sent, serverVars>>
    BY <1>1 DEF Connect
  <2>5. unread' \in [Conns -> Seq(Kinds)]
    BY <2>2, <2>3 DEF WireType
  <2> QED
    BY <2>2, <2>4, <2>5 DEF WireType, runVars, clientVars, serverVars
<1>2. CASE Refused
  BY <1>2, DialFailsType DEF Refused
<1>7. CASE StartupBroken
  <2>1. dialling \in Conns
    BY <1>7 DEF StartupBroken, WireType, Conns
  <2> QED
    BY <1>7, <2>1, DialFailsType DEF StartupBroken, StartupFails
<1>8. CASE Undial
  <2>1. CASE CloseOne
    <3>1. closing <= Clients
      BY <1>8, <2>1, WireAssumption DEF Undial, CloseOne, WireType
    <3> QED
      BY <2>1, <3>1, CloseOneType
  <2>2. CASE ~CloseOne
    BY <1>8, <2>2 DEF Undial, WireType, clientVars, wireVars, serverVars
  <2> QED
    BY <2>1, <2>2
<1>9. CASE Deferred
  <2>1. CASE CloseOne
    <3>1. closing <= Clients
      BY <1>9, <2>1, WireAssumption DEF Deferred, CloseOne, WireType
    <3> QED
      BY <2>1, <3>1, CloseOneType
  <2>2. CASE ~CloseOne
    BY <1>9, <2>2 DEF Deferred, WireType, clientVars, wireVars, serverVars
  <2> QED
    BY <2>1, <2>2
<1>3. CASE StartupReads
  <2>1. dialling \in Conns /\ dialling + 1 \in 1..(Clients + 1)
    BY <1>3, WireAssumption DEF StartupReads, WireType, Conns
  <2>2. unread[dialling] \in Seq(Kinds) /\ unread[dialling] # <<>>
    BY <1>3, <2>1 DEF StartupReads, WireType
  <2>3. Tail(unread[dialling]) \in Seq(Kinds)
    BY <2>2
  <2>4. CASE StartupFails
    BY <2>1, <2>4, DialFailsType DEF StartupFails
  <2>5. CASE ~StartupFails
    <3>1. /\ unread' = [unread EXCEPT ![dialling] = Tail(unread[dialling])]
          /\ dialling' \in {dialling, dialling + 1} /\ main' = main /\ closing' = closing
          /\ UNCHANGED <<clientVars, link, sent, serverVars>>
      BY <1>3, <2>5 DEF StartupReads, runVars
    <3>2. unread' \in [Conns -> Seq(Kinds)] /\ dialling' \in 1..(Clients + 1)
      BY <2>1, <2>3, <3>1 DEF WireType
    <3> QED
      BY <3>1, <3>2 DEF WireType, clientVars, serverVars
  <2> QED
    BY <2>4, <2>5
<1>4. CASE StartLoops
  BY <1>4 DEF StartLoops, WireType, wireVars, serverVars
<1>5. CASE Deadline
  BY <1>5 DEF Deadline, WireType, clientVars, wireVars, serverVars
<1>6. CASE Return
  BY <1>6 DEF Return, WireType, clientVars, wireVars, serverVars
<1> QED
  BY <1>1, <1>2, <1>3, <1>4, <1>5, <1>6, <1>7, <1>8, <1>9 DEF Main

-----------------------------------------------------------------------------
\* Where Run is.

\* A step of a client needs a loop that has started and has not returned.
LEMMA ClientRuns ==
  ASSUME WireType, MainInv, NEW c \in Conns, Client(c)
  PROVE  /\ main = "run" /\ link[c] \in {"up", "down"} /\ pc[c] \notin {"off", "done"}
         /\ pc'[c] # "off" /\ UNCHANGED <<main, dialling, closing, link>>
<1>1. pc[c] \in {"loop", "write", "read"}
  BY DEF Client, Turn, Write, WriteFails, ReadSkips, ReadError, ReadReady, ReadOther, ReadBroken
<1>2. main = "run" /\ link[c] \in {"up", "down"}
  BY <1>1 DEF MainInv, WireType
<1>3. ASSUME NEW err \in BOOLEAN, Returns(c, err)
      PROVE  pc'[c] # "off" /\ UNCHANGED <<main, dialling, closing>>
  BY <1>3, ReturnsType DEF runVars
<1>4. pc'[c] # "off" /\ UNCHANGED <<main, dialling, closing, link>>
  <2> USE DEF runVars, wireVars, clientVars
  <2>1. CASE Turn(c)
    BY <1>1, <2>1 DEF Turn, WireType
  <2>2. CASE Write(c)
    BY <1>1, <2>2 DEF Write, WireType
  <2>3. CASE WriteFails(c)
    BY <1>3, <2>3 DEF WriteFails
  <2>4. CASE ReadSkips(c)
    BY <1>1, <2>4 DEF ReadSkips, Consume
  <2>5. CASE ReadError(c)
    BY <1>1, <2>5 DEF ReadError, Consume
  <2>6. CASE ReadReady(c)
    <3>1. queryErr[c] \in BOOLEAN
      BY DEF WireType
    <3> QED
      BY <1>3, <2>6, <3>1 DEF ReadReady, Consume
  <2>7. CASE ReadOther(c)
    BY <1>3, <2>7 DEF ReadOther, Consume
  <2>8. CASE ReadBroken(c)
    BY <1>3, <2>8 DEF ReadBroken
  <2> QED
    BY <2>1, <2>2, <2>3, <2>4, <2>5, <2>6, <2>7, <2>8 DEF Client
<1> QED
  BY <1>1, <1>2, <1>4

\* A server that is asked, too: before the loops nothing is sent.
LEMMA ServerRuns ==
  ASSUME IInv, NEW c \in Conns, Server(c)
  PROVE  /\ main \in {"run", "defer"} /\ link[c] = "up" /\ sent[c] # <<>>
         /\ UNCHANGED <<main, dialling, closing, link, clientVars>>
<1>1. link[c] = "up" /\ sent[c] # <<>>
  BY DEF Server, Executes, Fails, Asked
<1>2. main \in {"run", "defer"}
  BY <1>1 DEF IInv, MainInv, ConnInv, OffInv, WireType
<1> QED
  BY <1>1, <1>2 DEF Server, Executes, Fails, Answers, runVars

\* Every step of a client or a server, and a break, keeps MainInv.
LEMMA ConnStepMain ==
  ASSUME IInv, NEW c \in Conns, Client(c) \/ Server(c) \/ Breaks(c)
  PROVE  MainInv'
<1>0. WireType /\ MainInv
  BY DEF IInv
<1>1. CASE Client(c)
  <2>1. main = "run" /\ pc'[c] # "off" /\ UNCHANGED <<main, dialling, closing, link>>
    BY <1>0, <1>1, ClientRuns
  <2>2. \A d \in Conns : d # c => pc'[d] = pc[d]
    BY <1>0, <1>1, OthersUntouched DEF Untouched
  <2> QED
    BY <1>0, <2>1, <2>2 DEF MainInv
<1>2. CASE Server(c)
  BY <1>0, <1>2, ServerRuns DEF MainInv, Held, clientVars
<1>3. CASE Breaks(c)
  <2>1. PICK n \in 0..Len(unread[c]) : unread' = [unread EXCEPT ![c] = SubSeq(@, 1, n)]
    BY <1>3 DEF Breaks
  <2>2. unread[c] = <<>> => unread'[c] = <<>>
    BY <1>0, <2>1, Cut DEF WireType
  <2>3. /\ link[c] = "up" /\ link' = [link EXCEPT ![c] = "down"]
        /\ UNCHANGED <<main, dialling, closing, pc>>
    BY <1>3 DEF Breaks, runVars, clientVars
  <2>4. main = "dial" => ReadyLast(unread'[c])
    <3>1. unread[c] \in Seq(Kinds) /\ unread'[c] = SubSeq(unread[c], 1, n)
      BY <1>0, <2>1 DEF WireType
    <3> QED
      BY <1>0, <2>1, <3>1, ReadyStaysLast DEF MainInv
  <2> QED
    <3>1. /\ \A d \in Conns : d # c => link'[d] = link[d] /\ unread'[d] = unread[d]
          /\ link'[c] = "down" /\ \A d \in Conns : Held(d) => Held(d)'
      BY <1>0, <2>1, <2>3 DEF WireType, Held
    <3>2. CASE main = "dial"
      BY <1>0, <2>2, <2>3, <2>4, <3>1, <3>2 DEF MainInv
    <3>3. CASE main # "dial"
      BY <1>0, <2>3, <3>1, <3>3 DEF MainInv
    <3> QED
      BY <3>2, <3>3
<1> QED
  BY <1>1, <1>2, <1>3

-----------------------------------------------------------------------------
\* The connection a step is about.

\* What Query's return does to the counters: a failed statement is counted
\* and rolled back, END is timed, and no other return counts.
LEMMA ReturnsCounts ==
  ASSUME WireType, NEW c \in Conns, NEW err \in BOOLEAN, Returns(c, err)
  PROVE  /\ rounds' = rounds /\ UNCHANGED serverVars
         /\ stmt[c] = Rollback =>
              /\ pc'[c] = IF err THEN "done" ELSE "loop"
              /\ stmt'[c] = stmt[c] /\ txns'[c] = txns[c] /\ failed'[c] = failed[c]
         /\ stmt[c] # Rollback /\ err =>
              /\ pc'[c] = "write" /\ stmt'[c] = Rollback
              /\ txns'[c] = txns[c] /\ failed'[c] = failed[c] + 1
         /\ stmt[c] # Rollback /\ ~err /\ stmt[c] = Last =>
              /\ pc'[c] = "loop" /\ stmt'[c] = stmt[c]
              /\ txns'[c] = txns[c] + 1 /\ failed'[c] = failed[c]
         /\ stmt[c] # Rollback /\ ~err /\ stmt[c] # Last =>
              /\ pc'[c] = "write" /\ stmt'[c] = stmt[c] + 1
              /\ txns'[c] = txns[c] /\ failed'[c] = failed[c]
<1>1. rounds' = rounds /\ UNCHANGED serverVars
  BY DEF Returns
<1>2. CASE stmt[c] = Rollback
  <2>1. RollbackReturned(c, err)
    BY <1>2 DEF Returns
  <2> QED
    BY <1>1, <1>2, <2>1 DEF RollbackReturned, WireType
<1>3. CASE stmt[c] # Rollback /\ err
  <2>1. StmtFailed(c)
    BY <1>3 DEF Returns
  <2> QED
    BY <1>1, <1>3, <2>1 DEF StmtFailed, WireType
<1>4. CASE stmt[c] # Rollback /\ ~err
  <2>1. StmtDone(c)
    BY <1>4 DEF Returns
  <2>2. CASE stmt[c] = Last
    BY <1>1, <1>4, <2>1, <2>2 DEF StmtDone, WireType
  <2>3. CASE stmt[c] # Last
    BY <1>1, <1>4, <2>1, <2>3 DEF StmtDone, WireType
  <2> QED
    BY <2>2, <2>3
<1> QED
  BY <1>2, <1>3, <1>4

\* A round is counted once, whatever Query returned.
LEMMA ReturnsRound ==
  ASSUME WireType, NEW c \in Conns, NEW err \in BOOLEAN, Returns(c, err),
         pc[c] \in {"write", "read"}, RoundInv(c)
  PROVE  RoundInv(c)'
<1>1. /\ rounds[c] \in Nat /\ txns[c] \in Nat /\ failed[c] \in Nat /\ stmt[c] \in 0..Last
  BY DEF WireType
<1>2. CASE stmt[c] = Rollback
  <2>1. pc'[c] \in {"loop", "done"}
    BY <1>2, ReturnsCounts
  <2> QED
    BY <1>1, <1>2, <2>1, ReturnsCounts DEF RoundInv
<1>3. CASE stmt[c] # Rollback /\ err
  <2>1. /\ pc'[c] = "write" /\ stmt'[c] = Rollback /\ rounds' = rounds
        /\ txns'[c] = txns[c] /\ failed'[c] = failed[c] + 1
    BY <1>3, ReturnsCounts
  <2>2. rounds[c] = txns[c] + failed[c] + 1
    BY <1>3 DEF RoundInv
  <2>3. rounds'[c] = txns'[c] + failed'[c]
    BY <1>1, <2>1, <2>2
  <2> QED
    BY <1>1, <2>1, <2>3 DEF RoundInv
<1>4. CASE stmt[c] # Rollback /\ ~err /\ stmt[c] = Last
  <2>1. /\ pc'[c] = "loop" /\ rounds' = rounds
        /\ txns'[c] = txns[c] + 1 /\ failed'[c] = failed[c]
    BY <1>4, ReturnsCounts
  <2> QED
    BY <1>1, <1>4, <2>1 DEF RoundInv
<1>5. CASE stmt[c] # Rollback /\ ~err /\ stmt[c] # Last
  <2>1. stmt'[c] # Rollback
    BY <1>1, <1>5, ReturnsCounts DEF Rollback
  <2> QED
    BY <1>1, <1>5, <2>1, ReturnsCounts DEF RoundInv
<1> QED
  BY <1>2, <1>3, <1>4, <1>5

\* The turn of a loop.
LEMMA TurnConn ==
  ASSUME IInv, NEW c \in Conns, Turn(c)
  PROVE  ConnInv(c)'
<1>1. /\ pc[c] = "loop" /\ link'[c] = link[c] /\ sent'[c] = sent[c] /\ unread'[c] = unread[c]
      /\ txns'[c] = txns[c] /\ failed'[c] = failed[c] /\ UNCHANGED serverVars
  BY DEF Turn, wireVars
<1>2. /\ rounds[c] \in Nat /\ txns[c] \in Nat /\ failed[c] \in Nat /\ ConnInv(c)
  BY DEF IInv, WireType
<1>3. CASE late
  <2>1. pc'[c] = "done" /\ stmt' = stmt /\ rounds' = rounds
    BY <1>3 DEF Turn, IInv, WireType
  <2> QED
    BY <1>1, <1>2, <2>1 DEF ConnInv, OffInv, RoundInv, UpInv, DownInv, Even, AtMostOneUntimed,
                            serverVars
<1>4. CASE ~late
  <2>1. pc'[c] = "write" /\ stmt'[c] = Begin /\ rounds'[c] = rounds[c] + 1
    BY <1>4 DEF Turn, IInv, WireType
  <2> QED
    BY <1>1, <1>2, <2>1 DEF ConnInv, OffInv, RoundInv, UpInv, DownInv, Even, AtMostOneUntimed,
                            Pre, Begin, Rollback, serverVars
<1> QED
  BY <1>3, <1>4

\* A query is written.
LEMMA WriteConn ==
  ASSUME IInv, NEW c \in Conns, Write(c)
  PROVE  ConnInv(c)'
<1>1. /\ pc[c] = "write" /\ pc'[c] = "read" /\ queryErr'[c] = FALSE
      /\ stmt'[c] = stmt[c] /\ txns'[c] = txns[c] /\ failed'[c] = failed[c]
      /\ rounds'[c] = rounds[c] /\ link'[c] = link[c] /\ unread'[c] = unread[c]
      /\ sent'[c] = (IF link[c] = "up" THEN Append(sent[c], stmt[c]) ELSE sent[c])
      /\ UNCHANGED serverVars
  BY DEF Write, IInv, WireType
<1>2. ConnInv(c)
  BY DEF IInv
<1>3. OffInv(c)' /\ RoundInv(c)'
  BY <1>1, <1>2 DEF ConnInv, OffInv, RoundInv
<1>4. CASE c \in stray
  BY <1>1, <1>3, <1>4 DEF ConnInv, serverVars
<1>5. CASE c \notin stray /\ link[c] = "up"
  <2>1. sent[c] = <<>> /\ unread[c] = <<>> /\ Pre(c) /\ Even(c)
    BY <1>1, <1>2, <1>5 DEF ConnInv, UpInv
  <2>2. Append(<<>>, stmt[c]) = <<stmt[c]>>
    BY Answer
  <2>3. sent'[c] = <<stmt'[c]>>
    BY <1>1, <1>5, <2>1, <2>2
  <2>4. Waiting(c)'
    BY <1>1, <2>1, <2>3 DEF Waiting, Pre, Even, serverVars
  <2> QED
    BY <1>1, <1>3, <1>5, <2>4 DEF ConnInv, UpInv
<1>6. CASE c \notin stray /\ link[c] # "up"
  BY <1>1, <1>2, <1>3, <1>6 DEF ConnInv, DownInv, AtMostOneUntimed, serverVars
<1> QED
  BY <1>4, <1>5, <1>6

\* Query gives up on a connection that broke.
LEMMA BrokenConn ==
  ASSUME IInv, NEW c \in Conns, WriteFails(c) \/ ReadBroken(c)
  PROVE  ConnInv(c)'
<1>1. /\ pc[c] \in {"write", "read"} /\ link[c] = "down" /\ Returns(c, TRUE)
      /\ UNCHANGED wireVars
  BY DEF WriteFails, ReadBroken
<1>2. WireType /\ ConnInv(c) /\ TRUE \in BOOLEAN
  BY DEF IInv
<1>3. RoundInv(c)'
  BY <1>1, <1>2, ReturnsRound DEF ConnInv
<1>4. /\ pc'[c] \in {"write", "done"} /\ txns'[c] = txns[c] /\ UNCHANGED serverVars
  BY <1>1, <1>2, ReturnsCounts
<1>5. unread[c] = <<>> \/ c \in stray
  BY <1>1, <1>2 DEF WriteFails, ReadBroken, ConnInv, DownInv
<1> QED
  BY <1>1, <1>2, <1>3, <1>4, <1>5
     DEF ConnInv, OffInv, DownInv, AtMostOneUntimed, wireVars, serverVars

\* What Query can be reading, when no stray message has been sent.
LEMMA Reading ==
  ASSUME IInv, NEW c \in Conns, pc[c] = "read", unread[c] # <<>>, c \notin stray,
         link[c] \in {"up", "down"}
  PROVE  /\ sent[c] = <<>>
         /\ \/ unread[c] = <<"C", "Z">> /\ Succeeded(c)
            \/ unread[c] = <<"Z">> /\ Succeeded(c)
            \/ unread[c] = <<"E", "Z">> /\ Erred(c)
            \/ unread[c] = <<"Z">> /\ queryErr[c] /\ Erred(c)
            \/ link[c] = "down" /\ (unread[c] = <<"C">> \/ unread[c] = <<"E">>)
         /\ link[c] = "down" => AtMostOneUntimed(c)
         /\ link[c] = "up" =>
              (Succeeded(c) /\ Post(c)) \/ (Erred(c) /\ stmt[c] # Rollback)
<1>1. CASE link[c] = "up"
  <2>1. UpInv(c)
    BY <1>1 DEF IInv, ConnInv
  <2>2. sent[c] = <<>> /\ ((Succeeded(c) /\ Post(c)) \/ (Erred(c) /\ stmt[c] # Rollback))
    BY <2>1 DEF UpInv, Waiting
  <2> QED
    BY <1>1, <2>2 DEF Succeeded, Erred
<1>2. CASE link[c] = "down"
  <2>1. DownInv(c)
    BY <1>2 DEF IInv, ConnInv
  <2> QED
    BY <1>2, <2>1 DEF DownInv, Succeeded, Erred
<1> QED
  BY <1>1, <1>2

\* Query skips a message.
LEMMA SkipConn ==
  ASSUME IInv, NEW c \in Conns, ReadSkips(c)
  PROVE  ConnInv(c)'
<1>1. /\ pc[c] = "read" /\ unread[c] # <<>> /\ Head(unread[c]) = "C"
      /\ unread'[c] = Tail(unread[c])
      /\ UNCHANGED <<clientVars, serverVars, link, sent>>
  BY DEF ReadSkips, Consume, IInv, WireType
<1>2. WireType /\ ConnInv(c)
  BY DEF IInv
<1>3. OffInv(c)' /\ RoundInv(c)'
  BY <1>1, <1>2 DEF ConnInv, OffInv, RoundInv, clientVars, serverVars
<1>4. ASSUME c \notin stray, link[c] \in {"up", "down"}
      PROVE  /\ sent[c] = <<>>
             /\ \/ unread'[c] = <<"Z">> /\ Succeeded(c)
                \/ unread'[c] = <<>> /\ link[c] = "down"
             /\ link[c] = "down" => AtMostOneUntimed(c)
             /\ link[c] = "up" => Succeeded(c) /\ Post(c)
  <2>1. Head(<<"C", "Z">>) = "C" /\ Tail(<<"C", "Z">>) = <<"Z">> /\ Tail(<<"C">>) = <<>>
    BY Answer
  <2>2. Head(<<"E", "Z">>) = "E" /\ Head(<<"Z">>) = "Z" /\ Head(<<"E">>) = "E"
    BY Answer
  <2>3. unread[c] = <<"C", "Z">> \/ unread[c] = <<"C">>
    BY <1>1, <1>4, <2>1, <2>2, Reading
  <2>4. ~Erred(c)
    BY <1>1, <2>1, <2>2 DEF Erred
  <2>5. CASE unread[c] = <<"C", "Z">>
    <3>1. <<"C", "Z">> # <<"C">>
      BY Answer
    <3>2. Succeeded(c)
      BY <1>1, <1>4, <2>2, <2>4, <2>5, <3>1, Reading
    <3> QED
      BY <1>1, <1>4, <2>1, <2>4, <2>5, <3>2, Reading
  <2>6. CASE unread[c] = <<"C">>
    <3>1. <<"C", "Z">> # <<"C">> /\ <<"C">> # <<"Z">>
      BY <1>1, <2>2, <2>6, Answer
    <3>2. ~Succeeded(c) /\ ~Erred(c)
      BY <1>1, <2>2, <2>6, <3>1 DEF Succeeded, Erred
    <3> QED
      BY <1>1, <1>4, <2>1, <2>6, <3>2, Reading
  <2> QED
    BY <2>3, <2>5, <2>6
<1>5. ASSUME unread'[c] = <<"Z">>, Succeeded(c)
      PROVE  Succeeded(c)'
  BY <1>1, <1>5 DEF Succeeded, Ahead, clientVars, serverVars
<1>6. (c \notin stray /\ link[c] = "up") => UpInv(c)'
  BY <1>1, <1>4, <1>5 DEF UpInv, Post, clientVars, serverVars
<1>7. (c \notin stray /\ link[c] = "down") => DownInv(c)'
  BY <1>1, <1>4, <1>5 DEF DownInv, AtMostOneUntimed, clientVars, serverVars
<1>8. main = "run"
  BY <1>1 DEF IInv, MainInv, WireType
<1>9. link[c] # "closed"
  BY <1>8 DEF IInv, MainInv
<1> QED
  BY <1>1, <1>3, <1>6, <1>7, <1>9 DEF ConnInv, serverVars

\* Query reads an error and goes on.
LEMMA ErrorConn ==
  ASSUME IInv, NEW c \in Conns, ReadError(c)
  PROVE  ConnInv(c)'
<1>1. /\ pc[c] = "read" /\ unread[c] # <<>> /\ Head(unread[c]) = "E"
      /\ unread'[c] = Tail(unread[c]) /\ queryErr'[c] = TRUE
      /\ UNCHANGED <<pc, stmt, txns, failed, rounds, serverVars, link, sent>>
  BY DEF ReadError, Consume, IInv, WireType
<1>2. WireType /\ ConnInv(c)
  BY DEF IInv
<1>3. OffInv(c)' /\ RoundInv(c)'
  BY <1>1, <1>2 DEF ConnInv, OffInv, RoundInv, serverVars
<1>4. ASSUME c \notin stray, link[c] \in {"up", "down"}
      PROVE  /\ sent[c] = <<>>
             /\ \/ unread'[c] = <<"Z">> /\ Erred(c)
                \/ unread'[c] = <<>> /\ link[c] = "down"
             /\ link[c] = "down" => AtMostOneUntimed(c)
             /\ link[c] = "up" => Erred(c) /\ stmt[c] # Rollback
  <2>1. Head(<<"E", "Z">>) = "E" /\ Tail(<<"E", "Z">>) = <<"Z">> /\ Tail(<<"E">>) = <<>>
    BY Answer
  <2>2. Head(<<"C", "Z">>) = "C" /\ Head(<<"Z">>) = "Z" /\ Head(<<"C">>) = "C"
    BY Answer
  <2>3. unread[c] = <<"E", "Z">> \/ unread[c] = <<"E">>
    BY <1>1, <1>4, <2>1, <2>2, Reading
  <2>4. ~Succeeded(c)
    BY <1>1, <2>1, <2>2 DEF Succeeded
  <2>5. CASE unread[c] = <<"E", "Z">>
    <3>1. <<"E", "Z">> # <<"E">>
      BY Answer
    <3>2. Erred(c)
      BY <1>1, <1>4, <2>2, <2>4, <2>5, <3>1, Reading
    <3> QED
      BY <1>1, <1>4, <2>1, <2>4, <2>5, <3>2, Reading
  <2>6. CASE unread[c] = <<"E">>
    <3>1. <<"E", "Z">> # <<"E">> /\ <<"E">> # <<"Z">>
      BY <1>1, <2>2, <2>6, Answer
    <3>2. ~Succeeded(c) /\ ~Erred(c)
      BY <1>1, <2>2, <2>6, <3>1 DEF Succeeded, Erred
    <3> QED
      BY <1>1, <1>4, <2>1, <2>6, <3>2, Reading
  <2> QED
    BY <2>3, <2>5, <2>6
<1>5. ASSUME unread'[c] = <<"Z">>, Erred(c)
      PROVE  Erred(c)'
  BY <1>1, <1>5 DEF Erred, Even, serverVars
<1>6. (c \notin stray /\ link[c] = "up") => UpInv(c)'
  BY <1>1, <1>4, <1>5 DEF UpInv
<1>7. (c \notin stray /\ link[c] = "down") => DownInv(c)'
  BY <1>1, <1>4, <1>5 DEF DownInv, AtMostOneUntimed, serverVars
<1>8. main = "run"
  BY <1>1 DEF IInv, MainInv, WireType
<1>9. link[c] # "closed"
  BY <1>8 DEF IInv, MainInv
<1> QED
  BY <1>1, <1>3, <1>6, <1>7, <1>9 DEF ConnInv, serverVars

\* Query reads a message of an unknown kind: the connection is a stray one.
LEMMA OtherConn ==
  ASSUME IInv, NEW c \in Conns, ReadOther(c)
  PROVE  ConnInv(c)'
<1>1. /\ pc[c] = "read" /\ unread[c] # <<>> /\ Head(unread[c]) = "other"
      /\ Returns(c, TRUE) /\ UNCHANGED <<link, sent>>
  BY DEF ReadOther, Consume
<1>2. WireType /\ ConnInv(c) /\ MainInv /\ TRUE \in BOOLEAN
  BY DEF IInv
<1>3. link[c] \in {"up", "down"}
  BY <1>1, <1>2 DEF MainInv, WireType
<1>4. c \in stray
  <2>1. /\ Head(<<"C", "Z">>) = "C" /\ Head(<<"E", "Z">>) = "E" /\ Head(<<"Z">>) = "Z"
        /\ Head(<<"C">>) = "C" /\ Head(<<"E">>) = "E"
    BY Answer
  <2> QED
    BY <1>1, <1>3, <2>1, Reading
<1>5. RoundInv(c)'
  BY <1>1, <1>2, ReturnsRound DEF ConnInv
<1>6. pc'[c] # "off" /\ UNCHANGED serverVars
  BY <1>1, <1>2, ReturnsType
<1> QED
  BY <1>4, <1>5, <1>6 DEF ConnInv, OffInv, serverVars

\* Query reads ReadyForQuery and returns.
LEMMA ReadyConn ==
  ASSUME IInv, NEW c \in Conns, ReadReady(c)
  PROVE  ConnInv(c)'
<1>1. /\ pc[c] = "read" /\ unread[c] # <<>> /\ Head(unread[c]) = "Z"
      /\ unread'[c] = Tail(unread[c]) /\ queryErr' = queryErr
      /\ Returns(c, queryErr[c]) /\ UNCHANGED <<link, sent>>
  BY DEF ReadReady, Consume, IInv, WireType
<1>2. /\ WireType /\ ConnInv(c) /\ MainInv /\ queryErr[c] \in BOOLEAN /\ stmt[c] \in 0..Last
      /\ txns[c] \in Nat /\ commits[c] \in Nat
  BY DEF IInv, WireType
<1>3. link[c] \in {"up", "down"}
  BY <1>1, <1>2 DEF MainInv, WireType
<1>4. RoundInv(c)'
  BY <1>1, <1>2, ReturnsRound DEF ConnInv
<1>5. pc'[c] \in {"loop", "write", "done"} /\ UNCHANGED serverVars
  BY <1>1, <1>2, ReturnsType
<1>6. CASE c \in stray
  BY <1>4, <1>5, <1>6 DEF ConnInv, OffInv, serverVars
<1>7. CASE c \notin stray
  <2>1. /\ Head(<<"C", "Z">>) = "C" /\ Head(<<"E", "Z">>) = "E" /\ Head(<<"C">>) = "C"
        /\ Head(<<"E">>) = "E" /\ Tail(<<"Z">>) = <<>>
    BY Answer
  <2>2. unread[c] = <<"Z">> /\ (Succeeded(c) \/ (queryErr[c] /\ Erred(c)))
    BY <1>1, <1>3, <1>7, <2>1, Reading
  <2>3. unread'[c] = <<>> /\ sent'[c] = <<>>
    BY <1>1, <1>3, <1>7, <2>1, <2>2, Reading
  <2>4. /\ link[c] = "down" => AtMostOneUntimed(c)
        /\ link[c] = "up" => (Succeeded(c) /\ Post(c)) \/ (Erred(c) /\ stmt[c] # Rollback)
    BY <1>1, <1>3, <1>7, Reading
  <2>5. CASE queryErr[c]
    <3>1. ~Succeeded(c) /\ Even(c)
      BY <2>2, <2>5 DEF Succeeded, Erred
    <3>2. txns'[c] = txns[c] /\ commits' = commits
      BY <1>1, <1>2, <1>5, <2>5, ReturnsCounts DEF serverVars
    <3>3. CASE link[c] = "up"
      <4>1. stmt[c] # Rollback
        BY <2>4, <3>1, <3>3
      <4>2. pc'[c] = "write" /\ stmt'[c] = Rollback
        BY <1>1, <1>2, <2>5, <4>1, ReturnsCounts
      <4>3. UpInv(c)'
        BY <2>3, <3>1, <3>2, <4>2 DEF UpInv, Even, Pre, Rollback, Begin
      <4> QED
        BY <1>1, <1>4, <3>3, <4>2, <4>3 DEF ConnInv, OffInv
    <3>4. CASE link[c] = "down"
      BY <1>1, <1>4, <1>5, <2>3, <2>4, <3>2, <3>4
         DEF ConnInv, OffInv, DownInv, AtMostOneUntimed
    <3> QED
      BY <1>3, <3>3, <3>4
  <2>6. CASE ~queryErr[c]
    <3>1. Succeeded(c) /\ Ahead(c) /\ ~(queryErr[c] /\ Erred(c))
      BY <2>2, <2>6 DEF Succeeded
    <3>2. ~Erred(c)
      <4>1. <<"E", "Z">> # <<"Z">>
        BY Answer
      <4> QED
        BY <2>2, <2>6, <4>1 DEF Erred
    <3>3. commits' = commits /\ txn' = txn /\ stray' = stray
      BY <1>5 DEF serverVars
    <3>4. CASE stmt[c] = Last \/ stmt[c] = Rollback
      <4>1. Last # Rollback
        BY WireAssumption DEF Rollback
      <4>2. pc'[c] = "loop" /\ commits'[c] = txns'[c]
        <5>1. CASE stmt[c] = Last
          BY <1>1, <1>2, <2>6, <3>1, <3>3, <4>1, <5>1, ReturnsCounts DEF Ahead
        <5>2. CASE stmt[c] = Rollback
          BY <1>1, <1>2, <2>6, <3>1, <3>3, <4>1, <5>2, ReturnsCounts DEF Ahead
        <5> QED
          BY <3>4, <5>1, <5>2
      <4>3. link[c] = "up" => txn'[c] = "idle"
        BY <2>4, <3>2, <3>3, <3>4 DEF Post
      <4>4. commits'[c] \in Nat
        BY <1>2, <3>3
      <4>5. link[c] = "up" => UpInv(c)'
        BY <2>3, <4>2, <4>3 DEF UpInv, Even
      <4>6. DownInv(c)'
        BY <2>3, <4>2, <4>4 DEF DownInv, AtMostOneUntimed
      <4> QED
        BY <1>1, <1>3, <1>4, <4>2, <4>5, <4>6 DEF ConnInv, OffInv
    <3>5. CASE stmt[c] # Last /\ stmt[c] # Rollback
      <4>1. pc'[c] = "write" /\ stmt'[c] = stmt[c] + 1 /\ txns'[c] = txns[c]
        BY <1>1, <1>2, <2>6, <3>5, ReturnsCounts
      <4>2. stmt'[c] \notin {Begin, Rollback}
        BY <1>2, <3>5, <4>1 DEF Begin, Rollback
      <4>3. commits'[c] = txns'[c]
        BY <1>2, <3>1, <3>3, <3>5, <4>1 DEF Ahead
      <4>4. link[c] = "up" => txn'[c] = "open"
        BY <2>4, <3>2, <3>3, <3>5 DEF Post
      <4>5. commits'[c] \in Nat
        BY <1>2, <3>3
      <4>6. link[c] = "up" => UpInv(c)'
        BY <2>3, <4>1, <4>2, <4>3, <4>4 DEF UpInv, Even, Pre
      <4>7. DownInv(c)'
        BY <2>3, <4>1, <4>3, <4>5 DEF DownInv, AtMostOneUntimed
      <4> QED
        BY <1>1, <1>3, <1>4, <4>1, <4>6, <4>7 DEF ConnInv, OffInv
    <3> QED
      BY <3>4, <3>5
  <2> QED
    BY <2>5, <2>6
<1> QED
  BY <1>6, <1>7

\* Every step of a client keeps what holds of its connection.
LEMMA ClientConn ==
  ASSUME IInv, NEW c \in Conns, Client(c)
  PROVE  ConnInv(c)'
BY TurnConn, WriteConn, BrokenConn, SkipConn, ErrorConn, ReadyConn, OtherConn DEF Client

\* A server answers: the statement asked is the one Query is in.
LEMMA ServerConn ==
  ASSUME IInv, NEW c \in Conns, Server(c)
  PROVE  ConnInv(c)'
<1>1. /\ main \in {"run", "defer"} /\ link[c] = "up" /\ sent[c] # <<>>
      /\ UNCHANGED <<main, dialling, closing, link, clientVars>>
  BY ServerRuns
<1>2. WireType /\ ConnInv(c) /\ pc[c] # "off"
  BY <1>1 DEF IInv, MainInv
<1>3. OffInv(c)' /\ RoundInv(c)'
  BY <1>1, <1>2 DEF ConnInv, OffInv, RoundInv, clientVars
<1>4. CASE c \in stray'
  BY <1>3, <1>4 DEF ConnInv
<1>5. CASE c \notin stray'
  <2>1. c \notin stray
    BY <1>5 DEF Server, Executes, Fails
  <2>2. pc[c] = "read" /\ Waiting(c)
    BY <1>1, <1>2, <2>1 DEF ConnInv, UpInv
  <2>3. Head(sent[c]) = stmt[c] /\ Tail(sent[c]) = <<>> /\ unread[c] = <<>>
    BY <2>2, Answer DEF Waiting
  <2>4. stmt[c] \in 0..Last /\ commits[c] \in Nat /\ txns[c] \in Nat /\ Last # Begin /\ Last # Rollback
    BY <1>2, WireAssumption DEF WireType, Begin, Rollback
  <2>5. ASSUME NEW a, NEW b, Answers(c, <<a, b>>)
        PROVE  unread'[c] = <<a, b>> /\ sent'[c] = <<>>
    <3>1. <<>> \o <<a, b>> = <<a, b>>
      BY Appended
    <3> QED
      BY <1>2, <2>3, <2>5, <3>1 DEF Answers, WireType
  <2>6. CASE Executes(c)
    <3>1. Answers(c, <<"C", "Z">>)
      BY <1>5, <2>6 DEF Executes
    <3>2. /\ txn'[c] = NextTxn(c)
          /\ commits'[c] = IF stmt[c] = Last /\ txn[c] = "open" THEN commits[c] + 1 ELSE commits[c]
      BY <1>2, <2>3, <2>6 DEF Executes, WireType
    <3>3. Post(c)'
      BY <1>1, <2>2, <2>3, <2>4, <3>2 DEF NextTxn, Post, Waiting, Pre, clientVars, Begin, Rollback
    <3>4. Ahead(c)'
      BY <1>1, <2>2, <2>3, <2>4, <3>2 DEF Ahead, Waiting, Pre, Even, clientVars, Begin, Rollback
    <3>5. Succeeded(c)' /\ sent'[c] = <<>>
      BY <1>1, <2>2, <2>5, <3>1, <3>4 DEF Succeeded, Waiting, clientVars
    <3>6. UpInv(c)'
      BY <1>1, <2>2, <3>3, <3>5 DEF UpInv, clientVars
    <3> QED
      BY <1>1, <1>3, <3>6 DEF ConnInv
  <2>7. CASE Fails(c)
    <3>1. Answers(c, <<"E", "Z">>) /\ commits' = commits
      BY <2>7 DEF Fails
    <3>2. stmt[c] # Rollback
      BY <2>3, <2>7 DEF Fails, Refuses
    <3>3. Erred(c)' /\ sent'[c] = <<>>
      BY <1>1, <2>2, <2>5, <3>1 DEF Erred, Even, Waiting, clientVars
    <3>4. UpInv(c)'
      BY <1>1, <2>2, <3>2, <3>3 DEF UpInv, clientVars
    <3> QED
      BY <1>1, <1>3, <3>4 DEF ConnInv
  <2> QED
    BY <2>6, <2>7 DEF Server
<1> QED
  BY <1>4, <1>5

\* A connection breaks, with part of an answer still to be read.
LEMMA BreaksConn ==
  ASSUME IInv, NEW c \in Conns, Breaks(c)
  PROVE  ConnInv(c)'
<1>1. PICK n \in 0..Len(unread[c]) : unread' = [unread EXCEPT ![c] = SubSeq(@, 1, n)]
  BY DEF Breaks
<1>2. /\ link[c] = "up" /\ link'[c] = "down" /\ sent'[c] = <<>> /\ txn'[c] = "idle"
      /\ unread'[c] = SubSeq(unread[c], 1, n)
      /\ UNCHANGED <<clientVars, commits, stray>>
  BY <1>1 DEF Breaks, IInv, WireType
<1>3. /\ ConnInv(c) /\ txns[c] \in Nat /\ commits[c] \in Nat /\ stmt[c] \in 0..Last
  BY DEF IInv, WireType
<1>4. OffInv(c)' /\ RoundInv(c)'
  BY <1>2, <1>3 DEF ConnInv, OffInv, RoundInv, clientVars
<1>5. ASSUME pc[c] # "off", c \notin stray
      PROVE  DownInv(c)'
  <2>1. UpInv(c)
    BY <1>2, <1>3, <1>5 DEF ConnInv
  <2>2. AtMostOneUntimed(c)
    BY <1>3, <2>1 DEF UpInv, Waiting, Succeeded, Erred, Even, Ahead, AtMostOneUntimed
  <2>3. unread[c] = <<>> => unread'[c] = <<>>
    BY <1>1, <1>2, Cut
  <2>4. unread[c] = <<"Z">> => unread'[c] = <<>> \/ unread'[c] = <<"Z">>
    BY <1>1, <1>2, Cut
  <2>5. unread[c] = <<"C", "Z">> =>
          unread'[c] = <<>> \/ unread'[c] = <<"C">> \/ unread'[c] = <<"C", "Z">>
    <3>1. \A i \in 0..Len(<<"C", "Z">>) :
            \/ SubSeq(<<"C", "Z">>, 1, i) = <<>> \/ SubSeq(<<"C", "Z">>, 1, i) = <<"C">>
            \/ SubSeq(<<"C", "Z">>, 1, i) = <<"C", "Z">>
      BY Cut, Zenon
    <3> QED
      BY <1>1, <1>2, <3>1, Zenon
  <2>6. unread[c] = <<"E", "Z">> =>
          unread'[c] = <<>> \/ unread'[c] = <<"E">> \/ unread'[c] = <<"E", "Z">>
    <3>1. \A i \in 0..Len(<<"E", "Z">>) :
            \/ SubSeq(<<"E", "Z">>, 1, i) = <<>> \/ SubSeq(<<"E", "Z">>, 1, i) = <<"E">>
            \/ SubSeq(<<"E", "Z">>, 1, i) = <<"E", "Z">>
      BY Cut, Zenon
    <3> QED
      BY <1>1, <1>2, <3>1, Zenon
  <2>7. unread'[c] = unread[c] /\ Succeeded(c) => Succeeded(c)'
    BY <1>2 DEF Succeeded, Ahead, clientVars
  <2>8. unread'[c] = unread[c] /\ Erred(c) => Erred(c)'
    BY <1>2 DEF Erred, Even, clientVars
  <2>9. sent'[c] = <<>> /\ AtMostOneUntimed(c)'
    BY <1>2, <2>2 DEF AtMostOneUntimed, clientVars
  <2>10. CASE pc[c] # "read"
    BY <1>2, <2>1, <2>3, <2>9, <2>10 DEF UpInv, DownInv, clientVars
  <2>11. CASE pc[c] = "read"
    <3>1. CASE Waiting(c)
      BY <1>2, <2>3, <2>9, <2>11, <3>1 DEF Waiting, DownInv, clientVars
    <3>2. CASE Succeeded(c)
      BY <1>2, <2>4, <2>5, <2>7, <2>9, <2>11, <3>2 DEF Succeeded, DownInv, clientVars
    <3>3. CASE Erred(c)
      BY <1>2, <2>4, <2>6, <2>8, <2>9, <2>11, <3>3 DEF Erred, DownInv, clientVars
    <3> QED
      BY <2>1, <2>11, <3>1, <3>2, <3>3 DEF UpInv
  <2> QED
    BY <2>10, <2>11
<1> QED
  BY <1>2, <1>4, <1>5 DEF ConnInv, clientVars

-----------------------------------------------------------------------------
\* The steps of Run.

\* A client that cannot be dialled: no loop has started, and its own connection
\* was never there or is closed.
LEMMA DialFailsInv ==
  ASSUME IInv, main = "dial", dialling \in Conns, DialFails,
         (link[dialling] = "none" /\ link' = link) \/ StartupFails
  PROVE  MainInv' /\ \A d \in Conns : ConnInv(d)'
<1>1. \A d \in Conns : pc[d] = "off" /\ link[d] # "closed" /\ ConnInv(d)
  BY DEF IInv, MainInv
<1>2. /\ main' = "undial" /\ UNCHANGED <<dialling, closing, clientVars, sent, serverVars>>
      /\ \A d \in Conns : d # dialling => link'[d] = link[d]
      /\ link'[dialling] \in {"none", "closed"}
  BY DEF DialFails, StartupFails, IInv, WireType
<1>3. MainInv'
  <2>1. closing = 1 /\ \A d \in Conns :
          /\ d < dialling => link[d] \in {"up", "down"}
          /\ d > dialling => link[d] = "none"
    BY DEF IInv, MainInv
  <2>2. ASSUME NEW d \in Conns
        PROVE  /\ pc'[d] = "off" /\ (d < dialling => Held(d)')
               /\ d >= dialling => link'[d] \in {"none", "closed"}
    <3>1. d \in Int /\ dialling \in Int /\ d >= 1 /\ pc'[d] = "off"
      BY <1>1, <1>2, WireAssumption DEF Conns, clientVars
    <3>2. CASE d = dialling
      BY <1>2, <3>1, <3>2
    <3>3. CASE d # dialling
      BY <1>2, <2>1, <3>1, <3>3 DEF Held
    <3> QED
      BY <3>2, <3>3
  <2> QED
    BY <1>2, <2>2 DEF MainInv
<1>4. \A d \in Conns : ConnInv(d)'
  BY <1>1, <1>2 DEF ConnInv, OffInv, RoundInv, clientVars, serverVars
<1> QED
  BY <1>3, <1>4

\* A close of either loop moves its index past a connection that is now closed.
LEMMA CloseOneInv ==
  ASSUME IInv, CloseOne, closing \in Conns,
         \/ main = "undial" /\ closing < dialling
         \/ main = "defer"
  PROVE  MainInv' /\ \A d \in Conns : ConnInv(d)'
<1>1. /\ main' = main /\ dialling' = dialling /\ closing' = closing + 1
      /\ link'[closing] = "closed" /\ UNCHANGED <<clientVars, sent, unread, serverVars>>
      /\ \A d \in Conns : d # closing => link'[d] = link[d]
  BY DEF CloseOne, IInv, WireType
<1>2. closing \in Int /\ \A d \in Conns : d \in Int
  BY DEF Conns
<1>3. ASSUME NEW d \in Conns, Held(d)
      PROVE  Held(d)'
  BY <1>1, <1>2, <1>3 DEF Held
<1>4. MainInv'
  <2>1. CASE main = "undial"
    <3>1. dialling \in Int /\ closing < dialling
      BY <2>1 DEF IInv, WireType
    <3>2. ASSUME NEW d \in Conns
          PROVE  /\ pc'[d] = "off" /\ (d < dialling => Held(d)')
                 /\ d >= dialling => link'[d] \in {"none", "closed"}
      <4>1. /\ pc[d] = "off" /\ (d < dialling => Held(d))
            /\ d >= dialling => link[d] \in {"none", "closed"}
        BY <2>1 DEF IInv, MainInv
      <4> QED
        BY <1>1, <1>2, <1>3, <3>1, <4>1 DEF clientVars
    <3> QED
      BY <1>1, <2>1, <3>2 DEF MainInv
  <2>2. CASE main = "defer"
    BY <1>1, <1>3, <2>2 DEF IInv, MainInv, clientVars
  <2> QED
    BY <2>1, <2>2
<1>5. ASSUME NEW d \in Conns
      PROVE  ConnInv(d)'
  <2>1. ConnInv(d) /\ txns[d] \in Nat
    BY DEF IInv, WireType
  <2>2. pc[d] \in {"off", "done"}
    BY DEF IInv, MainInv
  <2>3. CASE d # closing
    BY <1>1, <2>1, <2>3, UntouchedKeeps DEF Untouched, clientVars, serverVars
  <2>4. CASE d = closing
    <3>1. link[d] \in {"up", "down"}
      BY <1>2, <2>4 DEF IInv, MainInv, Held
    <3>2. (pc[d] # "off" /\ d \notin stray) => AtMostOneUntimed(d)
      BY <2>1, <2>2, <3>1 DEF ConnInv, UpInv, DownInv, Even, AtMostOneUntimed
    <3> QED
      BY <1>1, <2>1, <2>4, <3>2 DEF ConnInv, OffInv, RoundInv, AtMostOneUntimed, clientVars,
                                    serverVars
  <2> QED
    BY <2>3, <2>4
<1> QED
  BY <1>4, <1>5

\* Every step of Run keeps the invariant.
LEMMA MainStep ==
  ASSUME IInv, Main
  PROVE  MainInv' /\ \A d \in Conns : ConnInv(d)'
<1>0. WireType /\ MainInv /\ \A d \in Conns : ConnInv(d)
  BY DEF IInv
<1>1. CASE Connect
  <2>1. /\ main = "dial" /\ dialling \in Conns
        /\ UNCHANGED <<runVars, clientVars, sent, serverVars>>
    BY <1>0, <1>1 DEF Connect, WireType, Conns
  <2>2. /\ link' = [link EXCEPT ![dialling] = "up"]
        /\ \A d \in Conns : d # dialling => unread'[d] = unread[d]
        /\ ReadyLast(unread'[dialling])
    <3>1. ReadyLast(<<"R0", "C", "Z">>) /\ ReadyLast(<<"R3">>) /\ ReadyLast(<<"E">>)
      BY DEF ReadyLast
    <3>2. ReadyLast(<<"R0", "other">>)
      BY DEF ReadyLast
    <3>3. \A g \in Greetings : ReadyLast(g)
      BY <3>1, <3>2 DEF Greetings
    <3> QED
      BY <1>0, <1>1, <2>1, <3>3 DEF Connect, WireType
  <2>3. \A d \in Conns : pc[d] = "off"
    BY <1>0, <2>1 DEF MainInv
  <2>4. MainInv'
    BY <1>0, <2>1, <2>2, <2>3 DEF MainInv, runVars, clientVars, Conns, WireType
  <2>5. \A d \in Conns : ConnInv(d)'
    BY <1>0, <2>1, <2>3 DEF ConnInv, OffInv, RoundInv, clientVars, serverVars
  <2> QED
    BY <2>4, <2>5
<1>2. CASE Refused \/ StartupBroken
  <2>1. main = "dial" /\ dialling \in Conns
    BY <1>0, <1>2 DEF Refused, StartupBroken, WireType, Conns
  <2> QED
    BY <1>2, <2>1, DialFailsInv DEF Refused, StartupBroken, StartupFails
<1>7. CASE Undial
  <2>1. main = "undial"
    BY <1>7 DEF Undial
  <2>2. CASE closing < dialling
    <3>1. CloseOne
      BY <1>0, <1>7, <2>2 DEF Undial, WireType
    <3>2. closing \in Conns
      BY <1>0, <2>2, WireAssumption DEF WireType, Conns
    <3> QED
      BY <2>1, <2>2, <3>1, <3>2, CloseOneInv
  <2>3. CASE ~(closing < dialling)
    <3>1. /\ main' = "returned"
          /\ UNCHANGED <<dialling, closing, clientVars, wireVars, serverVars>>
      BY <1>7, <2>3 DEF Undial
    <3>2. ASSUME NEW d \in Conns
          PROVE  pc[d] = "off" /\ link[d] \in {"none", "closed"}
      <4>1. d \in Int /\ dialling \in Int /\ closing \in Int
        BY <1>0 DEF Conns, WireType
      <4>2. /\ pc[d] = "off" /\ (d < dialling => Held(d))
            /\ d >= dialling => link[d] \in {"none", "closed"}
        BY <1>0, <2>1 DEF MainInv
      <4> QED
        BY <2>3, <4>1, <4>2 DEF Held
    <3>3. MainInv'
      BY <3>1, <3>2 DEF MainInv, clientVars, wireVars
    <3>4. \A d \in Conns : Untouched(d)
      BY <3>1 DEF Untouched, clientVars, wireVars, serverVars
    <3> QED
      BY <1>0, <3>3, <3>4, UntouchedKeeps
  <2> QED
    BY <2>2, <2>3
<1>8. CASE Deferred
  <2>1. main = "defer"
    BY <1>8 DEF Deferred
  <2>2. CASE closing <= Clients
    <3>1. CloseOne
      BY <1>0, <1>8, <2>2, WireAssumption DEF Deferred, WireType
    <3>2. closing \in Conns
      BY <1>0, <2>2, WireAssumption DEF WireType, Conns
    <3> QED
      BY <2>1, <2>2, <3>1, <3>2, CloseOneInv
  <2>3. CASE ~(closing <= Clients)
    <3>1. /\ main' = "returned"
          /\ UNCHANGED <<dialling, closing, clientVars, wireVars, serverVars>>
      BY <1>8, <2>3 DEF Deferred
    <3>2. ASSUME NEW d \in Conns
          PROVE  pc[d] = "done" /\ link[d] = "closed"
      <4>1. d \in Int /\ d <= Clients /\ closing \in Int /\ Clients \in Int
        BY <1>0, WireAssumption DEF Conns, WireType
      <4>2. pc[d] = "done" /\ Held(d)
        BY <1>0, <2>1 DEF MainInv
      <4> QED
        BY <2>3, <4>1, <4>2 DEF Held
    <3>3. MainInv'
      BY <3>1, <3>2 DEF MainInv, clientVars, wireVars
    <3>4. \A d \in Conns : Untouched(d)
      BY <3>1 DEF Untouched, clientVars, wireVars, serverVars
    <3> QED
      BY <1>0, <3>3, <3>4, UntouchedKeeps
  <2> QED
    BY <2>2, <2>3
<1>3. CASE StartupReads
  <2>1. main = "dial" /\ dialling \in Conns /\ unread[dialling] # <<>>
    BY <1>0, <1>3 DEF StartupReads, WireType, Conns
  <2>2. CASE StartupFails
    BY <2>1, <2>2, DialFailsInv DEF StartupFails
  <2>3. CASE ~StartupFails
    <3>1. /\ unread' = [unread EXCEPT ![dialling] = Tail(unread[dialling])]
          /\ dialling' \in {dialling, dialling + 1} /\ main' = main /\ closing' = closing
          /\ UNCHANGED <<clientVars, link, sent, serverVars>>
      BY <1>3, <2>3 DEF StartupReads, runVars
    <3>2. dialling' # dialling => dialling' = dialling + 1 /\ unread'[dialling] = <<>>
      <4>1. ASSUME dialling' # dialling
            PROVE  Head(unread[dialling]) = "Z" /\ dialling' = dialling + 1
        BY <1>3, <2>3, <4>1 DEF StartupReads, runVars
      <4>2. unread[dialling] \in Seq(Kinds) /\ ReadyLast(unread[dialling])
        BY <1>0, <2>1 DEF WireType, MainInv
      <4>3. Head(unread[dialling]) = "Z" => Tail(unread[dialling]) = <<>>
        BY <2>1, <4>2, ReadyStaysLast
      <4> QED
        BY <1>0, <2>1, <3>1, <4>1, <4>3 DEF WireType
    <3>3. ReadyLast(unread'[dialling])
      <4>1. unread[dialling] \in Seq(Kinds) /\ ReadyLast(unread[dialling])
        BY <1>0, <2>1 DEF WireType, MainInv
      <4>2. ReadyLast(Tail(unread[dialling]))
        BY <2>1, <4>1, ReadyStaysLast
      <4> QED
        BY <1>0, <2>1, <3>1, <4>2 DEF WireType
    <3>4. ASSUME NEW d \in Conns
          PROVE  /\ pc'[d] = "off" /\ link'[d] # "closed" /\ ReadyLast(unread'[d])
                 /\ d < dialling' => link'[d] \in {"up", "down"} /\ unread'[d] = <<>>
                 /\ d > dialling' => link'[d] = "none"
      <4>1. pc'[d] = "off" /\ link'[d] # "closed"
        BY <1>0, <2>1, <3>1 DEF MainInv, clientVars
      <4>2. CASE d = dialling
        <5>1. link[d] \in {"up", "down"}
          BY <1>3, <4>2 DEF StartupReads
        <5> QED
          BY <2>1, <3>1, <3>2, <3>3, <4>1, <4>2, <5>1 DEF Conns
      <4>3. CASE d # dialling
        <5>1. unread'[d] = unread[d] /\ link'[d] = link[d]
          BY <1>0, <3>1, <4>3 DEF WireType
        <5>2. (d < dialling' => d < dialling) /\ (d > dialling' => d > dialling)
          BY <1>0, <2>1, <3>1, <4>3 DEF Conns, WireType
        <5> QED
          BY <1>0, <2>1, <4>1, <5>1, <5>2 DEF MainInv
      <4> QED
        BY <4>2, <4>3
    <3>5. MainInv'
      BY <1>0, <2>1, <3>1, <3>4 DEF MainInv
    <3>6. \A d \in Conns : ConnInv(d)'
      BY <1>0, <2>1, <3>1 DEF ConnInv, OffInv, RoundInv, MainInv, clientVars, serverVars
    <3> QED
      BY <3>5, <3>6
  <2> QED
    BY <2>2, <2>3
<1>4. CASE StartLoops
  <2>1. /\ main = "dial" /\ main' = "run" /\ dialling > Clients
        /\ pc' = [c \in Conns |-> "loop"]
        /\ UNCHANGED <<closing, stmt, txns, failed, rounds, wireVars, serverVars>>
    BY <1>4 DEF StartLoops
  <2>2. \A d \in Conns : pc[d] = "off" /\ link[d] \in {"up", "down"} /\ unread[d] = <<>>
    <3>1. \A d \in Conns : d < dialling
      BY <1>0, <2>1, WireAssumption DEF Conns, WireType
    <3> QED
      BY <1>0, <2>1, <3>1 DEF MainInv
  <2>3. MainInv'
    BY <1>0, <2>1, <2>2 DEF MainInv, wireVars
  <2>4. ASSUME NEW d \in Conns
        PROVE  ConnInv(d)'
    <3>1. OffInv(d) /\ pc[d] = "off" /\ link[d] \in {"up", "down"} /\ unread[d] = <<>>
      BY <1>0, <2>2 DEF ConnInv
    <3> QED
      BY <2>1, <3>1 DEF ConnInv, OffInv, RoundInv, UpInv, DownInv, Even, AtMostOneUntimed,
                        wireVars, serverVars
  <2> QED
    BY <2>3, <2>4
<1>5. CASE Deadline
  <2>1. UNCHANGED <<main, dialling, closing, clientVars, wireVars, serverVars>>
    BY <1>5 DEF Deadline
  <2>2. MainInv'
    BY <1>0, <2>1 DEF MainInv, Held, clientVars, wireVars
  <2>3. \A d \in Conns : Untouched(d)
    BY <2>1 DEF Untouched, clientVars, wireVars, serverVars
  <2> QED
    BY <1>0, <2>2, <2>3, UntouchedKeeps
<1>6. CASE Return
  <2>1. /\ main = "run" /\ main' = "defer" /\ \A d \in Conns : pc[d] = "done"
        /\ UNCHANGED <<dialling, closing, clientVars, wireVars, serverVars>>
    BY <1>6 DEF Return
  <2>2. closing = 1 /\ \A d \in Conns : d >= 1 /\ d \in Int /\ link[d] \in {"up", "down"}
    BY <1>0, <2>1 DEF MainInv, Conns
  <2>3. MainInv'
    BY <2>1, <2>2 DEF MainInv, Held, clientVars, wireVars
  <2>4. \A d \in Conns : Untouched(d)
    BY <2>1 DEF Untouched, clientVars, wireVars, serverVars
  <2> QED
    BY <1>0, <2>3, <2>4, UntouchedKeeps
<1> QED
  BY <1>1, <1>2, <1>3, <1>4, <1>5, <1>6, <1>7, <1>8 DEF Main

-----------------------------------------------------------------------------
\* Every step keeps the invariant.
LEMMA NextInv ==
  ASSUME IInv, [Next]_vars
  PROVE  IInv'
<1>0. WireType /\ MainInv /\ \A d \in Conns : ConnInv(d)
  BY DEF IInv
<1>1. CASE Main
  BY <1>0, <1>1, MainType, MainStep DEF IInv
<1>2. ASSUME NEW c \in Conns, Client(c) \/ Server(c) \/ Breaks(c)
      PROVE  IInv'
  <2>1. WireType'
    BY <1>0, <1>2, ClientType, ServerType
  <2>2. MainInv'
    BY <1>2, ConnStepMain
  <2>3. ConnInv(c)'
    BY <1>2, ClientConn, ServerConn, BreaksConn
  <2>4. ASSUME NEW d \in Conns, d # c
        PROVE  ConnInv(d)'
    BY <1>0, <1>2, <2>4, OthersUntouched, UntouchedKeeps
  <2> QED
    BY <2>1, <2>2, <2>3, <2>4 DEF IInv
<1>3. CASE UNCHANGED vars
  <2>1. WireType' /\ MainInv'
    BY <1>0, <1>3 DEF WireType, MainInv, Held, vars, runVars, clientVars, wireVars, serverVars
  <2>2. \A d \in Conns : Untouched(d)
    BY <1>3 DEF Untouched, vars, clientVars, wireVars, serverVars
  <2> QED
    BY <1>0, <2>1, <2>2, UntouchedKeeps DEF IInv
<1> QED
  BY <1>1, <1>2, <1>3 DEF Next

\* The invariant holds in every behaviour.
THEOREM Invariant == Spec => []IInv
<1>1. Init => IInv
  BY InitInv
<1>2. IInv /\ [Next]_vars => IInv'
  BY NextInv
<1> QED
  BY <1>1, <1>2, PTL DEF Spec

\* Query reads the answer to its own statement, on every connection the server
\* has sent only known kinds on, for any number of clients and statements.
THEOREM AnswersCorrect == Spec => []AnswersAreOwn
<1>1. IInv => AnswersAreOwn
  BY DEF IInv, MainInv, ConnInv, UpInv, AnswersAreOwn
<1> QED
  BY <1>1, Invariant, PTL

\* No transaction of the driver starts inside one that a failure left open.
THEOREM CleanStartCorrect == Spec => []RoundsStartClean
<1>1. IInv => RoundsStartClean
  BY DEF IInv, MainInv, ConnInv, UpInv, RoundsStartClean
<1> QED
  BY <1>1, Invariant, PTL

\* The transactions timed are the ones committed, up to one per broken
\* connection, and every transaction started is counted once.
THEOREM TimingCorrect == Spec => []TimedIsCommitted
<1>1. IInv => TimedIsCommitted
  <2> SUFFICES ASSUME IInv, NEW c \in Conns, pc[c] \in {"loop", "done"}
               PROVE  /\ txns[c] + failed[c] = rounds[c]
                      /\ c \notin stray =>
                           /\ txns[c] <= commits[c]
                           /\ commits[c] <= txns[c] + (IF link[c] = "up" THEN 0 ELSE 1)
    BY DEF TimedIsCommitted
  <2>1. txns[c] \in Nat /\ failed[c] \in Nat /\ commits[c] \in Nat
    BY DEF IInv, WireType
  <2>2. ConnInv(c) /\ pc[c] # "off" /\ link[c] \in {"up", "down", "closed"}
    BY DEF IInv, MainInv, Held, WireType
  <2>3. txns[c] + failed[c] = rounds[c]
    BY <2>1, <2>2 DEF ConnInv, RoundInv
  <2>4. CASE link[c] = "up"
    BY <2>1, <2>2, <2>3, <2>4 DEF ConnInv, UpInv, Even
  <2>5. CASE link[c] # "up"
    BY <2>1, <2>2, <2>3, <2>5 DEF ConnInv, DownInv, AtMostOneUntimed
  <2> QED
    BY <2>4, <2>5
<1> QED
  BY <1>1, Invariant, PTL

\* Run leaves no connection open, however it returns: what DialPassword, the loop
\* over conns[:i] and the defer each close is all there is, for any number of
\* clients and whichever of them cannot be dialled.
THEOREM CloseCorrect == Spec => []NoConnLeft
<1>1. IInv => NoConnLeft
  BY DEF IInv, MainInv, NoConnLeft
<1> QED
  BY <1>1, Invariant, PTL

-----------------------------------------------------------------------------
\* The types of what the inductive invariant does not speak of: what Run
\* returned, and how much of each bound is used.

RestType ==
  /\ late \in BOOLEAN
  /\ result \in [err : BOOLEAN, txns : Nat, failed : Nat]
  /\ errors \in 0..MaxErrors /\ breaks \in 0..MaxBreaks /\ strays \in 0..MaxStrays

\* What the clients counted adds up to a number, so Run returns one.
LEMMA CountsAddUp ==
  ASSUME NEW f \in [Conns -> Nat]
  PROVE  SumFunction(f) \in Nat
<1>1. IsFiniteSet(Conns)
  BY WireAssumption, FS_Interval DEF Conns
<1>2. SumFunctionOnSet(f, Conns) \in Nat
  BY <1>1, SumNat
<1> QED
  BY <1>2 DEF SumFunction, SumFunctionOnSet, FoldFunction

\* Dialling, the loops' start, the deadline and the return.
LEMMA MainRest ==
  ASSUME WireType, RestType, Main
  PROVE  RestType'
<1>1. CASE Return
  <2>1. SumFunction(txns) \in Nat /\ SumFunction(failed) \in Nat
    BY CountsAddUp DEF WireType
  <2>2. result' = [err |-> FALSE, txns |-> SumFunction(txns), failed |-> SumFunction(failed)]
    BY <1>1 DEF Return
  <2>3. result' \in [err : BOOLEAN, txns : Nat, failed : Nat]
    BY <2>1, <2>2
  <2> QED
    BY <1>1, <2>3 DEF RestType, Return, serverVars
<1>2. CASE Undial
  <2>1. CASE CloseOne
    BY <2>1 DEF RestType, CloseOne, serverVars
  <2>2. CASE ~CloseOne
    <3>1. /\ result' = [err |-> TRUE, txns |-> 0, failed |-> 0]
          /\ UNCHANGED <<late, serverVars>>
      BY <1>2, <2>2, Zenon DEF Undial
    <3>2. result' \in [err : BOOLEAN, txns : Nat, failed : Nat]
      BY <3>1
    <3> QED
      BY <3>1, <3>2 DEF RestType, serverVars
  <2> QED
    BY <2>1, <2>2
<1>3. CASE Deadline
  BY <1>3 DEF RestType, Deadline, serverVars
<1>4. CASE ~(Return \/ Undial \/ Deadline)
  <2>1. UNCHANGED <<late, result, serverVars>>
    BY <1>4, Zenon DEF Main, Connect, Refused, StartupReads, StartupBroken, StartupFails,
                       DialFails, StartLoops, Deferred, CloseOne, runVars
  <2> QED
    BY <2>1 DEF RestType, serverVars
<1> QED
  BY <1>1, <1>2, <1>3, <1>4

\* A client leaves all of it alone.
LEMMA ClientRest ==
  ASSUME RestType, NEW c \in Conns, Client(c)
  PROVE  RestType'
<1>1. UNCHANGED <<runVars, serverVars>>
  BY Zenon DEF Client, Turn, Write, WriteFails, ReadSkips, ReadError, ReadReady, ReadOther,
     ReadBroken, Returns
<1> QED
  BY <1>1 DEF RestType, runVars, serverVars

\* A server and a connection that breaks stay within their bounds.
LEMMA ServerRest ==
  ASSUME RestType, NEW c \in Conns, Server(c) \/ Breaks(c)
  PROVE  RestType'
<1>1. UNCHANGED <<late, result>>
  BY Zenon DEF Server, Executes, Fails, Breaks, Answers, runVars
<1>2. CASE Executes(c)
  BY <1>1, <1>2, WireAssumption DEF RestType, Executes, Answers
<1>3. CASE Fails(c)
  BY <1>1, <1>3, WireAssumption DEF RestType, Fails, Answers
<1>4. CASE Breaks(c)
  BY <1>1, <1>4, WireAssumption DEF RestType, Breaks
<1> QED
  BY <1>2, <1>3, <1>4 DEF Server

\* Every variable keeps its type: no statement past END is ever asked for, and
\* what Run returns are numbers.
THEOREM TypeCorrect == Spec => []TypeOK
<1>1. Init => RestType
  <2> SUFFICES ASSUME Init PROVE RestType
    OBVIOUS
  <2>1. late \in BOOLEAN
    BY Zenon DEF Init
  <2>2. result = NoResult /\ NoResult \in [err : BOOLEAN, txns : Nat, failed : Nat]
    BY DEF Init, NoResult
  <2>3. errors = 0 /\ breaks = 0 /\ strays = 0
    BY DEF Init
  <2> QED
    BY <2>1, <2>2, <2>3, WireAssumption DEF RestType
<1>2. IInv /\ RestType /\ [Next]_vars => RestType'
  <2> SUFFICES ASSUME IInv, RestType, [Next]_vars PROVE RestType'
    OBVIOUS
  <2>1. WireType
    BY DEF IInv
  <2>2. CASE UNCHANGED vars
    BY <2>2 DEF RestType, vars, runVars, serverVars
  <2> QED
    BY <2>1, <2>2, MainRest, ClientRest, ServerRest DEF Next
<1>3. IInv /\ RestType => TypeOK
  BY DEF IInv, WireType, RestType, TypeOK
<1> QED
  BY <1>1, <1>2, <1>3, Invariant, PTL DEF Spec
=============================================================================

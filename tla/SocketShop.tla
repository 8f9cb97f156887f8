------------------------------ MODULE SocketShop ------------------------------
(***************************************************************************)
(* Assignment 2 (socket/clientserver/assignment2): the shop over TCP.      *)
(* Server accepts connections and has a thread pool run a ServerThread for *)
(* each; a ServerThread and its Client talk over two object streams; the   *)
(* ServerThread that finds itself the last active one closes the server.   *)
(*                                                                         *)
(* The connection backlog, ThreadPoolExecutor and the streams are modelled *)
(* from their documented behaviour: a task goes to a new worker as long as *)
(* there are less than COREPOOL, else into the queue; getActiveCount()     *)
(* counts the workers running a task; shutdown() lets the queue run out.   *)
(*                                                                         *)
(* A client may die.  The other end of its connection then reads what it   *)
(* had sent and the end of the stream, or has an exception at once; what   *)
(* is written to it may be accepted a while longer.  The same goes for the *)
(* clients when the server exits.                                          *)
(***************************************************************************)
EXTENDS Integers, Sequences, FiniteSets, SequencesExt

CONSTANTS
  Client,
  CONNECTED,    \* connections the server waits for: 3 (l. 61 of Server)
  COREPOOL,
  QUOTA,        \* purchases after which a client leaves: 10
  Amounts,      \* prices and offers: MIN to MAX - 1
  MaxDeaths     \* bound: clients that die

ASSUME ConnectedAssumption == CONNECTED \in Nat \ {0}
ASSUME PoolAssumption == COREPOOL \in Nat \ {0}
ASSUME QuotaAssumption == QUOTA \in Nat \ {0}
ASSUME AmountsAssumption == Amounts \subseteq Nat \ {0}

VARIABLES
  main,         \* Server.run: "gather", "accept", "ended" after shutdown();
                \* "exited" after System.exit(0)
  listening,    \* the ServerSocket is open
  backlog,      \* connections made and not accepted
  clientSockets,
  waiting,      \* the queue of the pool
  workers,      \* the workers of the pool
  tpc,          \* where the ServerThread of a client is
  price, got,   \* its local variables price and offer
  cpc,          \* where a client is in its loop
  purchases,
  toClient, toServer   \* the streams of a connection

serverVars == <<main, listening, backlog, clientSockets>>
poolVars == <<waiting, workers>>
threadVars == <<tpc, price, got>>
clientVars == <<cpc, purchases>>
streams == <<toClient, toServer>>
vars == <<serverVars, poolVars, threadVars, clientVars, streams>>

Bye == -1
NoOffer == 0
Price(p) == [type |-> "PRICE", value |-> p]
Ack(sold) == [type |-> "ACK", value |-> IF sold THEN 1 ELSE 0]

ToClient == {Price(p) : p \in Amounts} \cup {Ack(b) : b \in BOOLEAN}
ToServer == Amounts \cup {NoOffer, Bye}

Active == {c \in Client : tpc[c] \in {"header", "price", "read", "judge", "close"}}
Spawned == {c \in Client : tpc[c] = "spawned"}
Idle == workers - Cardinality(Active) - Cardinality(Spawned)

\* Beyond types: the pool has a worker for every thread it runs and no more
\* than its core size, and queues only when it has reached it.
TypeOK ==
  /\ main \in {"gather", "accept", "ended", "exited"}
  /\ listening \in BOOLEAN
  /\ backlog \in Seq(Client) /\ clientSockets \in Seq(Client) /\ waiting \in Seq(Client)
  /\ workers \in 0..COREPOOL /\ Idle >= 0
  /\ waiting # <<>> => workers = COREPOOL
  /\ tpc \in [Client -> {"none", "queued", "spawned", "header", "price", "read", "judge",
                         "close", "done"}]
  /\ price \in [Client -> Amounts \cup {0}]
  /\ got \in [Client -> ToServer]
  /\ cpc \in [Client -> {"new", "loop", "ack", "done", "failed", "mute", "dead"}]
  /\ purchases \in [Client -> 0..QUOTA]
  /\ toClient \in [Client -> Seq(ToClient)]
  /\ toServer \in [Client -> Seq(ToServer)]

Init ==
  /\ main = "gather"
  /\ listening = TRUE
  /\ backlog = <<>>
  /\ clientSockets = <<>>
  /\ waiting = <<>>
  /\ workers = 0
  /\ tpc = [c \in Client |-> "none"]
  /\ price = [c \in Client |-> 0]
  /\ got = [c \in Client |-> NoOffer]
  /\ cpc = [c \in Client |-> "new"]
  /\ purchases = [c \in Client |-> 0]
  /\ toClient = [c \in Client |-> <<>>]
  /\ toServer = [c \in Client |-> <<>>]

Set(f, c, v) == [f EXCEPT ![c] = v]
Send(q, c, m) == [q EXCEPT ![c] = Append(@, m)]
Drop(q, c) == [q EXCEPT ![c] = Tail(@)]

\* The clients that died: mute before they sent the header of their stream.
Dead == {c \in Client : cpc[c] \in {"mute", "dead"}}

\* What is written to a dead client is lost.
Deliver(c, m) == IF c \in Dead THEN toClient ELSE Send(toClient, c, m)

-----------------------------------------------------------------------------
(* Server.run and the pool *)

\* pool.execute for the clients of a sequence, in its order.
execute(cs) ==
  LET room == COREPOOL - workers
      new == {cs[i] : i \in {j \in 1..Len(cs) : j <= room}}
      late == {cs[i] : i \in {j \in 1..Len(cs) : j > room}}
  IN /\ workers' = workers + Cardinality(new)
     /\ waiting' = IF Len(cs) <= room THEN waiting
                   ELSE waiting \o SubSeq(cs, room + 1, Len(cs))
     /\ tpc' = [c \in Client |-> IF c \in new THEN "spawned"
                                 ELSE IF c \in late THEN "queued" ELSE tpc[c]]

\* accept() while the clients gather, until there are enough to start them all.
AcceptFirst ==
  /\ main = "gather"
  /\ backlog # <<>>
  /\ backlog' = Tail(backlog)
  /\ LET cs == Append(clientSockets, Head(backlog))
     IN /\ clientSockets' = cs
        /\ IF Len(cs) < CONNECTED
             THEN main' = main /\ UNCHANGED <<poolVars, tpc>>
             ELSE main' = "accept" /\ execute(cs)
  /\ UNCHANGED <<listening, price, got, clientVars, streams>>

AcceptNext ==
  /\ main = "accept"
  /\ listening
  /\ backlog # <<>>
  /\ backlog' = Tail(backlog)
  /\ execute(<<Head(backlog)>>)
  /\ UNCHANGED <<main, listening, clientSockets, price, got, clientVars, streams>>

\* mutant: shutdownNow(), which drops the queue
AcceptFailsNow ==
  /\ main = "accept"
  /\ ~listening
  /\ main' = "ended"
  /\ waiting' = <<>>
  /\ UNCHANGED <<listening, backlog, clientSockets, workers, threadVars, clientVars, streams>>

\* accept() throws when the socket was closed; then pool.shutdown().
AcceptFails ==
  /\ main = "accept"
  /\ ~listening
  /\ main' = "ended"
  /\ UNCHANGED <<listening, backlog, clientSockets, poolVars, threadVars, clientVars, streams>>

\* mutant: a stream without a header ends the server as well
StartAnyway(c) == "price"

\* A ServerThread begins by reading the header of its client's stream.  It gets it
\* from any client but one that died without having sent one.
Start(c) == IF cpc[c] = "mute" THEN "header" ELSE "price"

\* A new worker locks itself and runs its first task ...
RunFirst(c) ==
  /\ tpc[c] = "spawned"
  /\ tpc' = Set(tpc, c, Start(c))
  /\ UNCHANGED <<serverVars, poolVars, price, got, clientVars, streams>>

\* ... and an idle one takes the next from the queue.
TakeTask ==
  /\ waiting # <<>>
  /\ Idle > 0
  /\ waiting' = Tail(waiting)
  /\ tpc' = Set(tpc, Head(waiting), Start(Head(waiting)))
  /\ UNCHANGED <<serverVars, workers, price, got, clientVars, streams>>

-----------------------------------------------------------------------------
(* ServerThread.run *)

\* A thread that waits for a header is active like any other, until the
\* connection fails.  Then it returns: it neither closes the socket nor looks
\* whether it is the last.
HeaderFails(c) ==
  /\ tpc[c] = "header"
  /\ cpc[c] = "mute"
  /\ tpc' = Set(tpc, c, "done")
  /\ UNCHANGED <<serverVars, poolVars, price, got, clientVars, streams>>

SendPrice(c, p) ==
  /\ tpc[c] = "price"
  /\ price' = Set(price, c, p)
  /\ toClient' = Deliver(c, Price(p))
  /\ tpc' = Set(tpc, c, "read")
  /\ UNCHANGED <<serverVars, poolVars, got, clientVars, toServer>>

\* Reads the client's answer, and sleeps for 3 seconds.
ReadOffer(c) ==
  /\ tpc[c] = "read"
  /\ toServer[c] # <<>>
  /\ got' = Set(got, c, Head(toServer[c]))
  /\ toServer' = Drop(toServer, c)
  /\ tpc' = Set(tpc, c, "judge")
  /\ UNCHANGED <<serverVars, poolVars, price, clientVars, toClient>>

\* The local variables are dead once the round is over.
Answer(c) ==
  /\ tpc[c] = "judge"
  /\ got[c] # Bye
  /\ toClient' = Deliver(c, Ack(got[c] > price[c]))
  /\ price' = Set(price, c, 0)
  /\ got' = Set(got, c, NoOffer)
  /\ tpc' = Set(tpc, c, "price")
  /\ UNCHANGED <<serverVars, poolVars, clientVars, toServer>>

\* The client said goodbye: the last active thread closes the server socket.
CheckLast(c) ==
  /\ tpc[c] = "judge"
  /\ got[c] = Bye
  /\ listening' = IF Cardinality(Active) = 1 THEN FALSE ELSE listening
  /\ price' = Set(price, c, 0)
  /\ got' = Set(got, c, NoOffer)
  /\ tpc' = Set(tpc, c, "close")
  /\ UNCHANGED <<main, backlog, clientSockets, poolVars, clientVars, streams>>

\* socket.close() and return: the worker is idle again.
Return(c) ==
  /\ tpc[c] = "close"
  /\ tpc' = Set(tpc, c, "done")
  /\ UNCHANGED <<serverVars, poolVars, price, got, clientVars, streams>>

\* mutant: the thread only gives up its own connection
GiveUp(c) ==
  /\ c \in Dead
  /\ tpc[c] \in {"price", "read", "judge"}
  /\ tpc' = Set(tpc, c, "close")
  /\ UNCHANGED <<serverVars, poolVars, price, got, clientVars, streams>>

\* Reading from a dead client or writing to it fails, and any exception ends
\* the process: its sockets close, and its threads are no more.
ConnectionBreaks(c) ==
  /\ c \in Dead
  /\ tpc[c] \in {"price", "read", "judge"}
  /\ main' = "exited"
  /\ listening' = FALSE
  /\ backlog' = <<>> /\ clientSockets' = <<>>
  /\ waiting' = <<>> /\ workers' = 0
  /\ tpc' = [d \in Client |-> IF tpc[d] = "none" THEN "none" ELSE "done"]
  /\ price' = [d \in Client |-> 0]
  /\ got' = [d \in Client |-> NoOffer]
  /\ UNCHANGED <<clientVars, streams>>

-----------------------------------------------------------------------------
(* Client.run *)

Connect(c) ==
  /\ cpc[c] = "new"
  /\ listening
  /\ backlog' = Append(backlog, c)
  /\ cpc' = Set(cpc, c, "loop")
  /\ UNCHANGED <<main, listening, clientSockets, poolVars, threadVars, purchases, streams>>

ConnectRefused(c) ==
  /\ cpc[c] = "new"
  /\ ~listening
  /\ cpc' = Set(cpc, c, "failed")
  /\ UNCHANGED <<serverVars, poolVars, threadVars, purchases, streams>>

\* Closing the server socket resets the connections nobody accepted.
ConnectionReset(c) ==
  /\ cpc[c] = "loop"
  /\ ~listening
  /\ \E i \in DOMAIN backlog : backlog[i] = c /\ backlog' = RemoveAt(backlog, i)
  /\ cpc' = Set(cpc, c, "failed")
  /\ UNCHANGED <<main, listening, clientSockets, poolVars, threadVars, purchases, streams>>

\* An IOException ends the client.
ConnectionLost(c) ==
  /\ main = "exited"
  /\ cpc[c] \in {"loop", "ack"}
  /\ cpc' = Set(cpc, c, "failed")
  /\ toClient' = Set(toClient, c, <<>>) /\ toServer' = Set(toServer, c, <<>>)
  /\ UNCHANGED <<serverVars, poolVars, threadVars, purchases>>

\* A client dies; mute if it had connected, and not yet sent the header that
\* the constructor of its ObjectOutputStream sends.
Die(c) ==
  /\ Cardinality(Dead) < MaxDeaths
  /\ \/ /\ cpc[c] = "new"
        /\ listening
        /\ backlog' = Append(backlog, c)
        /\ cpc' = Set(cpc, c, "mute")
     \/ /\ cpc[c] \in {"loop", "ack"}
        /\ cpc' = Set(cpc, c, "dead")
        /\ backlog' = backlog
  /\ toClient' = Set(toClient, c, <<>>)
  /\ UNCHANGED <<main, listening, clientSockets, poolVars, threadVars, purchases, toServer>>

\* mutant: the purchase that fills the quota is not enough
WantsAnother(c) == purchases[c] <= QUOTA
Wants(c) == purchases[c] < QUOTA

\* mutant: an offer may equal the price
AffordsEqual(o, p) == o >= p
Affords(o, p) == o > p

Receives(c, type) ==
  /\ cpc[c] = "loop"
  /\ toClient[c] # <<>>
  /\ Head(toClient[c]).type = type
  /\ toClient' = Drop(toClient, c)

\* mutant: the client does not wait for the acknowledgement of an offer
OfferOnly(c) ==
  /\ Receives(c, "PRICE")
  /\ Wants(c)
  /\ \E o \in Amounts :
       /\ Affords(o, Head(toClient[c]).value)
       /\ toServer' = Send(toServer, c, o)
  /\ UNCHANGED <<serverVars, poolVars, threadVars, clientVars>>

MakeOffer(c) ==
  /\ Receives(c, "PRICE")
  /\ Wants(c)
  /\ \E o \in Amounts :
       /\ Affords(o, Head(toClient[c]).value)
       /\ toServer' = Send(toServer, c, o)
  /\ cpc' = Set(cpc, c, "ack")
  /\ UNCHANGED <<serverVars, poolVars, threadVars, purchases>>

\* The drawn offer is not above the price.  The client does not wait for the
\* acknowledgement the server sends all the same.
SendNoOffer(c) ==
  /\ Receives(c, "PRICE")
  /\ Wants(c)
  /\ \E o \in Amounts : ~Affords(o, Head(toClient[c]).value)
  /\ toServer' = Send(toServer, c, NoOffer)
  /\ UNCHANGED <<serverVars, poolVars, threadVars, clientVars>>

SendBye(c) ==
  /\ Receives(c, "PRICE")
  /\ ~Wants(c)
  /\ toServer' = Send(toServer, c, Bye)
  /\ cpc' = Set(cpc, c, "done")
  /\ UNCHANGED <<serverVars, poolVars, threadVars, purchases>>

\* What is not a price is dropped.
IgnoreAck(c) ==
  /\ Receives(c, "ACK")
  /\ UNCHANGED <<serverVars, poolVars, threadVars, clientVars, toServer>>

\* The answer the client waits for, if it is an acknowledgement.
ReadAnswer(c) ==
  /\ cpc[c] = "ack"
  /\ toClient[c] # <<>>
  /\ purchases' = IF Head(toClient[c]) = Ack(TRUE) THEN [purchases EXCEPT ![c] = @ + 1]
                                                  ELSE purchases
  /\ toClient' = Drop(toClient, c)
  /\ cpc' = Set(cpc, c, "loop")
  /\ UNCHANGED <<serverVars, poolVars, threadVars, toServer>>

-----------------------------------------------------------------------------
MainStep == AcceptFirst \/ AcceptNext \/ AcceptFails
PoolStep == TakeTask \/ \E c \in Client : RunFirst(c)

ThreadStep(c) ==
  \/ \E p \in Amounts : SendPrice(c, p)
  \/ HeaderFails(c) \/ ReadOffer(c) \/ Answer(c) \/ CheckLast(c) \/ Return(c) \/ ConnectionBreaks(c)

ClientStep(c) ==
  \/ Connect(c) \/ ConnectRefused(c) \/ ConnectionReset(c) \/ ConnectionLost(c)
  \/ MakeOffer(c) \/ SendNoOffer(c) \/ SendBye(c) \/ IgnoreAck(c) \/ ReadAnswer(c)

Next == MainStep \/ PoolStep \/ \E c \in Client : ThreadStep(c) \/ ClientStep(c) \/ Die(c)

Spec == Init /\ [][Next]_vars

Lowest == CHOOSE p \in Amounts : \A q \in Amounts : p <= q

\* Threads and connected clients run.  Prices and offers are drawn independently
\* of each other, so that a draw that comes up again and again gives the lowest
\* price, and an offer above it, again and again.
Fairness ==
  /\ WF_vars(MainStep) /\ WF_vars(TakeTask)
  /\ \A c \in Client :
       /\ WF_vars(RunFirst(c)) /\ WF_vars(ThreadStep(c))
       /\ WF_vars(cpc[c] # "new" /\ ClientStep(c))
       /\ SF_vars(SendPrice(c, Lowest))
       /\ SF_vars(MakeOffer(c))

FairSpec == Spec /\ Fairness

-----------------------------------------------------------------------------
\* The two ends of a connection never lose step, though the server acknowledges
\* offers of 0 that nobody waits to hear of: what a client waiting for its
\* answer reads is that answer, and since it only offered above the price of
\* this very thread, the answer is yes.
AwaitedAnswerIsSale ==
  \A c \in Client : cpc[c] = "ack" /\ toClient[c] # <<>> => Head(toClient[c]) = Ack(TRUE)

\* And no sale gets lost between the two: the server's yes is only ever on its way
\* to a client that waits for it, comes to it first, and can still count it within
\* its quota.  A client skips an acknowledgement unread wherever it looks for a
\* price, so that one answer too few or too many would have it skip a sale.
SaleIsAwaited ==
  \A c \in Client : \A i \in DOMAIN toClient[c] :
    toClient[c][i] = Ack(TRUE) => i = 1 /\ cpc[c] = "ack" /\ purchases[c] < QUOTA

\* The connections keep the promise of Shop: a request is open from the offer
\* to the acknowledgement read.
S == INSTANCE Shop WITH open <- {c \in Client : cpc[c] = "ack"},
                        finished <- {c \in Client : cpc[c] = "done"}
ImplementsShop == S!Spec

\* A client whose connection was accepted once the service has started gets its
\* quota, also if it has to queue for a worker, and if the server closes and
\* shuts its pool down before its turn.  A client that dies before it has said a
\* word costs nobody else anything; one that dies later may.
AcceptedIsServed ==
  \A c \in Client :
    tpc[c] # "none" ~> \/ tpc[c] = "done" /\ purchases[c] = QUOTA
                       \/ cpc[c] = "mute"
                       \/ \E d \in Client : cpc[d] = "dead"

\* In between, a ServerThread does not give its client up: as long as the process
\* lives, it returns from a client that has its quota, or never said a word.
ReturnsServed ==
  main # "exited" =>
    \A c \in Client : tpc[c] = "done" => \/ cpc[c] = "done" /\ purchases[c] = QUOTA
                                         \/ cpc[c] = "mute"

\* What it costs: the death of one client being served ends the service of all.
DeathEndsServer ==
  \A c \in Client : cpc[c] = "dead" /\ tpc[c] # "none" ~> main = "exited"

Terminated == main = "ended" /\ waiting = <<>> /\ Active \cup Spawned = {}

\* What the README says: "When all clients have completed their purchases, the
\* server terminates the application" (l. 16).
AllDoneTerminates == (\A c \in Client : cpc[c] = "done") ~> Terminated
=============================================================================

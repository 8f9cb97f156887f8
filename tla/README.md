# Verification of the distributed systems assignments

TLA+ models, model-checking runs and machine-checked proofs for the three
programs of this repository: an election with mutual exclusion over JMS queues
(assignment 3), and the same shop twice, over RMI (assignment 1) and over TCP
(assignment 2).

Line numbers refer to the sources under `src/`; `PROJECT.json` maps every
definition to the lines it models.

## 1. What there is

| Part | Code | State | Operations | Model |
|---|---|---|---|---|
| Node of the election | `jms/.../GenericClient.java`, `clientOperations` | `myState`, `COORD_ID`, an open election, `iterTolerance`, outstanding ping and request, `resourceUser`, `pingResourceUser`, `checkAlive`, `checkAliveTh` | one turn of the loop in each state, one branch per message type, timeouts, use of the resource | `GenericClient`, `GenericClientTimed` |
| Id assignment | `GenericClient.java`, `idAssignment`, first part of `clientOperations`; `ClientBroker.java`, `Client.java` | `INCR_ID`, queue "0", one temporary queue per client | request, assignment, start of the service | `IdAssignment`, `Naming` |
| Queues | `SendReceiverQueue.java` | JMS connection, sessions, receivers | `createQueue`, `sendMessage`, `sendIdRequest`, `sendIdResponse` | operators `Post`, `PostResource`, `createResourceQueue`; actions of `IdAssignment` |
| RMI server | `rmi/.../CallbackServer.java`, `SubscribeImpl.java` | `clientList`, `isStarted`, `currentPrice`, the iterator of each loop | subscription, a round of prices, a round of judgements, exit | `CallbackShop`, `Shop` |
| RMI client | `rmi/.../CallbackClient.java`, `PriceWriterReaderImpl.java` | offer; the remote object: price, offer, `purchases`, `state` | draw, offer, busy wait, unsubscribe, unexport | `CallbackShop`, `Shop` |
| Socket server | `socket/.../Server.java`, `ServerThread.java` | server socket, `clientSockets`, the pool, a price and an offer per thread | accept, execute, a round with a client, close | `SocketShop`, `Shop` |
| Socket client | `socket/.../Client.java`, `Price`, `Offer`, `Acknowledgement` | `purchases`, two object streams | connect, offer, 0, -1, acknowledgement | `SocketShop`, `Shop` |
| ActiveMQ, RMI runtime, TCP, `ThreadPoolExecutor` | not in the repository | | | only the behaviour the sources rely on |
| Javadoc, `jms.zip` | `doc/` | | | not modelled: generated pages, the third-party scripts the javadoc tool copies beside them (jQuery, search), an archive of the same sources |

### How the parts interact, and what is hard

**Assignment 3.** Every node is one thread that reads its own queue, named after
its id, and writes to the queues of the others. A coordinator also reads a
resource queue "R-id", one message per turn of its loop. Nothing but messages is
shared. A node asks the nodes above it for an election, waits for an
acknowledgment through a number of empty receives, and either takes over and
tells the nodes below, or waits. An idle node pings the coordinator, and may then
ask for the resource; the coordinator grants it, refuses it, and checks now and
then that the user is alive. The hard behaviours: messages carry no election and no term, so a late
acknowledgment, announcement, alive answer or release counts for the present
one; a dead node keeps its queue and handles what has arrived when it is back;
the user of the resource drops every message but an alive check; six local
variables (`iterTolerance`, `pinged`, `requested`, `pingResourceUser`,
`checkAlive`, `checkAliveTh`) survive the episode they belong to; the timeouts of
the two sides (3 s, 6 to 10 s, 11 s, four receives) decide who suspects whom.
What makes it correct: no id twice; elections end and follow the order of the
ids; a coordinator can be asked before it is known; the nodes never all wait for
each other; one user at a time; the resource comes back.

**Assignment 1.** The server and each client access the client's
`PriceWriterReaderImpl` without a lock; the server's accesses are remote calls,
any of which throws once the client has unexported the object or died, and leads
to a new round. The two loops of a round iterate over different snapshots of the
set of subscribers, and nothing takes a dead one out of it. The client waits for
its answer by reading a plain field over and over. What makes it correct: a
request is answered once, with a price its client was told; every subscriber is
told a price; a client leaves with its quota; the server ends.

**Assignment 2.** One thread per connection in a pool of five workers and an
unbounded queue; the main thread accepts until the last thread closes the server
socket. The client does not read the acknowledgment of an offer of 0, but skips
it when it looks for the next price. An exception on a connection ends the server
process, unless it comes with the header of the stream, when the thread just
returns. What makes it correct: the two ends of a stream stay in step; an accepted
client is served, even when it queues while the server closes, or when another
one died before it said anything; no client waits for a server that is gone; the
server ends.

## 2. The modules

```
Naming            abstract: processes get distinct names
IdAssignment      the broker and its clients; implements Naming
IdAssignmentProofs

Election          abstract: who may stand, win, follow, doubt, step down
GenericClient     the main loop of the nodes, without time; implements Election
GenericClientProofs   types, the order of the ids, readiness
ElectionProofs    EXTENDS it: the refinement of Election
CausesProofs      EXTENDS ElectionProofs: what it takes for all nodes to wait, or two to use
GenericClientTimed   GenericClient under the clock; implements GenericClient
GenericClientTimedProofs   EXTENDS ElectionProofs: what the clock adds
MCGenericClient, MCTimed   budgets that make the state spaces finite
MCWedge           a schedule that leads the nodes to wait for each other

Shop              abstract: requests, answers, quotas
CallbackShop      assignment 1; implements Shop
CallbackShopProofs
SocketShop        assignment 2; implements Shop
SocketShopProofs
DistinctSequences lemmas for both: lists in which nobody is twice
MCCallbackShop, MCSocketShop   the clients numbered in the order they come in
```

Operators and actions have the names of the methods they model where there is
one. An operator under a comment "mutant" is a plausible slip in the definition
that follows it. No specification uses it: put in that definition's place it must
break the property it is meant for, which is how each property is shown to depend
on the code.

### GenericClient

`pc` says where a node is in `clientOperations`: at the "top" of the loop (l. 440
on), in the receive loop of the IDLE branch ("recv"), "using" the resource, or in
the coordinator's own receive ("coord"). An action is what happens from one
blocking receive or sleep to the next; in between, the code reads nothing that
others write. Its sends reach their queues in the same step. What this leaves out
is a node that reacts between two sends of another's loop over the ids, so that
in a third queue the messages of the two stand in the other order. The creation of the
resource queue (l. 543) and the announcement (l. 546) are one step as well: that the
queue is there when somebody hears of its coordinator is checked, that it is there between the
two lines is not. For most proofs that makes no difference: they speak of the direction of messages and of what is
queued where. `NoWedgeUnlessSecondAsks` does depend on it: it uses that one
convocation posts its requests to the two highest nodes in one step, and that a node above
posts its acknowledgment before its announcement.

| Code | Actions |
|---|---|
| DEAD branch, `aliveOrDead()`; CANDIDATE branch | `Die`, `StartElection` |
| IDLE branch, entry and ping | `EnterIdle` |
| IDLE branch, message received | `RecvCoordinator`, `RecvElectionReq`, `RecvElectionAck`, `RecvCoordAlive`, `RecvGranted`, `RecvDenied`, `RecvIgnored` |
| IDLE branch, `receive` returned null | `BecomeCoordinator`, `PingFailed`, `RequestFailed`, `KeepWaiting` |
| use of the resource | `UsePoll`, `freeResource` |
| COORDINATOR branch, resource queue and `checkIfAlive` | `GrantResource`, `DenyResource`, `ResourceFreed`, `NoResourceMessage` |
| COORDINATOR branch, own queue | `CoordTimeout`, `CoordPing`, `CoordUserAck`, `StepDown`, `CoordIgnored` |

Abstractions, and why they lose nothing:

- `electionOpen` stands for `elecSent`, `ackToReceive` and `ackReceived`, which
  are read together in a single test (l. 534). That test is true from a
  convocation to the first acknowledgment or the takeover.
- `busy` and `resourceUser` are assigned together everywhere: the resource is
  busy if `resourceUser # None`.
- Counters stop at the threshold above which the code only asks whether they
  are above it.
- "R--1", where a node without a coordinator writes, is read by nobody: such a
  message disappears.
- Every takeover creates one more receiver on "R-id" and closes none. ActiveMQ
  hands a queue's messages to its receivers in turn and ahead of time, so from
  the second receiver on any message may be handed to one that nobody polls:
  `PostResource` then may lose it, and `createResourceQueue` puts what the former
  receiver holds out of reach.
- `receivers` counts none, one, more.

### Election

What is left of the election without its messages, timeouts and queues: a role and
a leader per node, the nodes that stand, and the nodes that have served as
coordinator. It promises less than the bully algorithm is known for, because the
code does: a node only ever follows, and only ever doubts, a node above it that has
been coordinator; only a node that stands becomes coordinator; nobody makes the
node with the highest id withdraw. It says neither that there is one coordinator
nor that it is the highest node alive. `ImplementsElection` in `GenericClient` is
the mapping: `leader` is `COORD_ID`, `standing` is `electionOpen`, `served` are
the nodes that have created their resource queue.

### GenericClientTimed

Each step of a node is a step of `GenericClient`; the module adds `timer` and the
local variable `timeout`, and says when the step may happen: a node blocks for
the timeout of its receive or for its sleep, wakes up for a message if it is in a
receive, and computes in no time. A unit is a second. Receives of 3 s (l. 518,
769) and a poll a second (l. 685) are the program's. The sleep of the dead, 5 s
and 6 s, is one of 11 s. Random waits of 6 to 10 s are the set `Waits`.
`StayDead` is another false draw of `aliveOrDead()`; `Tick` lets time pass to the
next expiry when nobody has anything to do.

### IdAssignment

The queue "0", `INCR_ID`, the temporary queues and the ids. `idAssignment` is one
turn of the broker's loop; `StartService` is its entry into `clientOperations`;
from then on `LateRequest` models that the receive loops drop a request for an
id. The ids seed the random draws of their nodes, and 18 is the first id whose
first draw of `aliveOrDead()` is false: with three clients, none dies before it
has entered the loop, and none asks twice. That a client asks only once is built
into the module; for 18 ids and more the program does not justify it.

### CallbackShop

One step per access to a `PriceWriterReaderImpl` or to the set of subscribers,
by the client or by a remote call. Two pairs of reads are taken for one where no
property can tell: the first `getOffer()`, which is only logged (l. 92), goes with
the second, and so does the `clientList.size()` that ends the wait for subscribers
(l. 65) with the one that may end the program (l. 80). The decision to exit
("exit") and `System.exit` ("exited") are two steps: who subscribes in between is
not noticed.

A remote call returns or throws (`Call`), and has its effect on the object only
if it returns (`Put`); `Aborted` is where the `catch` leads. It throws when the
client has unexported its object (`unexportObject`) or has died (`Die`). A dead
client stays in `clientList`: the server has no `catch` that takes it out. Its
object keeps nothing but `purchases`, which the refinement of `Shop` reads.

`SpinForEver` is the busy wait (l. 70-83) compiled to read `state` once. It may be
taken only while the answer is out: the one value read is then "open" for ever. A
client is `new` until it subscribes, so clients may arrive at any time.

### SocketShop

`Server.run` is `main`; the pool follows the documentation of
`ThreadPoolExecutor` (a new worker below the core size, else the queue;
`getActiveCount()` counts the workers at a task; `shutdown()` runs the queue
down), where a worker that was created and has not begun its task ("spawned") is
not active. The streams are sequences of objects. `ConnectionReset` is what
TCP does to the connections nobody has accepted when the socket closes.

A client that dies is "mute" if it had connected and not yet sent the header of
its stream, else "dead". The constructor of `ObjectInputStream` in a
`ServerThread` waits for that header; with a mute client the thread waits ("header"),
active like any other, until the connection fails (`HeaderFails`). The constructor
throws outside the `try` that exits, and the thread returns with the socket left open and
without a look at whether it was the last. Between living ends the headers need no step: each is written before it is waited
for. From a dead client the thread may still read what it had sent, and what it
writes may still be accepted, but at any time one of its accesses fails:
`ConnectionBreaks`, which is `System.exit` (l. 132), takes the accept loop, the
pool and every other connection with it. The clients learn of that by an exception
too (`ConnectionLost`), and leave.

### Shop

A request is open from its start to a sale or a refusal; a client leaves with
exactly its quota. For assignment 1 a request is opened by `setState(0)` and
closed by the purchase (`clientHasPurchased`, before the client can see it) or
by `setState(-1)`. For assignment 2 it is opened by the offer, and closed by
reading the acknowledgment. A request whose client dies, or loses the server,
ends like a refusal: nothing was bought.

## 3. The runs

Most runs take seconds; `callback`, `socket`, `timed_resource`, `timed_election`
and `election` take one to two minutes with two workers.

| Run | Instance | Shows |
|---|---|---|
| `election` | 3 nodes, one death or doubt, no requests, tolerance 2 | types; nodes that only elect never all wait for each other (`NoWedge`, proved for this case); the highest node's election ends in its takeover; `Election` implemented |
| `resource` | 2 nodes, three deaths or doubts, two requests | the order of the ids in all messages, beliefs and grants (`BullyOrder`); `HighestNeverUses`; `CoordinatorReady`; `NoWedge` for two nodes (proved as well) |
| `wedge` | 3 nodes, the program's tolerances, one schedule | **violated**: all nodes wait for each other (`NoWedge`) |
| `timed_election` | 3 nodes, the program's timeouts and tolerances, one death | `PingSuspicionJustified`; a coordinator again and again (`CoordinatorAgain`) |
| `timed_resource` | 2 nodes, the program's timeouts, two deaths, two requests | the coordinator does not count the same user as holding the resource for ever (`ResourceComesBack`) |
| `two_users` | 3 nodes, no deaths, three requests | **violated**: two nodes use the resource |
| `takeover` | 3 nodes, no deaths, three requests | **violated**: a takeover under living higher nodes |
| `id_assignment` | 4 clients, 3 ids | no id twice, none missing, the service starts, `Naming` implemented |
| `callback` | 2 clients, the server waits for 1, quota 2, prices 1 and 2, one death | `JudgedByToldPrice`; `Shop` implemented; every request answered and every subscriber told a price (`ToldAPrice`), unless somebody died; the server ends; one dead subscriber ends all sales (`DeathEndsSales`), and not one more round is judged (`DeathBarsRounds`) |
| `callback_stale_offer` | as above, prices 1 to 3, no deaths | **violated**: a sale below the price |
| `socket` | 3 clients, the server waits for 2, two workers, quota 1, prices 1 and 2, two deaths | the streams stay in step: what a client waits for is a sale (`AwaitedAnswerIsSale`), and no sale is on its way that its client will skip, or beyond its quota (`SaleIsAwaited`); `Shop` implemented; every accepted client served, whoever dies before its first word; no thread gives its client up while the server lives (`ReturnsServed`); a death in the middle of a session ends the server (`DeathEndsServer`) |
| `socket_never_ends` | 2 clients, the program's pool size | **violated**: the server does not end |

### Why the bounds are enough

- *Nodes.* A bully election needs a node, one above it and one above that: three
  nodes (`N_CONNECTED = 2`) give acknowledgments that cross, an announcement that
  is overtaken, and a step-down of a node in the middle. The resource needs a
  coordinator and a user; two users need a third node (`two_users`).
- *`MaxUpsets`, `MaxDeaths`, `MaxRequests`* bound how often `aliveOrDead()` and
  `checkResourceRequest()` come out one way. The draws are random, so a spent
  budget only cuts the behaviours in which they come out so once more. One upset of three nodes is
  enough for an election to be overtaken by another; three upsets of two nodes
  for a second term of a coordinator, with what it left behind from the first.
- *The schedule of `wedge`* is 159 steps long, out of reach of a search. It fixes
  the node of each step and the outcome of the two draws; the rest TLC finds. It is a
  behaviour of `GenericClient` as it is, `Init` and `NodeStep`, and nothing else.
- *`ITER_TH_TOLERANCE`, `RES_PING_TH`* are the program's (4 and 3) under the
  clock, where they decide the order of things. Without a clock a receive may
  time out whenever its queue is empty, and 2 and 1 suffice to have every counter
  pass through a value below its threshold.
- *`UsePolls`, `Waits`*: 6 and 9 of the 6 to 10 the program draws: shorter than,
  and as long as, three receives. `timed_election` has all five waits: a node that draws
  no request sleeps for one of them. Without requests it has no use for the polls.
- *Clients of the shops.* Two clients of the RMI shop with a server that waits
  for one give a late subscriber, a leaver in the middle of each loop, and an
  aborted round with somebody left to judge. Three clients of the socket shop
  with two workers give one that queues, comes late or is cut off. They run the
  same program and no property tells them apart, so that the two MC modules number
  them in the order they subscribe or connect in, which loses no behaviour but for
  the names.
- *`MaxDeaths` of the shops.* One dead subscriber of two is ahead of a living
  one, or behind it, in the server's loops. Two deaths of three clients give a
  mute and a dead one with a third being served, queued, or not accepted.
- *`timed_resource` has two nodes.* `ResourceComesBack` holds for two and fails for
  three (the program starts four) under the fairness below: see section 5.
- *`Amounts`*: {1, 2} has a price that can be beaten and one that cannot, and
  an offer equal to a price. A stale offer that counts, and a new one that does
  not, need a third amount.
- *`QUOTA`* is 10 in the program; a counter to 2, or to 1 with the streams, goes
  through below, at the last, and at the quota. Two with the streams takes more than
  five minutes; what the run shows of safety is proved for every quota.

Deadlock is checked in the runs of assignment 3 after the ids are given, whose
nodes loop for ever. In the others the system ends: `CHECK_DEADLOCK FALSE`.

### Fairness

- *Assignment 3.* Weak fairness of every node's step and of time: a thread that
  can run does, and time passes. Strong fairness of a dead node's
  step, because it draws `aliveOrDead()` anew every 11 s and a random draw does
  not come out false for ever. No fairness is asked of messages: the queues
  deliver. `IdAssignment`: weak fairness of the broker and of every client.
- *Assignment 1.* Weak fairness of the server and of every client that has
  subscribed. Nothing is assumed of the busy wait: that the write of the answer is
  seen is what the Java memory model does not promise, and `SpinForEver` is always
  possible. `RequestAnswered` is about the object, not about what the client sees.
- *Assignment 2.* Weak fairness of the main thread, the pool, the threads (which
  includes that a thread left with a dead client meets the exception some time)
  and the connected clients. Nobody has to die or to connect. Strong fairness of the
  lowest price, and of an offer above a price: the two are drawn independently over
  and over, so the draws that let a client buy come up again and again. Without it a
  client could be unlucky for ever.

## 4. What is proved

With TLAPS, for every number of nodes, ids, clients and workers and every value
of the thresholds and quotas, from the named assumptions only (`N_CONNECTED`, the
tolerances, `Waits`, `QUOTA`, `CONNECTED` and `COREPOOL` are positive; `UsePolls` and
`Amounts` hold positive numbers). Nothing is assumed of `Client`, which may be
infinite, nor of `MaxDeaths`, but for what TLC needs in order to end. Every
inductive invariant below was an invariant of a TLC run before it was proved.

**GenericClientProofs.** `TypeCorrect`: `TypeOK` is inductive. `BullyOrderHolds`:
`BullyOrder` is inductive relative to the types. It has to speak of all messages
at once: `COORD_ID` is above the node because announcements come from above;
grants come from above because requests came from below; requests come from
below because they go to `COORD_ID`. `HighestNeverUsesHolds` follows from it
without another induction. `CoordinatorReadyHolds`: inductive relative to the types;
what makes it so is that the announcement is sent in the step that creates the queue.
`HighestWinsHolds`: an action property; an acknowledgment in the queue of the highest
node would contradict `BullyOrder`, so that only `BecomeCoordinator` closes its
election.

**ElectionProofs.** `ImplementsElectionHolds`: the nodes implement `Election`. The
mapping needs three facts beyond the invariants above. `AtHome`: a node that
receives or uses is idle, one that reads as a coordinator is one; `Election` asks for
the role, the code only for the place in the loop. `AliveReady`: an answer to a ping
comes from a node that has been coordinator. `Knew`: a node that waits for an answer to a
ping or a request has heard of a node above itself that has been coordinator, so that
what it doubts exists; for the ping this is `COORD_ID` with `BullyOrder` and
`CoordinatorReady`, for the request the sender of the alive answer. Then each
action is one of `Election`'s or a stutter. `QueueStep` says once what a step can do to the queues,
for any set of queues closed under it; `AliveReady` and `PingHandled` (below) are its uses.

**CausesProofs.** Two safety properties of the nodes are false, as `wedge` and `two_users`
show. Proved is what has to happen before either is violated.

`NoWedgeUnlessSecondAsks`: as long as the second highest node does not ask for
the resource (`SecondAbstains`), the nodes never all wait for each other,
whoever else uses it. `TwoNodesNeverWedge`: nor do two nodes, where only the lower can ask
at all. That nodes which only elect never wedge is the special case in which nobody asks.
A chain of nodes, each waiting for one above, need not be followed: it ends at the two
highest, and the inductive invariant (`WInv`) is about these only. If the
highest is idle, stands for nothing and has no election request to come to, the
second highest must go on of itself (`SecondStirs`): it has a loop to go round, a
coordinator to ask, a request or an announcement to come to, or an election open
that it withdraws only for an acknowledgment behind which there is an
announcement in its queue (`Settled`). That this is so whenever the highest
becomes idle takes the steps before (`Linked`): a serving highest node steps down for an
election request, and the node that sent it has sent one to the second highest too, or
is the second highest itself; for the last such request on its way, the second
highest must stir already. Before the
first election everybody waits for node 0 (`Fresh`). The hypothesis is what keeps
the second highest from dropping its announcement: in `wedge` it does so as it uses the
resource.

`ExclusionUnlessForgotten`: two nodes use the resource at a time only after one of two things.
Two nodes have counted the resource as lent at the same time (`OneLends` broken), which takes
two that have been coordinator; or one has given its user up, or forgotten it by stepping
down, while a grant, a use or a release was still to come (`ForgetsNoLoan` broken),
which is what the leftover check in `two_users` does. The inductive invariant (`Loan`) says that a loan is
in one place, once (a grant in a queue, a use, or a release on its way), and
that it is the present user's of some coordinator. So lost and late releases, requests given up
for dead, grants nobody waits for any more, and users that die cannot do
it without one of the two. Neither hypothesis can be left out: with only one of
them TLC finds two users.

**GenericClientTimedProofs.** `TimedImplements`: the model with the clock implements
the one without it, so that every safety result above carries over
(`TimedBullyOrder`). `TimedTypeCorrect`: the timers are times, and no receive
of the IDLE loop outlasts the local variable `timeout`, for which one needs that a step of
one node changes nothing of another but its queues. `PingSuspicionJustifiedHolds`:
under the clock, whoever gives its coordinator up after a ping is right that it does
not serve, for any number of nodes. The invariant (`PingHandled`) says that while an idle node
waits for the answer of a coordinator that serves, either its ping is queued there and
its receive has time left, or the answer, or the news that this node has taken over, is
in its own queue. The first holds until the coordinator reads the ping, because a coordinator
never sleeps (`NeverSleeps`) and time passes only when nobody has anything to do; a
node that becomes coordinator while an old ping is out announces itself to the node that waits.
It rests on the zero time of computing and delivery that the module states.

**IdAssignmentProofs.** The inductive invariant `IInv` adds to the types and
`UniqueIds` that a client is in the queue at most once and only without an id
(`AskedOnce`), and that the ids given are exactly those below `INCR_ID`
(`GivenInOrder`): `UniqueIds` alone is not inductive, since nothing in it says that
the next id is unused. `TypeCorrect`, `UniqueIdsHolds`, `ElectionReachesNodesHolds` and the
refinement `ImplementsNaming` follow.

**CallbackShopProofs.** `IInv` has, beside the types (nobody is in the set or in a
snapshot twice, and the evaluation has somebody at hand):

- `Subscribed`: who is in the set, by place in the client's loop; a snapshot holds nobody
  who never subscribed;
- `Told`: from the prices to the end of the judgements, a client outside the part of the
  snapshot still to be told has the current price, or none because it came later,
  and none is not enough to make an offer;
- `Asked`: an open request belongs to a client that waits, and the server, once it
  has seen it open, is the only one to close it;
- `Counted`: an open request, and one about to be opened, lacks a purchase, where
  a request already sold and not yet answered is not open.

`JudgedByToldPriceHolds` follows from `Told` and `Asked`: the two loops use different
snapshots, so that a judged client may have missed the loop of the prices, but then
it has no price and cannot have asked. `QuotaKept` and the refinement
`ImplementsShopHolds` follow from `Counted`, stale offers (section 5) included:
these sell at the wrong price, never once too often. `DeathBarsRoundsHolds` is the part of
`DeathEndsSales` that needs no fairness: once the server is at the top of its loop
and somebody in the set is dead, a dead one is always in the part of the snapshot still
to be told (`Barred`), and a remote call on it throws before the judgements.

**SocketShopProofs.** `IInv` has, beside the types (the pool never has fewer workers than
threads that run):

- `Placed` and `Exited`: a connection is in the backlog, gathered, queued in the
  pool, or with its thread, once; after the exit there is nothing left to run;
- `PoolFinite`: the running threads can be counted, though the clients may be
  infinitely many;
- `InStep`: for each place a thread can be at, what may be in the two streams of the
  connection. The server can be ahead of a client by the refusal of an offer of 0,
  which the client leaves unread, and the next price; it is never ahead of
  an offer that counts;
- `Counted`: who waits for an acknowledgment lacks a purchase, who has said goodbye
  lacks none.

`AwaitedAnswerIsSaleHolds` is `InStep` read at the client, and `ImplementsShopHolds`
follows from it with `Counted`. `SaleIsAwaitedHolds` is about the other end, what the server
has written: for a living client it is `InStep` and `Counted` again. A dead client is
outside `InStep`, since it reads nothing any more, and nothing is on its way to one (`Silent`). `ReturnsServedHolds` is the part of
`AcceptedIsServed` that needs no fairness: while the process lives, a thread has returned only
from a client that left with its quota or never said a word. It follows from `Counted`
once one knows that a goodbye is read only of a client that has left (`Goodbyes`).

**DistinctSequences.** What appending, taking the tail, removing at a place, joining and
cutting do to a list without repetitions and to the set of its members. Both shops remove
a client from a list with `RemoveAt` for this reason.

**Only model-checked:** all liveness (it needs fairness and ENABLED, which the
prover does not reach), the clock under which a coordinator appears again and
again (`CoordinatorAgain`) included. `NoWedge` and `MutualExclusion` are theorems under the
conditions above only. `wedge` and `two_users` violate them without, and the other three
violated properties are, of course, not theorems either.

## 5. What the runs found

- **Two users** (`two_users`). `checkAlive` and `checkAliveTh` are not reset when
  the checked user gives the resource back or when the next one gets it. The
  check left over from the first frees the resource under the second, who
  was never asked; the next request is granted. Nobody has to die. This is one of the
  two ways there are (`ExclusionUnlessForgotten`).
- **Takeover under living higher nodes** (`takeover`). A coordinator handles one
  resource message per turn of up to 3 s; a request waits 6 to 10 s. The
  requester that times out convocates with `iterTolerance` as it is (the reset is
  commented out, l. 568), the coordinator steps down without acknowledging, and one empty
  receive is enough to take over.
- **All nodes wait** (`wedge`). Nodes 0 and 1 give up waiting for the resource, and
  node 2, which has been slow, grants it to both: the release of an earlier use comes
  between. Node 1 drops node 2's announcement while it uses the resource, wins its own
  election, and there are two coordinators. Node 0, back from death, convocates; both
  step down for it without an acknowledgment. Still in its queue is an
  acknowledgment of node 1 to its last election, which closes the new one; then the
  grant; then, dropped while it uses the resource, both announcements. Now no node
  has an election, a ping or a request open and none knows a coordinator: all are in
  `receive` for ever. No message is lost, and the nodes are only slow. The model of this
  run has no clock: node 2 does not get to its queues for the 6 s the others wait, nor
  node 1, later on, to its own for the 12 s and more (four receives of 3 s) of node 2's
  election. A busy machine or a busy broker can bring that about; the zero computing time of
  `GenericClientTimed` excludes it. Whether the clock alone can lead there is not known. That
  node 1, of the three the second highest, uses the resource is no accident:
  otherwise it cannot happen (`NoWedgeUnlessSecondAsks`).
- **Stale offer** (`callback_stale_offer`). The client opens its request before
  it puts its offer; the server compares the old one and sells on the new one.
- **A server that does not end** (`socket_never_ends`). Two threads that end
  together each count the other as active; nobody closes the server.

Seen on the way. Nothing in the repository says otherwise of most of it, so that
it is stated, where it can be, by properties that pass:

- A coordinator that steps down never learns its successor, and nodes whose
  ping tolerance runs out as the takeover tolerance of others does (both 12 s) may
  convocate over and over, so that a coordinator appears again and again but need
  not stay.
- A coordinator counts a missing answer of the user only in a receive of 3 s that
  finds nothing at all (l. 769-786). With two nodes below it, their pings can fall
  in step so that every one of its receives gets one; it then never takes the
  resource from a dead user. `ResourceComesBack` fails for this reason with three
  nodes, though only on behaviours in which the random waits keep that step for
  ever: with strong fairness of the coordinator's timeout it holds there as well
  (three nodes, no deaths, four requests).
- The busy wait of the RMI client reads a field that is not volatile, in a loop
  without synchronization, while an RMI thread writes it. Compiled to read it once, the
  client never sees that it has made its last purchase, and never unsubscribes,
  though "when he has purchased at least 10 objects he will terminate"
  (`CallbackClient.java:42-43`). The model takes this as a step (`SpinForEver`), after
  which the client does nothing, by definition; what is checked is that the others go on.
- One RMI subscriber that dies ends all sales, for every client, and with them
  the hope that the server ends (`DeathEndsSales`); which living clients are still
  told prices depends on who subscribed first (`ToldAPrice`).
- An RMI client that subscribes between the server's decision to exit and the exit
  is told nothing: `ToldAPrice` has to except it.
- A client of the socket shop that dies while it is served ends the service of all
  (`DeathEndsServer`); one that dies before its first word leaves a socket
  nobody closes, and a thread that does not look whether it was the last. Another thread that
  ends while this one still waits for the header counts it as active, so that nobody
  may close the server. Nothing promises otherwise, and no property covers it.
- The README has the server sell at an offer greater than or equal to the price
  (l. 15); the code says greater (`CallbackServer.java:94`), and so does its comment.

## 6. What is not modelled

- *Sessions, producers, JMS exceptions and the failure of the broker.* An exception
  while the connection is made is printed and ignored (`GenericClient.java:938`); a
  later one ends the node, which closes its connection (`Client.java:61-77`,
  `ClientBroker.java:83-95`). What ActiveMQ then does with the messages is not in
  the repository. A producer is created for every message and not closed
  (`SendReceiverQueue.java:187`): a leak, which shows in the broker only. For
  this the component is "partly" modelled.
- *Requests for an id that reach node 0's loop.* `IdAssignment` shows that they are
  dropped there; `GenericClient` leaves them out of the queues.
- *ActiveMQ, the RMI runtime, TCP, `ThreadPoolExecutor`*: only the behaviour the
  sources rely on, as said above.
- *`doc/`.* The pages the javadoc tool generates, and the JavaScript it copies beside
  them: jQuery, jQuery UI and the search of the pages. These 13 thousand lines are
  the only JavaScript of the repository, and other people's; the programs are the 19
  Java files under `src/`, 2468 lines, and nothing in them loads or runs a script. A
  model of the scripts would say nothing about this system.
- Logging, and the text of messages.

## 7. Plan

Done: the election and the resource, its abstract specification and its timed form,
the id assignment, both shops with dying clients, broken connections and the
exits of their servers. Every safety property that a passing run checks, refinements
included, is proved; `NoWedge`, which is false in general, for the cases in which it
holds.

To prove:

1. `GenericClientTimed`: that what a coordinator counts as used is released in bounded
   time when its user is silent, as a safety property of the timers.
2. `GenericClient`: whether `SecondAbstains` can be weakened to the second
   highest node dropping no announcement while it uses the resource.

To extend the models:

1. `SendReceiverQueue` as a module of its own: the receivers of a resource queue
   and what each has been handed, with the present loss in `PostResource`
   as its abstraction.
2. A composition of `IdAssignment` with `GenericClient`: a node whose client
   reads its id after the first election request has been sent to it.

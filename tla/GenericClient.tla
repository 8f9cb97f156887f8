---------------------------- MODULE GenericClient ----------------------------
(***************************************************************************)
(* The nodes of assignment 3 (jms/mutualexclusion/assignment3): a bully    *)
(* election of a coordinator over JMS queues, and a resource the           *)
(* coordinator lends to one node at a time.  Every node runs the main loop *)
(* of GenericClient.clientOperations; the model starts where the broker    *)
(* leaves its id assignment loop and the clients wait for a first message. *)
(*                                                                         *)
(* Time is abstracted: a receive(timeout) may time out whenever the queue  *)
(* is empty, and a sleeping node simply takes no step.  The loop's local   *)
(* variables elecSent, ackToReceive and ackReceived are only read together *)
(* (l. 534), in a test that is true exactly from a convocation to the      *)
(* first acknowledgment or to the takeover: electionOpen.  The pair        *)
(* busy/resourceUser is assigned together everywhere: busy is              *)
(* resourceUser # None.                                                    *)
(*                                                                         *)
(* An operator marked "mutant" stands before the definition it is a slip   *)
(* of; no specification uses it.  Put in the place of that definition, it  *)
(* must break the property that watches over it.                           *)
(***************************************************************************)
EXTENDS Integers, Sequences

CONSTANTS
  N_CONNECTED,        \* ids run from 0 (the broker's node) to N_CONNECTED
  ITER_TH_TOLERANCE,  \* empty receives tolerated before a decision
  RES_PING_TH,        \* loop turns of the coordinator between two alive checks
  UsePolls            \* how many polls a use of the resource may last

ASSUME NodesAssumption == N_CONNECTED \in Nat \ {0}
ASSUME ToleranceAssumption == ITER_TH_TOLERANCE \in Nat \ {0}
ASSUME PingAssumption == RES_PING_TH \in Nat \ {0}
ASSUME PollsAssumption == UsePolls \subseteq Nat \ {0}

Node == 0..N_CONNECTED
None == -1                     \* COORD_ID "-1", resourceUser null
AboveAndSelf(n) == n..N_CONNECTED              \* mutant: start without the + 1
Others(n) == Node \ {n}                        \* mutant: writes to every id
Above(n) == (n + 1)..N_CONNECTED
Below(n) == 0..(n - 1)

State == {"IDLE", "CANDIDATE", "COORDINATOR", "DEAD"}

PeerType == {"COORDINATOR", "ELECTION_REQ", "ELECTION_ACK", "COORD_PING",
             "COORD_ALIVE", "RESOURCE_RESP_Y", "RESOURCE_RESP_N",
             "USER_ALIVE_CHECK", "USER_ALVIE_ACK"}
ResourceType == {"RESOURCE_REQ", "FREE_RESOURCE"}

PeerMessage == [type : PeerType, from : Node]
ResourceMessage == [type : ResourceType, from : Node]
Msg(type, n) == [type |-> type, from |-> n]

VARIABLES
  pc,               \* "top" of the loop, "recv" in the IDLE loop, "using" the
                    \* resource, "coord" in the coordinator's receive
  myState, COORD_ID,
  queue,            \* queue[n]: the JMS queue "n"
  rqueue,           \* rqueue[n]: the JMS queue "R-n", as its last receiver sees it
  receivers,        \* receivers created on "R-n": none, one, or more (2)
  electionOpen, iterTolerance, pinged, requested,
  cont, granter,    \* polls left of the use, and who granted it
  resourceUser,
  pingResourceUser, checkAlive, checkAliveTh

netVars   == <<queue, rqueue, receivers>>
waitVars  == <<electionOpen, iterTolerance, pinged, requested>>
useVars   == <<cont, granter>>
coordVars == <<resourceUser, pingResourceUser, checkAlive, checkAliveTh>>
vars == <<pc, myState, COORD_ID, netVars, waitVars, useVars, coordVars>>

\* Beyond types: the counters stay below their thresholds, where the code stops
\* looking at how large they are.
TypeOK ==
  /\ pc \in [Node -> {"top", "recv", "using", "coord"}]
  /\ myState \in [Node -> State]
  /\ COORD_ID \in [Node -> Node \cup {None}]
  /\ queue \in [Node -> Seq(PeerMessage)]
  /\ rqueue \in [Node -> Seq(ResourceMessage)]
  /\ receivers \in [Node -> 0..2]
  /\ electionOpen \in [Node -> BOOLEAN]
  /\ iterTolerance \in [Node -> 0..(ITER_TH_TOLERANCE - 1)]
  /\ pinged \in [Node -> BOOLEAN]
  /\ requested \in [Node -> BOOLEAN]
  /\ cont \in [Node -> Nat]
  /\ granter \in [Node -> Node \cup {None}]
  /\ resourceUser \in [Node -> Node \cup {None}]
  /\ pingResourceUser \in [Node -> 0..RES_PING_TH]
  /\ checkAlive \in [Node -> BOOLEAN]
  /\ checkAliveTh \in [Node -> 0..RES_PING_TH]

\* The broker's node enters the loop as a candidate, the clients are idle in
\* their first receive and know no coordinator.
Init ==
  /\ pc = [n \in Node |-> IF n = 0 THEN "top" ELSE "recv"]
  /\ myState = [n \in Node |-> IF n = 0 THEN "CANDIDATE" ELSE "IDLE"]
  /\ COORD_ID = [n \in Node |-> None]
  /\ queue = [n \in Node |-> <<>>]
  /\ rqueue = [n \in Node |-> <<>>]
  /\ receivers = [n \in Node |-> 0]
  /\ electionOpen = [n \in Node |-> FALSE]
  /\ iterTolerance = [n \in Node |-> 0]
  /\ pinged = [n \in Node |-> FALSE]
  /\ requested = [n \in Node |-> FALSE]
  /\ cont = [n \in Node |-> 0]
  /\ granter = [n \in Node |-> None]
  /\ resourceUser = [n \in Node |-> None]
  /\ pingResourceUser = [n \in Node |-> 0]
  /\ checkAlive = [n \in Node |-> FALSE]
  /\ checkAliveTh = [n \in Node |-> 0]

-----------------------------------------------------------------------------
(* Queues *)

\* One copy of m at the end of the queue of every node of D.
Post(q, D, m) == [k \in Node |-> IF k \in D THEN Append(q[k], m) ELSE q[k]]

Received(n) == [queue EXCEPT ![n] = Tail(@)]

Set(f, n, v) == [f EXCEPT ![n] = v]

\* A message for the resource queue of the coordinator n believes in.  With no
\* coordinator it goes to "R--1", which nobody reads; and ActiveMQ may hand it
\* to a receiver of an earlier term, which nobody polls any more.
PostResource(n, type) ==
  LET c == COORD_ID[n]
  IN \/ /\ c # None
        /\ rqueue' = Set(rqueue, c, Append(rqueue[c], Msg(type, n)))
     \/ /\ c # None => receivers[c] = 2
        /\ rqueue' = rqueue

\* mutant: the new coordinator announces itself without its resource queue
createNoQueue(n) == UNCHANGED <<receivers, rqueue>>

\* createQueue("R-n", 1): a second receiver leaves what the first one was
\* handed out of reach.
createResourceQueue(n) ==
  /\ receivers' = Set(receivers, n, IF receivers[n] = 0 THEN 1 ELSE 2)
  /\ rqueue' = IF receivers[n] = 0 THEN rqueue ELSE Set(rqueue, n, <<>>)

-----------------------------------------------------------------------------
(* Top of the main loop *)

\* aliveOrDead() came out false; a candidate without coordinator survives.
Die(n) ==
  /\ pc[n] = "top"
  /\ myState[n] # "DEAD"
  /\ ~(COORD_ID[n] = None /\ myState[n] = "CANDIDATE")
  /\ myState' = Set(myState, n, "DEAD")
  /\ UNCHANGED <<pc, COORD_ID, netVars, waitVars, useVars, coordVars>>

\* convocateElection() and the bookkeeping both its callers do; q is the
\* queues with what was sent before it.
convocateElection(n, q) ==
  /\ COORD_ID' = Set(COORD_ID, n, None)
  /\ queue' = Post(q, Above(n), Msg("ELECTION_REQ", n))
  /\ electionOpen' = Set(electionOpen, n, TRUE)

\* A candidate convocates; a dead node that finds itself alive becomes a
\* candidate in the same turn of the loop.
StartElection(n) ==
  /\ pc[n] = "top"
  /\ myState[n] \in {"CANDIDATE", "DEAD"}
  /\ convocateElection(n, queue)
  /\ myState' = Set(myState, n, "IDLE")
  /\ UNCHANGED <<pc, rqueue, receivers, iterTolerance, pinged, requested,
                 useVars, coordVars>>

\* An idle node pings the coordinator it knows and starts to receive.
EnterIdle(n) ==
  /\ pc[n] = "top"
  /\ myState[n] = "IDLE"
  /\ pc' = Set(pc, n, "recv")
  /\ IF COORD_ID[n] # None
       THEN /\ queue' = Post(queue, {COORD_ID[n]}, Msg("COORD_PING", n))
            /\ pinged' = Set(pinged, n, TRUE)
       ELSE UNCHANGED <<queue, pinged>>
  /\ UNCHANGED <<myState, COORD_ID, rqueue, receivers, electionOpen,
                 iterTolerance, requested, useVars, coordVars>>

-----------------------------------------------------------------------------
(* The receive loop of an idle node *)

Receives(n, types) ==
  /\ pc[n] = "recv"
  /\ queue[n] # <<>>
  /\ Head(queue[n]).type \in types

Sender(n) == Head(queue[n]).from

RecvCoordinator(n) ==
  /\ Receives(n, {"COORDINATOR"})
  /\ COORD_ID' = Set(COORD_ID, n, Sender(n))
  /\ queue' = Received(n)
  /\ pc' = Set(pc, n, "top")
  /\ UNCHANGED <<myState, rqueue, receivers, waitVars, useVars, coordVars>>

\* mutant: acknowledges without convocating in turn
RecvElectionReqOnlyAck(n) ==
  /\ Receives(n, {"ELECTION_REQ"})
  /\ queue' = Post(Received(n), {Sender(n)}, Msg("ELECTION_ACK", n))
  /\ UNCHANGED <<pc, myState, COORD_ID, rqueue, receivers, waitVars, useVars, coordVars>>

\* The sender has a lower id: acknowledge, and convocate in turn.
RecvElectionReq(n) ==
  /\ Receives(n, {"ELECTION_REQ"})
  /\ iterTolerance' = Set(iterTolerance, n, 0)
  /\ pinged' = Set(pinged, n, FALSE)
  /\ convocateElection(n, Post(Received(n), {Sender(n)}, Msg("ELECTION_ACK", n)))
  /\ UNCHANGED <<pc, myState, rqueue, receivers, requested, useVars, coordVars>>

RecvElectionAck(n) ==
  /\ Receives(n, {"ELECTION_ACK"})
  /\ electionOpen' = Set(electionOpen, n, FALSE)
  /\ queue' = Received(n)
  /\ UNCHANGED <<pc, myState, COORD_ID, rqueue, receivers, iterTolerance,
                 pinged, requested, useVars, coordVars>>

\* The coordinator answered the ping: request the resource and keep
\* receiving, or sleep and go round the loop.
RecvCoordAlive(n) ==
  /\ Receives(n, {"COORD_ALIVE"})
  /\ pinged' = Set(pinged, n, FALSE)
  /\ queue' = Received(n)
  /\ \/ /\ requested' = Set(requested, n, TRUE)
        /\ PostResource(n, "RESOURCE_REQ")
        /\ pc' = pc
     \/ /\ pc' = Set(pc, n, "top")
        /\ UNCHANGED <<requested, rqueue>>
  /\ UNCHANGED <<myState, COORD_ID, receivers, electionOpen, iterTolerance,
                 useVars, coordVars>>

RecvGranted(n) ==
  /\ Receives(n, {"RESOURCE_RESP_Y"})
  /\ pc' = Set(pc, n, "using")
  /\ \E c \in UsePolls : cont' = Set(cont, n, c)
  /\ granter' = Set(granter, n, Sender(n))
  /\ queue' = Received(n)
  /\ UNCHANGED <<myState, COORD_ID, rqueue, receivers, waitVars, coordVars>>

RecvDenied(n) ==
  /\ Receives(n, {"RESOURCE_RESP_N"})
  /\ pc' = Set(pc, n, "top")
  /\ queue' = Received(n)
  /\ UNCHANGED <<myState, COORD_ID, rqueue, receivers, waitVars, useVars, coordVars>>

\* Messages the receive loop has no branch for are consumed.
RecvIgnored(n) ==
  /\ Receives(n, {"COORD_PING", "USER_ALIVE_CHECK", "USER_ALVIE_ACK"})
  /\ queue' = Received(n)
  /\ UNCHANGED <<pc, myState, COORD_ID, rqueue, receivers, waitVars, useVars, coordVars>>

-----------------------------------------------------------------------------
(* receive(timeout) of an idle node returned null *)

TimedOut(n) == pc[n] = "recv" /\ queue[n] = <<>>

\* The counter is incremented before it is compared: one more null reaches the
\* tolerance from ITER_TH_TOLERANCE - 1 on, where the model stops counting.
ToleranceOver(n) == iterTolerance[n] = ITER_TH_TOLERANCE - 1
WaitedPastTolerance(n) == iterTolerance[n] + 1  \* mutant: counts on
Waited(n) == IF ToleranceOver(n) THEN iterTolerance[n] ELSE iterTolerance[n] + 1

\* sendCoordinatorMsg(): the nodes with lower ids are told.
sendCoordinatorMsg(n) ==
  /\ myState' = Set(myState, n, "COORDINATOR")
  /\ queue' = Post(queue, Below(n), Msg("COORDINATOR", n))

\* Nobody acknowledged the election within the tolerance.
BecomeCoordinator(n) ==
  /\ TimedOut(n)
  /\ electionOpen[n] /\ ToleranceOver(n)
  /\ electionOpen' = Set(electionOpen, n, FALSE)
  /\ iterTolerance' = Set(iterTolerance, n, 0)
  /\ createResourceQueue(n)
  /\ sendCoordinatorMsg(n)
  /\ pc' = Set(pc, n, "top")
  /\ UNCHANGED <<COORD_ID, pinged, requested, useVars, coordVars>>

\* The coordinator did not answer the ping within the tolerance.
PingFailed(n) ==
  /\ TimedOut(n)
  /\ ~electionOpen[n]
  /\ pinged[n] /\ ToleranceOver(n)
  /\ iterTolerance' = Set(iterTolerance, n, 0)
  /\ pinged' = Set(pinged, n, FALSE)
  /\ myState' = Set(myState, n, "CANDIDATE")
  /\ pc' = Set(pc, n, "top")
  /\ UNCHANGED <<COORD_ID, netVars, electionOpen, requested, useVars, coordVars>>

\* No answer to a request, whatever the tolerance.
RequestFailed(n) ==
  /\ TimedOut(n)
  /\ requested[n]
  /\ ToleranceOver(n) => ~electionOpen[n] /\ ~pinged[n]
  /\ iterTolerance' = Set(iterTolerance, n, Waited(n))
  /\ requested' = Set(requested, n, FALSE)
  /\ myState' = Set(myState, n, "CANDIDATE")
  /\ pc' = Set(pc, n, "top")
  /\ UNCHANGED <<COORD_ID, netVars, electionOpen, pinged, useVars, coordVars>>

KeepWaiting(n) ==
  /\ TimedOut(n)
  /\ ~requested[n]
  /\ ToleranceOver(n) => ~electionOpen[n] /\ ~pinged[n]
  /\ iterTolerance' = Set(iterTolerance, n, Waited(n))
  /\ UNCHANGED <<pc, myState, COORD_ID, netVars, electionOpen, pinged, requested,
                 useVars, coordVars>>

-----------------------------------------------------------------------------
(* Using the resource *)

\* One turn of the use: whatever receiveNoWait returns is consumed, and an
\* alive check is answered to the node that granted the resource.
UsePoll(n) ==
  /\ pc[n] = "using"
  /\ cont[n] > 0
  /\ cont' = Set(cont, n, cont[n] - 1)
  /\ \/ /\ queue[n] = <<>>
        /\ queue' = queue
     \/ /\ queue[n] # <<>>
        /\ queue' = IF Head(queue[n]).type = "USER_ALIVE_CHECK"
                      THEN Post(Received(n), {granter[n]}, Msg("USER_ALVIE_ACK", n))
                      ELSE Received(n)
  /\ UNCHANGED <<pc, myState, COORD_ID, rqueue, receivers, waitVars, granter, coordVars>>

freeResource(n) ==
  /\ pc[n] = "using"
  /\ cont[n] = 0
  /\ PostResource(n, "FREE_RESOURCE")
  /\ granter' = Set(granter, n, None)
  /\ pc' = Set(pc, n, "top")
  /\ UNCHANGED <<myState, COORD_ID, queue, receivers, waitVars, cont, coordVars>>

-----------------------------------------------------------------------------
(* The coordinator: a turn of the loop looks at the resource queue, checks  *)
(* on the user, and then receives from its own queue                       *)

AtCoordinatorTop(n) == pc[n] = "top" /\ myState[n] = "COORDINATOR"

ReceivesResource(n, type) ==
  /\ AtCoordinatorTop(n)
  /\ rqueue[n] # <<>>
  /\ Head(rqueue[n]).type = type
  /\ rqueue' = Set(rqueue, n, Tail(rqueue[n]))

Requester(n) == Head(rqueue[n]).from

\* The rest of the turn up to the receive: the resource is now held by user,
\* and q is the queues with the answer to a request.
checkIfAlive(n, user, q) ==
  /\ resourceUser' = Set(resourceUser, n, user)
  /\ IF pingResourceUser[n] = RES_PING_TH /\ user # None
       THEN /\ checkAlive' = Set(checkAlive, n, TRUE)
            /\ pingResourceUser' = Set(pingResourceUser, n, 0)
            /\ queue' = Post(q, {user}, Msg("USER_ALIVE_CHECK", n))
       ELSE /\ checkAlive' = checkAlive
            /\ pingResourceUser' = Set(pingResourceUser, n,
                 IF pingResourceUser[n] < RES_PING_TH
                   THEN pingResourceUser[n] + 1 ELSE RES_PING_TH)
            /\ queue' = q
  /\ pc' = Set(pc, n, "coord")
  /\ UNCHANGED <<myState, COORD_ID, receivers, waitVars, useVars, checkAliveTh>>

GrantResource(n) ==
  /\ ReceivesResource(n, "RESOURCE_REQ")
  /\ resourceUser[n] = None
  /\ checkIfAlive(n, Requester(n), Post(queue, {Requester(n)}, Msg("RESOURCE_RESP_Y", n)))

DenyResource(n) ==
  /\ ReceivesResource(n, "RESOURCE_REQ")
  /\ resourceUser[n] # None
  /\ checkIfAlive(n, resourceUser[n], Post(queue, {Requester(n)}, Msg("RESOURCE_RESP_N", n)))

ResourceFreed(n) ==
  /\ ReceivesResource(n, "FREE_RESOURCE")
  /\ checkIfAlive(n, None, queue)

NoResourceMessage(n) ==
  /\ AtCoordinatorTop(n)
  /\ rqueue[n] = <<>>
  /\ rqueue' = rqueue
  /\ checkIfAlive(n, resourceUser[n], queue)

\* mutant: gives up checking, but forgets to free the resource
CoordTimeoutKeepsUser(n) ==
  /\ pc[n] = "coord"
  /\ queue[n] = <<>>
  /\ pc' = Set(pc, n, "top")
  /\ checkAlive' = Set(checkAlive, n, FALSE)
  /\ checkAliveTh' = Set(checkAliveTh, n, 0)
  /\ UNCHANGED <<myState, COORD_ID, netVars, waitVars, useVars, resourceUser,
                 pingResourceUser>>

\* receive(3000) returned null: the user is given up once it has left an
\* alive check unanswered for too long.
CoordTimeout(n) ==
  /\ pc[n] = "coord"
  /\ queue[n] = <<>>
  /\ pc' = Set(pc, n, "top")
  /\ IF checkAlive[n] /\ checkAliveTh[n] = RES_PING_TH
       THEN /\ checkAlive' = Set(checkAlive, n, FALSE)
            /\ checkAliveTh' = Set(checkAliveTh, n, 0)
            /\ resourceUser' = Set(resourceUser, n, None)
       ELSE /\ checkAliveTh' = Set(checkAliveTh, n,
                 IF checkAliveTh[n] < RES_PING_TH
                   THEN checkAliveTh[n] + 1 ELSE RES_PING_TH)
            /\ UNCHANGED <<checkAlive, resourceUser>>
  /\ UNCHANGED <<myState, COORD_ID, netVars, waitVars, useVars, pingResourceUser>>

CoordReceives(n, types) ==
  /\ pc[n] = "coord"
  /\ queue[n] # <<>>
  /\ Head(queue[n]).type \in types
  /\ pc' = Set(pc, n, "top")

\* mutant: the ping is consumed without an answer
CoordPingUnanswered(n) ==
  /\ CoordReceives(n, {"COORD_PING"})
  /\ queue' = Received(n)
  /\ UNCHANGED <<myState, COORD_ID, rqueue, receivers, waitVars, useVars, coordVars>>

CoordPing(n) ==
  /\ CoordReceives(n, {"COORD_PING"})
  /\ queue' = Post(Received(n), {Sender(n)}, Msg("COORD_ALIVE", n))
  /\ UNCHANGED <<myState, COORD_ID, rqueue, receivers, waitVars, useVars, coordVars>>

CoordUserAck(n) ==
  /\ CoordReceives(n, {"USER_ALVIE_ACK"})
  /\ queue' = Received(n)
  /\ checkAlive' = Set(checkAlive, n, FALSE)
  /\ checkAliveTh' = Set(checkAliveTh, n, 0)
  /\ pingResourceUser' = Set(pingResourceUser, n, 0)
  /\ UNCHANGED <<myState, COORD_ID, rqueue, receivers, waitVars, useVars, resourceUser>>

\* A new election or a new coordinator: the coordinator forgets the user and
\* becomes idle, without acknowledging and without learning who comes next.
StepDown(n) ==
  /\ CoordReceives(n, {"ELECTION_REQ", "COORDINATOR"})
  /\ queue' = Received(n)
  /\ resourceUser' = Set(resourceUser, n, None)
  /\ myState' = Set(myState, n, "IDLE")
  /\ UNCHANGED <<COORD_ID, rqueue, receivers, waitVars, useVars,
                 pingResourceUser, checkAlive, checkAliveTh>>

CoordIgnored(n) ==
  /\ CoordReceives(n, {"ELECTION_ACK", "COORD_ALIVE", "RESOURCE_RESP_Y",
                       "RESOURCE_RESP_N", "USER_ALIVE_CHECK"})
  /\ queue' = Received(n)
  /\ UNCHANGED <<myState, COORD_ID, rqueue, receivers, waitVars, useVars, coordVars>>

-----------------------------------------------------------------------------
TopStep(n) == Die(n) \/ StartElection(n) \/ EnterIdle(n)

RecvStep(n) ==
  \/ RecvCoordinator(n) \/ RecvElectionReq(n) \/ RecvElectionAck(n)
  \/ RecvCoordAlive(n) \/ RecvGranted(n) \/ RecvDenied(n) \/ RecvIgnored(n)

TimeoutStep(n) ==
  BecomeCoordinator(n) \/ PingFailed(n) \/ RequestFailed(n) \/ KeepWaiting(n)

UseStep(n) == UsePoll(n) \/ freeResource(n)

CoordStep(n) ==
  \/ GrantResource(n) \/ DenyResource(n) \/ ResourceFreed(n) \/ NoResourceMessage(n)
  \/ CoordTimeout(n) \/ CoordPing(n) \/ CoordUserAck(n) \/ StepDown(n) \/ CoordIgnored(n)

NodeStep(n) == TopStep(n) \/ RecvStep(n) \/ TimeoutStep(n) \/ UseStep(n) \/ CoordStep(n)

Next == \E n \in Node : NodeStep(n)

Spec == Init /\ [][Next]_vars

-----------------------------------------------------------------------------
(* Safety *)

\* What may stand in the queue of n: elections, pings and user answers come
\* from lower ids; announcements, acknowledgments, answers, grants and alive
\* checks from higher ones.
FromBelow == {"ELECTION_REQ", "COORD_PING", "USER_ALVIE_ACK"}
LegalTo(n) == {m \in PeerMessage : IF m.type \in FromBelow THEN m.from < n ELSE m.from > n}
LegalQueues(q) == \A n \in Node : q[n] \in Seq(LegalTo(n))
LegalResource(n) == {m \in ResourceMessage : m.from < n}

\* The order of the bully election pervades everything the nodes tell each
\* other: a node only ever follows, serves and grants along the order of the
\* ids, whatever dies, revives, times out or is answered late.  In particular
\* no node is its own coordinator, its own user or its own voter.
BullyOrder ==
  /\ LegalQueues(queue)
  /\ \A n \in Node : rqueue[n] \in Seq(LegalResource(n))
  /\ \A n \in Node : COORD_ID[n] # None => COORD_ID[n] > n
  /\ \A n \in Node : resourceUser[n] # None => resourceUser[n] < n
  /\ \A n \in Node : pc[n] = "using" => granter[n] > n

\* So the node with the highest id never gets to use the resource: it has no
\* coordinator to ask, even when it is idle.
HighestNeverUses ==
  /\ pc[N_CONNECTED] # "using"
  /\ \A n \in Node : resourceUser[n] # N_CONNECTED

ReadyMessage == {m \in PeerMessage : m.type = "COORDINATOR" => receivers[m.from] > 0}

\* Whoever is coordinator, has announced it, or is taken for it has created its
\* resource queue: getResourceReceiver() is not null (l. 713) and requests do
\* not go to a queue nobody ever opened.
CoordinatorReady ==
  /\ \A n \in Node : myState[n] = "COORDINATOR" => receivers[n] > 0
  /\ \A n \in Node : COORD_ID[n] # None => receivers[COORD_ID[n]] > 0
  /\ queue \in [Node -> Seq(ReadyMessage)]

\* An election of the node with the highest id ends in its takeover: nobody is
\* above it whose acknowledgment, however late, could close it.
HighestWinsItsElection ==
  [][electionOpen[N_CONNECTED] /\ ~electionOpen'[N_CONNECTED]
       => myState'[N_CONNECTED] = "COORDINATOR"]_vars

\* The nodes keep the promise of Election, whatever crosses on the way: what a
\* node believes of the others is old, but it was true.
E == INSTANCE Election WITH
  Highest <- N_CONNECTED,
  role <- myState,
  leader <- COORD_ID,
  standing <- {n \in Node : electionOpen[n]},
  served <- {n \in Node : receivers[n] > 0}
ImplementsElection == E!Spec

\* What the comment on the refused request says of the code: the resource is
\* denied "because another client is using it" (l. 692), so no two nodes use
\* it at a time.
MutualExclusion ==
  \A m, n \in Node : pc[m] = "using" /\ pc[n] = "using" => m = n

\* A node that can only wait for a message: it has no election open and no
\* answer outstanding whose absence would make it convocate one.
Passive(n) ==
  /\ pc[n] = "recv" /\ queue[n] = <<>>
  /\ ~electionOpen[n] /\ ~pinged[n] /\ ~requested[n]

\* An election goes on until somebody declares himself the coordinator (comment
\* at l. 604-607), and coordinators do not all stop without another election:
\* however acknowledgments, announcements and step-downs cross, some node still
\* has an election, a ping or a request open, a message to handle, or a loop to
\* go round.  A node that uses the resource drops what would tell it of
\* elections.  With three nodes that can be enough to break this (MCWedge), but
\* only if the second highest is one that does (CausesProofs).
NoWedge == \E n \in Node : ~Passive(n)
=============================================================================

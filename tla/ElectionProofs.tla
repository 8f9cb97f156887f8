---------------------------- MODULE ElectionProofs ----------------------------
(***************************************************************************)
(* The nodes of GenericClient implement Election, for every number of      *)
(* nodes: each step of a node is a step of the election or leaves it       *)
(* alone.                                                                  *)
(***************************************************************************)
EXTENDS GenericClientProofs

\* A node receives and uses the resource only while it is idle, and reads as a
\* coordinator only while it is one: a change of myState is made at the top of
\* the loop or sends the node back there.
AtHome ==
  \A n \in Node :
    /\ pc[n] \in {"recv", "using"} => myState[n] = "IDLE"
    /\ pc[n] = "coord" => myState[n] = "COORDINATOR"

\* Whoever answers a ping has been coordinator.
AliveMessage == {m \in PeerMessage : m.type = "COORD_ALIVE" => receivers[m.from] > 0}
AliveReady == queue \in [Node -> Seq(AliveMessage)]

\* A node that waits for a coordinator has heard of one above itself.
Knew == \A n \in Node : pinged[n] \/ requested[n] => \E m \in Node : m > n /\ receivers[m] > 0

IInv == TypeOK /\ BullyOrder /\ CoordinatorReady /\ AtHome /\ AliveReady /\ Knew

-----------------------------------------------------------------------------
(* The inductive invariant *)

\* The first candidate is at the top of its loop, the other nodes are idle, and
\* nothing has been sent.
LEMMA HomeInit == Init => AtHome /\ AliveReady /\ Knew
<1> SUFFICES ASSUME Init PROVE AtHome /\ AliveReady /\ Knew
  OBVIOUS
<1>1. AtHome
  BY DEF Init, AtHome
<1>2. AliveReady
  BY EmptySeq DEF Init, AliveReady
<1>3. Knew
  BY DEF Init, Knew
<1> QED
  BY <1>1, <1>2, <1>3

\* A step of the loop leaves every node where its state belongs.
LEMMA HomeStep ==
  ASSUME TypeOK, AtHome, NEW n \in Node, NodeStep(n)
  PROVE  AtHome'
<1>1. CASE TopStep(n)
  <2>1. CASE Die(n)
    BY <1>1, <2>1 DEF Die, AtHome, TypeOK, Set
  <2>2. CASE StartElection(n)
    BY <2>2 DEF StartElection, AtHome, TypeOK, Set
  <2>3. CASE EnterIdle(n)
    BY <2>3 DEF EnterIdle, AtHome, TypeOK, Set
  <2> QED
    BY <1>1, <2>1, <2>2, <2>3 DEF TopStep
<1>2. CASE RecvStep(n)
  <2>1. CASE RecvGranted(n)
    BY <2>1 DEF RecvGranted, Receives, AtHome, TypeOK, Set
  <2>2. CASE pc' \in {pc, Set(pc, n, "top")} /\ UNCHANGED myState
    BY <2>2 DEF AtHome, TypeOK, Set
  <2> QED
    BY <1>2, <2>1, <2>2
    DEF RecvStep, RecvCoordinator, RecvElectionReq, RecvElectionAck, RecvCoordAlive,
        RecvDenied, RecvIgnored
<1>3. CASE TimeoutStep(n)
  <2>1. CASE BecomeCoordinator(n)
    BY <2>1 DEF BecomeCoordinator, sendCoordinatorMsg, AtHome, TypeOK, Set
  <2>2. CASE PingFailed(n)
    BY <2>2 DEF PingFailed, AtHome, TypeOK, Set
  <2>3. CASE RequestFailed(n)
    BY <2>3 DEF RequestFailed, AtHome, TypeOK, Set
  <2>4. CASE KeepWaiting(n)
    BY <2>4 DEF KeepWaiting, AtHome
  <2> QED
    BY <1>3, <2>1, <2>2, <2>3, <2>4 DEF TimeoutStep
<1>4. CASE UseStep(n)
  BY <1>4 DEF UseStep, UsePoll, freeResource, AtHome, TypeOK, Set
<1>5. CASE CoordStep(n)
  <2>1. CASE pc[n] = "top" /\ myState[n] = "COORDINATOR" /\ pc' = Set(pc, n, "coord") /\ UNCHANGED myState
    BY <2>1 DEF AtHome, TypeOK, Set
  <2>2. CASE pc' = Set(pc, n, "top") /\ UNCHANGED myState
    BY <2>2 DEF AtHome, TypeOK, Set
  <2>3. CASE StepDown(n)
    BY <2>3 DEF StepDown, CoordReceives, AtHome, TypeOK, Set
  <2> QED
    BY <1>5, <2>1, <2>2, <2>3
    DEF CoordStep, GrantResource, DenyResource, ResourceFreed, NoResourceMessage,
        ReceivesResource, AtCoordinatorTop, checkIfAlive, CoordTimeout, CoordPing,
        CoordUserAck, CoordIgnored, CoordReceives
<1> QED
  BY <1>1, <1>2, <1>3, <1>4, <1>5 DEF NodeStep

\* A step of n changes nothing of another node but its queues.
LEMMA OtherNodeUndisturbed ==
  ASSUME NEW n \in Node, NodeStep(n), NEW k \in Node, k # n, TypeOK
  PROVE  /\ pc'[k] = pc[k] /\ myState'[k] = myState[k]
         /\ COORD_ID'[k] = COORD_ID[k] /\ electionOpen'[k] = electionOpen[k]
         /\ pinged'[k] = pinged[k] /\ requested'[k] = requested[k]
<1>1. CASE TopStep(n)
  BY <1>1 DEF TopStep, Die, StartElection, EnterIdle, convocateElection, waitVars, Set, TypeOK
<1>2. CASE RecvStep(n)
  BY <1>2 DEF RecvStep, RecvCoordinator, RecvElectionReq, RecvElectionAck, RecvCoordAlive,
              RecvGranted, RecvDenied, RecvIgnored, convocateElection, waitVars, Set, TypeOK
<1>3. CASE TimeoutStep(n)
  BY <1>3 DEF TimeoutStep, BecomeCoordinator, PingFailed, RequestFailed, KeepWaiting,
              sendCoordinatorMsg, waitVars, Set, TypeOK
<1>4. CASE UseStep(n)
  BY <1>4 DEF UseStep, UsePoll, freeResource, waitVars, Set, TypeOK
<1>5. CASE CoordStep(n)
  BY <1>5 DEF CoordStep, GrantResource, DenyResource, ResourceFreed, NoResourceMessage,
              checkIfAlive, CoordTimeout, CoordPing, CoordUserAck, StepDown, CoordIgnored,
              CoordReceives, waitVars, Set, TypeOK
<1> QED
  BY <1>1, <1>2, <1>3, <1>4, <1>5 DEF NodeStep

\* A resource queue, once created, stays.
LEMMA ReceiversGrow ==
  ASSUME TypeOK, NEW n \in Node, NodeStep(n)
  PROVE  \A k \in Node : receivers[k] > 0 => receivers'[k] > 0
<1>1. CASE BecomeCoordinator(n)
  BY <1>1 DEF BecomeCoordinator, createResourceQueue, TypeOK, Set
<1>2. CASE UNCHANGED receivers
  BY <1>2
<1> QED
  BY <1>1, <1>2
  DEF NodeStep, TopStep, RecvStep, TimeoutStep, UseStep, CoordStep, Die, StartElection,
      EnterIdle, RecvCoordinator, RecvElectionReq, RecvElectionAck, RecvCoordAlive,
      RecvGranted, RecvDenied, RecvIgnored, PingFailed, RequestFailed, KeepWaiting,
      UsePoll, freeResource, GrantResource, DenyResource, ResourceFreed,
      NoResourceMessage, checkIfAlive, CoordTimeout, CoordPing, CoordUserAck, StepDown,
      CoordIgnored, netVars

\* What a step may do to the queues: post messages of the node, the answer to a
\* ping only if it is coordinator, after it has taken the first message off its
\* own queue, where it receives.  So the queues stay in every set of queues that
\* this keeps.
LEMMA QueueStep ==
  ASSUME TypeOK, AtHome, NEW n \in Node, NodeStep(n),
         NEW Q, queue \in Q,
         queue[n] # <<>> /\ pc[n] # "top" => Received(n) \in Q,
         \A q \in Q, t \in PeerType \ {"COORD_ALIVE"} : \A D : Post(q, D, Msg(t, n)) \in Q,
         myState[n] = "COORDINATOR" =>
           \A q \in Q : \A D : Post(q, D, Msg("COORD_ALIVE", n)) \in Q
  PROVE  queue' \in Q
<1>1. ASSUME queue[n] # <<>>, pc[n] # "top" PROVE Received(n) \in Q
  BY <1>1
<1>2. ASSUME NEW D, NEW q \in Q, NEW t \in PeerType \ {"COORD_ALIVE"}
      PROVE  Post(q, D, Msg(t, n)) \in Q
  BY <1>2
<1>3. CASE TopStep(n)
  <2>1. CASE Die(n)
    BY <2>1 DEF Die, netVars
  <2>2. CASE StartElection(n)
    BY <1>2, <2>2 DEF StartElection, convocateElection, PeerType
  <2>3. CASE EnterIdle(n)
    <3>1. CASE queue' = queue
      BY <3>1
    <3>2. CASE queue' = Post(queue, {COORD_ID[n]}, Msg("COORD_PING", n))
      BY <1>2, <3>2 DEF PeerType
    <3> QED
      BY <2>3, <3>1, <3>2 DEF EnterIdle
  <2> QED
    BY <1>3, <2>1, <2>2, <2>3 DEF TopStep
<1>4. CASE RecvStep(n)
  <2>1. queue[n] # <<>> /\ pc[n] = "recv"
    BY <1>4 DEF RecvStep, Receives, RecvCoordinator, RecvElectionReq, RecvElectionAck,
                RecvCoordAlive, RecvGranted, RecvDenied, RecvIgnored
  <2>2. CASE RecvElectionReq(n)
    <3>1. Post(Received(n), {Sender(n)}, Msg("ELECTION_ACK", n)) \in Q
      BY <1>1, <1>2, <2>1 DEF PeerType
    <3> QED
      BY <1>2, <2>2, <3>1 DEF RecvElectionReq, convocateElection, PeerType
  <2>3. CASE queue' = Received(n)
    BY <1>1, <2>1, <2>3
  <2> QED
    BY <1>4, <2>2, <2>3
    DEF RecvStep, RecvCoordinator, RecvElectionAck, RecvCoordAlive, RecvGranted,
        RecvDenied, RecvIgnored
<1>5. CASE TimeoutStep(n)
  <2>1. CASE BecomeCoordinator(n)
    BY <1>2, <2>1 DEF BecomeCoordinator, sendCoordinatorMsg, PeerType
  <2>2. CASE UNCHANGED queue
    BY <2>2
  <2> QED
    BY <1>5, <2>1, <2>2 DEF TimeoutStep, PingFailed, RequestFailed, KeepWaiting, netVars
<1>6. CASE UseStep(n)
  <2>1. CASE queue' = queue
    BY <2>1
  <2>2. CASE queue[n] # <<>> /\ pc[n] = "using" /\ queue' = Received(n)
    BY <1>1, <2>2
  <2>3. CASE /\ queue[n] # <<>> /\ pc[n] = "using"
             /\ queue' = Post(Received(n), {granter[n]}, Msg("USER_ALVIE_ACK", n))
    BY <1>1, <1>2, <2>3 DEF PeerType
  <2> QED
    BY <1>6, <2>1, <2>2, <2>3 DEF UseStep, UsePoll, freeResource
<1>7. CASE CoordStep(n)
  <2>1. ASSUME NEW user, NEW q \in Q, checkIfAlive(n, user, q)
        PROVE  queue' \in Q
    <3>1. CASE queue' = q
      BY <2>1, <3>1
    <3>2. CASE queue' = Post(q, {user}, Msg("USER_ALIVE_CHECK", n))
      BY <1>2, <3>2 DEF PeerType
    <3> QED
      BY <2>1, <3>1, <3>2 DEF checkIfAlive
  <2>2. CASE GrantResource(n)
    BY <1>2, <2>1, <2>2 DEF GrantResource, PeerType
  <2>3. CASE DenyResource(n)
    BY <1>2, <2>1, <2>3 DEF DenyResource, PeerType
  <2>4. CASE ResourceFreed(n) \/ NoResourceMessage(n)
    BY <2>1, <2>4 DEF ResourceFreed, NoResourceMessage
  <2>5. CASE CoordTimeout(n)
    BY <2>5 DEF CoordTimeout, netVars
  <2>6. CASE CoordPing(n)
    <3>1. pc[n] = "coord" /\ queue[n] # <<>>
      BY <2>6 DEF CoordPing, CoordReceives
    <3>2. myState[n] = "COORDINATOR"
      BY <3>1 DEF AtHome
    <3>3. Received(n) \in Q
      BY <1>1, <3>1
    <3> QED
      BY <2>6, <3>2, <3>3 DEF CoordPing
  <2>7. CASE CoordUserAck(n) \/ StepDown(n) \/ CoordIgnored(n)
    BY <1>1, <2>7 DEF CoordUserAck, StepDown, CoordIgnored, CoordReceives
  <2> QED
    BY <1>7, <2>2, <2>3, <2>4, <2>5, <2>6, <2>7 DEF CoordStep
<1> QED
  BY <1>3, <1>4, <1>5, <1>6, <1>7 DEF NodeStep

\* Every answer to a ping comes from a node that has been coordinator.
LEMMA AliveStep ==
  ASSUME TypeOK, CoordinatorReady, AtHome, AliveReady, NEW n \in Node, NodeStep(n)
  PROVE  AliveReady'
<1>1. AliveMessage \subseteq AliveMessage'
  BY ReceiversGrow DEF AliveMessage, PeerMessage
<1> DEFINE Q == [Node -> Seq(AliveMessage')]
<1>2. queue \in Q
  BY <1>1, SeqMonotone DEF AliveReady
<1>3. \A t \in PeerType \ {"COORD_ALIVE"} : Msg(t, n) \in AliveMessage'
  BY MsgType DEF AliveMessage, Msg
<1>4. ASSUME myState[n] = "COORDINATOR" PROVE Msg("COORD_ALIVE", n) \in AliveMessage'
  <2>1. receivers'[n] > 0
    BY <1>4, ReceiversGrow DEF CoordinatorReady
  <2> QED
    BY <2>1, MsgType DEF AliveMessage, Msg, PeerType
<1>5. queue[n] # <<>> => Received(n) \in Q
  BY <1>2, TakeType DEF Received
<1>6. \A q \in Q, t \in PeerType \ {"COORD_ALIVE"} : \A D : Post(q, D, Msg(t, n)) \in Q
  BY <1>3, PostType
<1>7. myState[n] = "COORDINATOR" =>
        \A q \in Q : \A D : Post(q, D, Msg("COORD_ALIVE", n)) \in Q
  BY <1>4, PostType
<1>8. queue' \in Q
  <2> HIDE DEF Q
  <2> QED
    BY <1>2, <1>5, <1>6, <1>7, QueueStep
<1> QED
  BY <1>8 DEF AliveReady

\* A node pings the coordinator it follows, and requests the resource when one
\* has answered: both are above it and have been coordinator.
LEMMA KnewStep ==
  ASSUME TypeOK, BullyOrder, CoordinatorReady, AliveReady, Knew,
         NEW n \in Node, NodeStep(n)
  PROVE  Knew'
<1> SUFFICES ASSUME NEW k \in Node, pinged'[k] \/ requested'[k]
             PROVE  \E m \in Node : m > k /\ receivers'[m] > 0
  BY DEF Knew
<1>1. CASE pinged[k] \/ requested[k]
  BY <1>1, ReceiversGrow DEF Knew
<1>2. CASE EnterIdle(n)
  <2>1. COORD_ID[n] \in Node \cup {None}
    BY DEF TypeOK
  <2>2. CASE k = n /\ COORD_ID[n] # None
    BY <2>1, <2>2, ReceiversGrow DEF BullyOrder, CoordinatorReady
  <2>3. CASE pinged[k] \/ requested[k]
    BY <1>1, <2>3
  <2> QED
    BY <1>2, <2>2, <2>3 DEF EnterIdle, Set, TypeOK
<1>3. CASE RecvCoordAlive(n)
  <2>1. CASE k = n
    <3>1. queue[n] # <<>> /\ Head(queue[n]).type = "COORD_ALIVE"
      BY <1>3 DEF RecvCoordAlive, Receives
    <3>2. Head(queue[n]) \in LegalTo(n)
      BY <3>1, ReceivedLegal
    <3>3. Head(queue[n]) \in AliveMessage
      BY <3>1, TakeType DEF AliveReady
    <3>4. /\ Head(queue[n]).from \in Node
          /\ Head(queue[n]).from > n
          /\ receivers[Head(queue[n]).from] > 0
      BY <3>1, <3>2, <3>3 DEF LegalTo, FromBelow, AliveMessage, PeerMessage
    <3> QED
      BY <2>1, <3>4, ReceiversGrow
  <2>2. CASE k # n
    BY <1>1, <1>3, <2>2 DEF RecvCoordAlive, Set, TypeOK
  <2> QED
    BY <2>1, <2>2
<1>4. CASE pinged' \in {pinged, Set(pinged, n, FALSE)} /\ requested' \in {requested, Set(requested, n, FALSE)}
  BY <1>1, <1>4 DEF Set, TypeOK
<1> QED
  BY <1>2, <1>3, <1>4
  DEF NodeStep, TopStep, RecvStep, TimeoutStep, UseStep, CoordStep, Die, StartElection,
      RecvCoordinator, RecvElectionReq, RecvElectionAck, RecvGranted, RecvDenied,
      RecvIgnored, BecomeCoordinator, PingFailed, RequestFailed, KeepWaiting, UsePoll,
      freeResource, GrantResource, DenyResource, ResourceFreed, NoResourceMessage,
      checkIfAlive, CoordTimeout, CoordPing, CoordUserAck, StepDown, CoordIgnored, waitVars

\* A step of a node keeps the whole of the invariant.
LEMMA InvariantStep ==
  ASSUME IInv, NEW n \in Node, NodeStep(n)
  PROVE  AtHome' /\ AliveReady' /\ Knew'
BY HomeStep, AliveStep, KnewStep DEF IInv

\* Where the nodes are, who has answered a ping and who waits for an answer
\* stay consistent with who has been coordinator.
THEOREM InductiveInvariant == Spec => []IInv
<1>1. IInv /\ [Next]_vars => AtHome' /\ AliveReady' /\ Knew'
  <2> SUFFICES ASSUME IInv, [Next]_vars PROVE AtHome' /\ AliveReady' /\ Knew'
    OBVIOUS
  <2>1. CASE UNCHANGED vars
    <3>1. UNCHANGED <<pc, myState, queue, receivers, pinged, requested>>
      BY <2>1 DEF vars, netVars, waitVars
    <3>2. AliveMessage' = AliveMessage
      BY <3>1 DEF AliveMessage
    <3> QED
      BY <3>1, <3>2 DEF IInv, AtHome, AliveReady, Knew
  <2>2. ASSUME NEW n \in Node, NodeStep(n) PROVE AtHome' /\ AliveReady' /\ Knew'
    BY <2>2, InvariantStep
  <2> QED
    BY <2>1, <2>2 DEF Next
<1> QED
  BY HomeInit, <1>1, TypeCorrect, BullyOrderHolds, CoordinatorReadyHolds, PTL DEF Spec, IInv

-----------------------------------------------------------------------------
(* Refinement *)

\* The election sees the nodes and the absence of a coordinator as the nodes do.
LEMMA SameNodes == E!Node = Node /\ E!Nobody = None
BY DEF E!Node, E!Nobody, Node, None

\* What the election does not see of a node's step.
LEMMA Stutters ==
  ASSUME UNCHANGED <<myState, COORD_ID, electionOpen, receivers>>
  PROVE  UNCHANGED E!electionVars
BY DEF E!electionVars

\* Opening, keeping and closing an election, as the set of those who have one
\* open sees it.
LEMMA Standing ==
  ASSUME TypeOK, NEW n \in Node
  PROVE  /\ electionOpen' = Set(electionOpen, n, TRUE) =>
              {k \in Node : electionOpen'[k]} = {k \in Node : electionOpen[k]} \cup {n}
         /\ electionOpen' = Set(electionOpen, n, FALSE) =>
              {k \in Node : electionOpen'[k]} = {k \in Node : electionOpen[k]} \ {n}
<1>1. electionOpen \in [Node -> BOOLEAN]
  BY DEF TypeOK
<1> QED
  BY <1>1 DEF Set

\* A node above k that has been coordinator.
LEMMA ServedAboveIs ==
  ASSUME NEW k \in Node
  PROVE  E!ServedAbove(k) = {m \in Node : receivers[m] > 0 /\ m > k}
BY DEF E!ServedAbove

\* Dying, and standing of one's own accord; a ping is none of the election's.
LEMMA TopImplements ==
  ASSUME IInv, NEW n \in Node, TopStep(n)
  PROVE  E!Next \/ UNCHANGED E!electionVars
<1>1. CASE Die(n)
  <2>1. E!Die(n)
    BY <1>1, SameNodes DEF Die, E!Die, E!Become, Set, netVars, waitVars
  <2> QED
    BY <2>1, SameNodes DEF E!Next
<1>2. CASE StartElection(n)
  <2>1. E!Stand(n)
    BY <1>2, SameNodes, Standing
    DEF StartElection, convocateElection, E!Stand, E!Become, Set, IInv
  <2> QED
    BY <2>1, SameNodes DEF E!Next
<1>3. CASE EnterIdle(n)
  BY <1>3, Stutters DEF EnterIdle
<1> QED
  BY <1>1, <1>2, <1>3 DEF TopStep

\* What an idle node receives: it follows, stands, or withdraws.
LEMMA RecvImplements ==
  ASSUME IInv, NEW n \in Node, RecvStep(n)
  PROVE  E!Next \/ UNCHANGED E!electionVars
<1>0. /\ queue[n] # <<>>
      /\ pc[n] = "recv"
  BY DEF RecvStep, Receives, RecvCoordinator, RecvElectionReq, RecvElectionAck,
         RecvCoordAlive, RecvGranted, RecvDenied, RecvIgnored
<1>1. myState[n] = "IDLE"
  BY <1>0 DEF IInv, AtHome
<1>2. Head(queue[n]) \in LegalTo(n) /\ Head(queue[n]) \in ReadyMessage
  BY <1>0, ReceivedLegal, ReceivedReady DEF IInv
<1>3. CASE RecvCoordinator(n)
  <2>1. Head(queue[n]).type = "COORDINATOR"
    BY <1>3 DEF RecvCoordinator, Receives
  <2>2. Sender(n) \in Node /\ Sender(n) > n /\ receivers[Sender(n)] > 0
    BY <1>2, <2>1 DEF LegalTo, FromBelow, ReadyMessage, PeerMessage, Sender
  <2>3. Sender(n) \in E!ServedAbove(n)
    BY <2>2, ServedAboveIs
  <2>4. E!Follow(n)
    BY <1>1, <1>3, <2>3 DEF RecvCoordinator, E!Follow, Set, waitVars
  <2> QED
    BY <2>4, SameNodes DEF E!Next
<1>4. CASE RecvElectionReq(n)
  <2>1. myState = [myState EXCEPT ![n] = "IDLE"]
    BY <1>1 DEF IInv, TypeOK
  <2>2. E!Stand(n)
    BY <1>1, <1>4, <2>1, SameNodes, Standing
    DEF RecvElectionReq, convocateElection, E!Stand, E!Become, Set, IInv
  <2> QED
    BY <2>2, SameNodes DEF E!Next
<1>5. CASE RecvElectionAck(n)
  <2>1. Head(queue[n]).type = "ELECTION_ACK"
    BY <1>5 DEF RecvElectionAck, Receives
  <2>2. n # N_CONNECTED
    BY <1>2, <2>1, NodesAssumption DEF LegalTo, FromBelow, PeerMessage, Node
  <2>3. E!Withdraw(n)
    BY <1>1, <1>5, <2>2, Standing DEF RecvElectionAck, E!Withdraw, IInv
  <2> QED
    BY <2>3, SameNodes DEF E!Next
<1>6. CASE RecvCoordAlive(n) \/ RecvGranted(n) \/ RecvDenied(n) \/ RecvIgnored(n)
  BY <1>6, Stutters DEF RecvCoordAlive, RecvGranted, RecvDenied, RecvIgnored, waitVars
<1> QED
  BY <1>3, <1>4, <1>5, <1>6 DEF RecvStep

\* What an idle node makes of an empty receive: it wins or it doubts.
LEMMA TimeoutImplements ==
  ASSUME IInv, NEW n \in Node, TimeoutStep(n)
  PROVE  E!Next \/ UNCHANGED E!electionVars
<1>1. myState[n] = "IDLE"
  BY DEF TimeoutStep, BecomeCoordinator, PingFailed, RequestFailed, KeepWaiting, TimedOut,
         IInv, AtHome
<1>2. CASE BecomeCoordinator(n)
  <2>1. {k \in Node : receivers'[k] > 0} = {k \in Node : receivers[k] > 0} \cup {n}
    BY <1>2 DEF BecomeCoordinator, createResourceQueue, Set, IInv, TypeOK
  <2>2. E!Win(n)
    BY <1>1, <1>2, <2>1, Standing
    DEF BecomeCoordinator, sendCoordinatorMsg, E!Win, E!Become, Set, IInv
  <2> QED
    BY <2>2, SameNodes DEF E!Next
<1>3. CASE PingFailed(n) \/ RequestFailed(n)
  <2>1. pinged[n] \/ requested[n]
    BY <1>3 DEF PingFailed, RequestFailed
  <2>2. E!ServedAbove(n) # {}
    BY <2>1, ServedAboveIs DEF IInv, Knew
  <2>3. E!Doubt(n)
    BY <1>1, <1>3, <2>2
    DEF PingFailed, RequestFailed, E!Doubt, E!Become, Set, netVars
  <2> QED
    BY <2>3, SameNodes DEF E!Next
<1>4. CASE KeepWaiting(n)
  BY <1>4, Stutters DEF KeepWaiting, netVars
<1> QED
  BY <1>2, <1>3, <1>4 DEF TimeoutStep

\* A coordinator steps down for a node below that stands or a coordinator
\* above; nothing else it does is the election's.
LEMMA CoordImplements ==
  ASSUME IInv, NEW n \in Node, CoordStep(n)
  PROVE  E!Next \/ UNCHANGED E!electionVars
<1>1. CASE StepDown(n)
  <2>1. /\ pc[n] = "coord" /\ queue[n] # <<>>
        /\ Head(queue[n]).type \in {"ELECTION_REQ", "COORDINATOR"}
    BY <1>1 DEF StepDown, CoordReceives
  <2>2. myState[n] = "COORDINATOR"
    BY <2>1 DEF IInv, AtHome
  <2>3. Head(queue[n]) \in LegalTo(n) /\ Head(queue[n]) \in ReadyMessage
    BY <2>1, ReceivedLegal, ReceivedReady DEF IInv
  <2>4. n > 0 \/ E!ServedAbove(n) # {}
    <3>1. CASE Head(queue[n]).type = "ELECTION_REQ"
      BY <2>3, <3>1, NodesAssumption DEF LegalTo, FromBelow, PeerMessage, Node
    <3>2. CASE Head(queue[n]).type = "COORDINATOR"
      BY <2>3, <3>2, ServedAboveIs DEF LegalTo, FromBelow, ReadyMessage, PeerMessage
    <3> QED
      BY <2>1, <3>1, <3>2
  <2>5. E!StepDown(n)
    BY <1>1, <2>2, <2>4 DEF StepDown, E!StepDown, E!Become, Set, waitVars
  <2> QED
    BY <2>5, SameNodes DEF E!Next
<1>2. CASE UNCHANGED <<myState, COORD_ID, electionOpen, receivers>>
  BY <1>2, Stutters
<1> QED
  BY <1>1, <1>2
  DEF CoordStep, GrantResource, DenyResource, ResourceFreed, NoResourceMessage,
      checkIfAlive, CoordTimeout, CoordPing, CoordUserAck, CoordIgnored, netVars, waitVars

\* Whatever crosses on the way, only a node that stands becomes coordinator, a
\* node follows and doubts only nodes above it that have been coordinator, and
\* nobody talks the highest node out of an election.
THEOREM ImplementsElectionHolds == Spec => ImplementsElection
<1>1. Init => E!Init
  BY SameNodes DEF Init, E!Init
<1>2. IInv /\ [Next]_vars => [E!Next]_E!electionVars
  <2> SUFFICES ASSUME IInv, [Next]_vars PROVE E!Next \/ UNCHANGED E!electionVars
    OBVIOUS
  <2>1. CASE UNCHANGED vars
    BY <2>1, Stutters DEF vars, netVars, waitVars
  <2>2. ASSUME NEW n \in Node, UseStep(n) PROVE UNCHANGED E!electionVars
    BY <2>2, Stutters DEF UseStep, UsePoll, freeResource, waitVars
  <2>3. ASSUME NEW n \in Node, NodeStep(n) PROVE E!Next \/ UNCHANGED E!electionVars
    BY <2>2, <2>3, TopImplements, RecvImplements, TimeoutImplements, CoordImplements
    DEF NodeStep
  <2> QED
    BY <2>1, <2>3 DEF Next
<1> QED
  BY <1>1, <1>2, InductiveInvariant, PTL DEF Spec, ImplementsElection, E!Spec
=============================================================================

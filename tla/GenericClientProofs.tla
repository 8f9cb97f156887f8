------------------------- MODULE GenericClientProofs -------------------------
(***************************************************************************)
(* Theorems about GenericClient, for every number of nodes and every value *)
(* of the thresholds.                                                      *)
(***************************************************************************)
EXTENDS GenericClient, SequenceTheorems, TLAPS

-----------------------------------------------------------------------------
(* Lemmas about the queues *)

\* Posting an element of S to queues of elements of S.
LEMMA PostType ==
  ASSUME NEW S, NEW q \in [Node -> Seq(S)], NEW D, NEW m \in S
  PROVE  Post(q, D, m) \in [Node -> Seq(S)]
BY AppendProperties DEF Post

\* Taking the head off a queue of elements of S, which is an element of S.
LEMMA TakeType ==
  ASSUME NEW S, NEW q \in [Node -> Seq(S)], NEW n \in Node, q[n] # <<>>
  PROVE  /\ Head(q[n]) \in S
         /\ [q EXCEPT ![n] = Tail(@)] \in [Node -> Seq(S)]
BY HeadTailProperties

\* The messages the nodes build are messages.
LEMMA MsgType ==
  ASSUME NEW n \in Node
  PROVE  /\ \A t \in PeerType : Msg(t, n) \in PeerMessage
         /\ \A t \in ResourceType : Msg(t, n) \in ResourceMessage
BY DEF Msg, PeerMessage, ResourceMessage

\* Writing to a resource queue, lost or not, keeps the queues' type.
LEMMA PostResourceType ==
  ASSUME TypeOK, NEW n \in Node, NEW t \in ResourceType, PostResource(n, t)
  PROVE  rqueue' \in [Node -> Seq(ResourceMessage)]
<1>1. rqueue \in [Node -> Seq(ResourceMessage)] /\ Msg(t, n) \in ResourceMessage
  BY MsgType DEF TypeOK
<1>2. COORD_ID[n] = None \/ COORD_ID[n] \in Node
  BY DEF TypeOK
<1>3. CASE rqueue' = rqueue
  BY <1>1, <1>3
<1>4. CASE /\ COORD_ID[n] # None
           /\ rqueue' = Set(rqueue, COORD_ID[n], Append(rqueue[COORD_ID[n]], Msg(t, n)))
  <2>1. Append(rqueue[COORD_ID[n]], Msg(t, n)) \in Seq(ResourceMessage)
    BY <1>1, <1>2, <1>4, AppendProperties
  <2> QED
    BY <1>1, <1>4, <2>1 DEF Set
<1> QED
  BY <1>3, <1>4 DEF PostResource

-----------------------------------------------------------------------------
(* Type correctness *)

\* Every variable starts in its type.
LEMMA TypeInit == Init => TypeOK
<1> SUFFICES ASSUME Init PROVE TypeOK
  OBVIOUS
<1> QED
  BY NodesAssumption, ToleranceAssumption, PingAssumption, EmptySeq
  DEF Init, TypeOK, Node, None, State

\* Dying, convocating and pinging keep the types.
LEMMA TypeTop ==
  ASSUME TypeOK, NEW n \in Node, TopStep(n)
  PROVE  TypeOK'
<1>1. CASE Die(n)
  BY <1>1 DEF Die, TypeOK, Set, State, netVars, waitVars, useVars, coordVars
<1>2. CASE StartElection(n)
  BY <1>2, PostType, MsgType
  DEF StartElection, convocateElection, TypeOK, Set, State, PeerType, useVars, coordVars
<1>3. CASE EnterIdle(n)
  <2>1. queue' \in [Node -> Seq(PeerMessage)]
    <3>1. queue \in [Node -> Seq(PeerMessage)] /\ Msg("COORD_PING", n) \in PeerMessage
      BY MsgType DEF TypeOK, PeerType
    <3>2. CASE queue' = queue
      BY <3>1, <3>2
    <3>3. CASE queue' = Post(queue, {COORD_ID[n]}, Msg("COORD_PING", n))
      BY <3>1, <3>3, PostType
    <3> QED
      BY <1>3, <3>2, <3>3 DEF EnterIdle
  <2> QED
    BY <1>3, <2>1 DEF EnterIdle, TypeOK, Set, State, useVars, coordVars
<1> QED
  BY <1>1, <1>2, <1>3 DEF TopStep

\* A node that receives takes the head off its queue.
LEMMA ReceivedType ==
  ASSUME TypeOK, NEW n \in Node, queue[n] # <<>>
  PROVE  Sender(n) \in Node /\ Received(n) \in [Node -> Seq(PeerMessage)]
<1>1. queue \in [Node -> Seq(PeerMessage)]
  BY DEF TypeOK
<1>2. /\ Head(queue[n]) \in PeerMessage
      /\ [queue EXCEPT ![n] = Tail(@)] \in [Node -> Seq(PeerMessage)]
  BY <1>1, TakeType
<1> QED
  BY <1>2 DEF Sender, Received, PeerMessage

\* Every branch of the receive loop of an idle node keeps the types.
LEMMA TypeRecv ==
  ASSUME TypeOK, NEW n \in Node, RecvStep(n)
  PROVE  TypeOK'
<1>0. queue[n] # <<>>
  BY DEF RecvStep, Receives, RecvCoordinator, RecvElectionReq, RecvElectionAck,
         RecvCoordAlive, RecvGranted, RecvDenied, RecvIgnored
<1>1. Sender(n) \in Node /\ Received(n) \in [Node -> Seq(PeerMessage)]
  BY <1>0, ReceivedType
<1>2. CASE RecvCoordinator(n)
  BY <1>1, <1>2
  DEF RecvCoordinator, TypeOK, Set, waitVars, useVars, coordVars
<1>3. CASE RecvElectionReq(n)
  <2>1. Post(Received(n), {Sender(n)}, Msg("ELECTION_ACK", n)) \in [Node -> Seq(PeerMessage)]
    BY <1>1, PostType, MsgType DEF PeerType
  <2>2. queue' \in [Node -> Seq(PeerMessage)]
    BY <1>3, <2>1, PostType, MsgType DEF RecvElectionReq, convocateElection, PeerType
  <2>3. 0 \in 0..(ITER_TH_TOLERANCE - 1)
    BY ToleranceAssumption
  <2> QED
    BY <1>3, <2>2, <2>3
    DEF RecvElectionReq, convocateElection, TypeOK, Set, useVars, coordVars
<1>4. CASE RecvElectionAck(n)
  BY <1>1, <1>4 DEF RecvElectionAck, TypeOK, Set, useVars, coordVars
<1>5. CASE RecvCoordAlive(n)
  <2>1. rqueue' \in [Node -> Seq(ResourceMessage)]
    BY <1>5, PostResourceType DEF RecvCoordAlive, ResourceType, TypeOK
  <2> QED
    BY <1>1, <1>5, <2>1 DEF RecvCoordAlive, TypeOK, Set, useVars, coordVars
<1>6. CASE RecvGranted(n)
  BY <1>1, <1>6, PollsAssumption DEF RecvGranted, TypeOK, Set, waitVars, coordVars
<1>7. CASE RecvDenied(n)
  BY <1>1, <1>7 DEF RecvDenied, TypeOK, Set, waitVars, useVars, coordVars
<1>8. CASE RecvIgnored(n)
  BY <1>1, <1>8 DEF RecvIgnored, TypeOK, waitVars, useVars, coordVars
<1> QED
  BY <1>2, <1>3, <1>4, <1>5, <1>6, <1>7, <1>8 DEF RecvStep

\* An empty receive keeps the types; the counter of them stays below the
\* tolerance.
LEMMA TypeTimeout ==
  ASSUME TypeOK, NEW n \in Node, TimeoutStep(n)
  PROVE  TypeOK'
<1>0. 0 \in 0..(ITER_TH_TOLERANCE - 1) /\ Waited(n) \in 0..(ITER_TH_TOLERANCE - 1)
  BY ToleranceAssumption DEF Waited, ToleranceOver, TypeOK
<1>1. CASE BecomeCoordinator(n)
  <2>1. queue' \in [Node -> Seq(PeerMessage)]
    BY <1>1, PostType, MsgType DEF BecomeCoordinator, sendCoordinatorMsg, TypeOK, PeerType
  <2>2. receivers' \in [Node -> 0..2] /\ rqueue' \in [Node -> Seq(ResourceMessage)]
    BY <1>1, EmptySeq DEF BecomeCoordinator, createResourceQueue, TypeOK, Set
  <2> QED
    BY <1>0, <1>1, <2>1, <2>2
    DEF BecomeCoordinator, sendCoordinatorMsg, TypeOK, Set, State, useVars, coordVars
<1>2. CASE PingFailed(n)
  BY <1>0, <1>2 DEF PingFailed, TypeOK, Set, State, netVars, useVars, coordVars
<1>3. CASE RequestFailed(n)
  BY <1>0, <1>3 DEF RequestFailed, TypeOK, Set, State, netVars, useVars, coordVars
<1>4. CASE KeepWaiting(n)
  BY <1>0, <1>4 DEF KeepWaiting, TypeOK, Set, State, netVars, useVars, coordVars
<1> QED
  BY <1>1, <1>2, <1>3, <1>4 DEF TimeoutStep

\* Using the resource and giving it back keep the types.
LEMMA TypeUse ==
  ASSUME TypeOK, NEW n \in Node, UseStep(n)
  PROVE  TypeOK'
<1>1. CASE UsePoll(n)
  <2>1. queue' \in [Node -> Seq(PeerMessage)]
    <3>1. CASE queue' = queue
      BY <3>1 DEF TypeOK
    <3>2. CASE queue[n] # <<>> /\ queue' = Received(n)
      BY <3>2, ReceivedType
    <3>3. CASE /\ queue[n] # <<>>
               /\ queue' = Post(Received(n), {granter[n]}, Msg("USER_ALVIE_ACK", n))
      BY <3>3, ReceivedType, PostType, MsgType DEF PeerType
    <3> QED
      BY <1>1, <3>1, <3>2, <3>3 DEF UsePoll
  <2>2. cont' \in [Node -> Nat]
    BY <1>1 DEF UsePoll, TypeOK, Set
  <2> QED
    BY <1>1, <2>1, <2>2 DEF UsePoll, TypeOK, waitVars, coordVars
<1>2. CASE freeResource(n)
  <2>1. rqueue' \in [Node -> Seq(ResourceMessage)]
    BY <1>2, PostResourceType DEF freeResource, ResourceType
  <2> QED
    BY <1>2, <2>1 DEF freeResource, TypeOK, Set, waitVars, coordVars
<1> QED
  BY <1>1, <1>2 DEF UseStep

\* The part of a coordinator's turn that checks on the user, given what the
\* resource message before it made of the queues.
LEMMA TypeCheck ==
  ASSUME TypeOK, NEW n \in Node, NEW user \in Node \cup {None},
         NEW q \in [Node -> Seq(PeerMessage)], checkIfAlive(n, user, q),
         rqueue' \in [Node -> Seq(ResourceMessage)]
  PROVE  TypeOK'
<1>1. queue' \in [Node -> Seq(PeerMessage)]
  <2>1. CASE queue' = q
    BY <2>1
  <2>2. CASE queue' = Post(q, {user}, Msg("USER_ALIVE_CHECK", n))
    BY <2>2, PostType, MsgType DEF PeerType
  <2> QED
    BY <2>1, <2>2 DEF checkIfAlive
<1>2. pingResourceUser' \in [Node -> 0..RES_PING_TH]
  <2>1. pingResourceUser[n] \in 0..RES_PING_TH /\ RES_PING_TH \in Nat
    BY PingAssumption DEF TypeOK
  <2>2. /\ 0 \in 0..RES_PING_TH
        /\ (IF pingResourceUser[n] < RES_PING_TH
              THEN pingResourceUser[n] + 1 ELSE RES_PING_TH) \in 0..RES_PING_TH
    BY <2>1
  <2>3. \E k \in 0..RES_PING_TH : pingResourceUser' = Set(pingResourceUser, n, k)
    BY <2>2 DEF checkIfAlive
  <2> QED
    BY <2>3 DEF TypeOK, Set
<1>3. checkAlive' \in [Node -> BOOLEAN]
  BY DEF checkIfAlive, TypeOK, Set
<1>4. resourceUser' \in [Node -> Node \cup {None}]
  BY DEF checkIfAlive, TypeOK, Set
<1> QED
  BY <1>1, <1>2, <1>3, <1>4 DEF checkIfAlive, TypeOK, Set, waitVars, useVars

\* Taking the head off a resource queue.
LEMMA ResourceReceivedType ==
  ASSUME TypeOK, NEW n \in Node, NEW t, ReceivesResource(n, t)
  PROVE  Requester(n) \in Node /\ rqueue' \in [Node -> Seq(ResourceMessage)]
<1>1. rqueue[n] # <<>> /\ rqueue' = [rqueue EXCEPT ![n] = Tail(@)]
  BY DEF ReceivesResource, Set
<1>2. rqueue \in [Node -> Seq(ResourceMessage)]
  BY DEF TypeOK
<1>3. Head(rqueue[n]) \in ResourceMessage /\ rqueue' \in [Node -> Seq(ResourceMessage)]
  BY <1>1, <1>2, TakeType
<1> QED
  BY <1>3 DEF Requester, ResourceMessage

\* Every branch of a coordinator's turn keeps the types.
LEMMA TypeCoord ==
  ASSUME TypeOK, NEW n \in Node, CoordStep(n)
  PROVE  TypeOK'
<1>1. CASE GrantResource(n)
  <2>1. Requester(n) \in Node /\ rqueue' \in [Node -> Seq(ResourceMessage)]
    BY <1>1, ResourceReceivedType DEF GrantResource
  <2>2. Post(queue, {Requester(n)}, Msg("RESOURCE_RESP_Y", n)) \in [Node -> Seq(PeerMessage)]
    BY PostType, MsgType DEF TypeOK, PeerType
  <2> QED
    BY <1>1, <2>1, <2>2, TypeCheck DEF GrantResource
<1>2. CASE DenyResource(n)
  <2>1. rqueue' \in [Node -> Seq(ResourceMessage)]
    BY <1>2, ResourceReceivedType DEF DenyResource
  <2>2. Post(queue, {Requester(n)}, Msg("RESOURCE_RESP_N", n)) \in [Node -> Seq(PeerMessage)]
    BY PostType, MsgType DEF TypeOK, PeerType
  <2>3. resourceUser[n] \in Node \cup {None}
    BY DEF TypeOK
  <2> QED
    BY <1>2, <2>1, <2>2, <2>3, TypeCheck DEF DenyResource
<1>3. CASE ResourceFreed(n)
  <2>1. rqueue' \in [Node -> Seq(ResourceMessage)]
    BY <1>3, ResourceReceivedType DEF ResourceFreed
  <2> QED
    BY <1>3, <2>1, TypeCheck DEF ResourceFreed, TypeOK
<1>4. CASE NoResourceMessage(n)
  BY <1>4, TypeCheck DEF NoResourceMessage, TypeOK
<1>5. CASE CoordTimeout(n)
  <2>1. checkAliveTh' \in [Node -> 0..RES_PING_TH]
    <3>1. checkAliveTh[n] \in 0..RES_PING_TH /\ RES_PING_TH \in Nat
      BY PingAssumption DEF TypeOK
    <3>2. /\ 0 \in 0..RES_PING_TH
          /\ (IF checkAliveTh[n] < RES_PING_TH
                THEN checkAliveTh[n] + 1 ELSE RES_PING_TH) \in 0..RES_PING_TH
      BY <3>1
    <3> QED
      BY <1>5, <3>2 DEF CoordTimeout, TypeOK, Set
  <2>2. /\ checkAlive' \in [Node -> BOOLEAN]
        /\ resourceUser' \in [Node -> Node \cup {None}]
    BY <1>5 DEF CoordTimeout, TypeOK, Set
  <2> QED
    BY <1>5, <2>1, <2>2 DEF CoordTimeout, TypeOK, Set, netVars, waitVars, useVars
<1>6. CASE \E types : CoordReceives(n, types)
  <2>0. queue[n] # <<>> /\ pc' = Set(pc, n, "top")
    BY <1>6 DEF CoordReceives
  <2>1. Sender(n) \in Node /\ Received(n) \in [Node -> Seq(PeerMessage)]
    BY <2>0, ReceivedType
  <2>2. CASE CoordPing(n)
    <3>1. queue' \in [Node -> Seq(PeerMessage)]
      BY <2>1, <2>2, PostType, MsgType DEF CoordPing, PeerType
    <3> QED
      BY <2>0, <2>2, <3>1 DEF CoordPing, TypeOK, Set, waitVars, useVars, coordVars
  <2>3. CASE CoordUserAck(n)
    <3>1. 0 \in 0..RES_PING_TH
      BY PingAssumption
    <3> QED
      BY <2>0, <2>1, <2>3, <3>1 DEF CoordUserAck, TypeOK, Set, waitVars, useVars
  <2>4. CASE StepDown(n)
    BY <2>0, <2>1, <2>4 DEF StepDown, TypeOK, Set, State, waitVars, useVars
  <2>5. CASE CoordIgnored(n)
    BY <2>0, <2>1, <2>5 DEF CoordIgnored, TypeOK, Set, waitVars, useVars, coordVars
  <2> QED
    BY <1>1, <1>2, <1>3, <1>4, <1>5, <2>2, <2>3, <2>4, <2>5 DEF CoordStep
<1> QED
  BY <1>1, <1>2, <1>3, <1>4, <1>5, <1>6
  DEF CoordStep, CoordPing, CoordUserAck, StepDown, CoordIgnored

\* The state of every node and the queues between them keep their types: in
\* particular every message names a sender that exists, and the ids sent as
\* COORD_ID and resourceUser are ids of nodes.
THEOREM TypeCorrect == Spec => []TypeOK
<1>1. TypeOK /\ [Next]_vars => TypeOK'
  <2> SUFFICES ASSUME TypeOK, [Next]_vars PROVE TypeOK'
    OBVIOUS
  <2>1. CASE UNCHANGED vars
    BY <2>1 DEF TypeOK, vars, netVars, waitVars, useVars, coordVars
  <2>2. ASSUME NEW n \in Node, NodeStep(n) PROVE TypeOK'
    BY <2>2, TypeTop, TypeRecv, TypeTimeout, TypeUse, TypeCoord DEF NodeStep
  <2> QED
    BY <2>1, <2>2 DEF Next
<1> QED
  BY TypeInit, <1>1, PTL DEF Spec

-----------------------------------------------------------------------------
(* The bully order.  It is inductive together with the types. *)

\* A message between two nodes is legal if its direction is that of its type.
LEMMA MsgLegal ==
  ASSUME NEW n \in Node, NEW k \in Node, NEW t \in PeerType,
         IF t \in FromBelow THEN n < k ELSE n > k
  PROVE  Msg(t, n) \in LegalTo(k)
BY MsgType DEF LegalTo, Msg

\* Posting messages that are legal where they go keeps the queues legal.
LEMMA PostLegal ==
  ASSUME NEW q \in [Node -> Seq(PeerMessage)], LegalQueues(q), NEW D, NEW m,
         \A k \in D \cap Node : m \in LegalTo(k)
  PROVE  LegalQueues(Post(q, D, m))
<1> SUFFICES ASSUME NEW k \in Node PROVE Post(q, D, m)[k] \in Seq(LegalTo(k))
  BY DEF LegalQueues
<1>1. CASE k \in D
  BY <1>1, AppendProperties DEF Post, LegalQueues
<1>2. CASE k \notin D
  BY <1>2 DEF Post, LegalQueues
<1> QED
  BY <1>1, <1>2

\* What a node receives is legal, and what is left behind it too.
LEMMA ReceivedLegal ==
  ASSUME TypeOK, BullyOrder, NEW n \in Node, queue[n] # <<>>
  PROVE  /\ Head(queue[n]) \in LegalTo(n)
         /\ LegalQueues(Received(n))
<1>1. queue \in [Node -> Seq(PeerMessage)] /\ queue[n] \in Seq(LegalTo(n))
  BY DEF TypeOK, BullyOrder, LegalQueues
<1>2. Head(queue[n]) \in LegalTo(n) /\ Tail(queue[n]) \in Seq(LegalTo(n))
  BY <1>1, HeadTailProperties
<1> QED
  BY <1>1, <1>2 DEF Received, LegalQueues, BullyOrder

\* Messages for a resource queue come from below, because COORD_ID is above.
LEMMA PostResourceLegal ==
  ASSUME TypeOK, BullyOrder, NEW n \in Node, NEW t \in ResourceType, PostResource(n, t)
  PROVE  \A k \in Node : rqueue'[k] \in Seq(LegalResource(k))
<1>1. rqueue \in [Node -> Seq(ResourceMessage)]
      /\ \A k \in Node : rqueue[k] \in Seq(LegalResource(k))
  BY DEF TypeOK, BullyOrder
<1>2. CASE rqueue' = rqueue
  BY <1>1, <1>2
<1>3. CASE /\ COORD_ID[n] # None
           /\ rqueue' = Set(rqueue, COORD_ID[n], Append(rqueue[COORD_ID[n]], Msg(t, n)))
  <2>1. COORD_ID[n] \in Node /\ n < COORD_ID[n]
    BY <1>3 DEF TypeOK, BullyOrder
  <2>2. Msg(t, n) \in LegalResource(COORD_ID[n])
    BY <2>1, MsgType DEF LegalResource, Msg
  <2>3. Append(rqueue[COORD_ID[n]], Msg(t, n)) \in Seq(LegalResource(COORD_ID[n]))
    BY <1>1, <2>1, <2>2, AppendProperties
  <2> QED
    BY <1>1, <1>3, <2>1, <2>3 DEF Set
<1> QED
  BY <1>2, <1>3 DEF PostResource

\* With empty queues and nobody known to anybody the order holds.
LEMMA BullyInit == Init => BullyOrder
BY EmptySeq DEF Init, BullyOrder, LegalQueues, Node, None

\* Elections and pings go up.
LEMMA BullyTop ==
  ASSUME TypeOK, BullyOrder, NEW n \in Node, TopStep(n)
  PROVE  BullyOrder'
<1>0. queue \in [Node -> Seq(PeerMessage)] /\ LegalQueues(queue)
  BY DEF TypeOK, BullyOrder
<1>1. CASE Die(n)
  BY <1>1 DEF Die, BullyOrder, LegalQueues, netVars, useVars, coordVars
<1>2. CASE StartElection(n)
  <2>1. \A k \in Above(n) \cap Node : Msg("ELECTION_REQ", n) \in LegalTo(k)
    BY MsgLegal DEF Above, Node, PeerType, FromBelow
  <2>2. LegalQueues(queue')
    BY <1>0, <1>2, <2>1, PostLegal DEF StartElection, convocateElection
  <2> QED
    BY <1>2, <2>2
    DEF StartElection, convocateElection, BullyOrder, LegalQueues, TypeOK, Set, useVars, coordVars
<1>3. CASE EnterIdle(n)
  <2>1. LegalQueues(queue')
    <3>1. CASE queue' = queue
      BY <1>0, <3>1
    <3>2. CASE /\ COORD_ID[n] # None
               /\ queue' = Post(queue, {COORD_ID[n]}, Msg("COORD_PING", n))
      <4>1. \A k \in {COORD_ID[n]} \cap Node : Msg("COORD_PING", n) \in LegalTo(k)
        BY <3>2, MsgLegal DEF BullyOrder, Node, PeerType, FromBelow
      <4> QED
        BY <1>0, <3>2, <4>1, PostLegal
    <3> QED
      BY <1>3, <3>1, <3>2 DEF EnterIdle
  <2> QED
    BY <1>3, <2>1
    DEF EnterIdle, BullyOrder, LegalQueues, TypeOK, Set, useVars, coordVars
<1> QED
  BY <1>1, <1>2, <1>3 DEF TopStep

\* What an idle node answers goes back along the order, and whom it believes to
\* be coordinator, or has its grant from, is above it.
LEMMA BullyRecv ==
  ASSUME TypeOK, BullyOrder, NEW n \in Node, RecvStep(n)
  PROVE  BullyOrder'
<1>0. queue[n] # <<>> /\ pc[n] = "recv"
  BY DEF RecvStep, Receives, RecvCoordinator, RecvElectionReq, RecvElectionAck,
         RecvCoordAlive, RecvGranted, RecvDenied, RecvIgnored
<1>1. /\ Head(queue[n]) \in LegalTo(n)
      /\ LegalQueues(Received(n))
      /\ Sender(n) \in Node
      /\ Received(n) \in [Node -> Seq(PeerMessage)]
  BY <1>0, ReceivedLegal, ReceivedType
<1>2. CASE RecvCoordinator(n)
  <2>1. Sender(n) > n
    BY <1>1, <1>2 DEF RecvCoordinator, Receives, LegalTo, FromBelow, Sender
  <2> QED
    BY <1>1, <1>2, <2>1
    DEF RecvCoordinator, BullyOrder, LegalQueues, TypeOK, Set, useVars, coordVars
<1>3. CASE RecvElectionReq(n)
  <2>1. Sender(n) < n
    BY <1>1, <1>3 DEF RecvElectionReq, Receives, LegalTo, FromBelow, Sender
  <2> DEFINE acked == Post(Received(n), {Sender(n)}, Msg("ELECTION_ACK", n))
  <2>2. acked \in [Node -> Seq(PeerMessage)]
    BY <1>1, PostType, MsgType DEF PeerType
  <2>3. \A k \in {Sender(n)} \cap Node : Msg("ELECTION_ACK", n) \in LegalTo(k)
    BY <2>1, MsgLegal DEF Node, PeerType, FromBelow
  <2>4. LegalQueues(acked)
    BY <1>1, <2>3, PostLegal
  <2>5. \A k \in Above(n) \cap Node : Msg("ELECTION_REQ", n) \in LegalTo(k)
    BY MsgLegal DEF Above, Node, PeerType, FromBelow
  <2>6. queue' = Post(acked, Above(n), Msg("ELECTION_REQ", n))
    BY <1>3 DEF RecvElectionReq, convocateElection
  <2> HIDE DEF acked
  <2>7. LegalQueues(queue')
    BY <2>2, <2>4, <2>5, <2>6, PostLegal
  <2> QED
    BY <1>3, <2>7
    DEF RecvElectionReq, convocateElection, BullyOrder, LegalQueues, TypeOK, Set, useVars, coordVars
<1>4. CASE RecvElectionAck(n)
  BY <1>1, <1>4 DEF RecvElectionAck, BullyOrder, LegalQueues, useVars, coordVars
<1>5. CASE RecvCoordAlive(n)
  <2>1. \A k \in Node : rqueue'[k] \in Seq(LegalResource(k))
    BY <1>5, PostResourceLegal DEF RecvCoordAlive, ResourceType, BullyOrder
  <2> QED
    BY <1>1, <1>5, <2>1 DEF RecvCoordAlive, BullyOrder, LegalQueues, TypeOK, Set, useVars, coordVars
<1>6. CASE RecvGranted(n)
  <2>1. Sender(n) > n
    BY <1>1, <1>6 DEF RecvGranted, Receives, LegalTo, FromBelow, Sender
  <2> QED
    BY <1>1, <1>6, <2>1 DEF RecvGranted, BullyOrder, LegalQueues, TypeOK, Set, coordVars
<1>7. CASE RecvDenied(n)
  BY <1>1, <1>7 DEF RecvDenied, BullyOrder, LegalQueues, TypeOK, Set, useVars, coordVars
<1>8. CASE RecvIgnored(n)
  BY <1>1, <1>8 DEF RecvIgnored, BullyOrder, LegalQueues, useVars, coordVars
<1> QED
  BY <1>2, <1>3, <1>4, <1>5, <1>6, <1>7, <1>8 DEF RecvStep

\* The takeover is announced downwards only.
LEMMA BullyTimeout ==
  ASSUME TypeOK, BullyOrder, NEW n \in Node, TimeoutStep(n)
  PROVE  BullyOrder'
<1>1. CASE BecomeCoordinator(n)
  <2>1. \A k \in Below(n) \cap Node : Msg("COORDINATOR", n) \in LegalTo(k)
    BY MsgLegal DEF Below, Node, PeerType, FromBelow
  <2>2. LegalQueues(queue')
    BY <1>1, <2>1, PostLegal DEF BecomeCoordinator, sendCoordinatorMsg, TypeOK, BullyOrder
  <2>3. \A k \in Node : rqueue'[k] \in Seq(LegalResource(k))
    BY <1>1, EmptySeq DEF BecomeCoordinator, createResourceQueue, Set, TypeOK, BullyOrder
  <2> QED
    BY <1>1, <2>2, <2>3 DEF BecomeCoordinator, BullyOrder, TypeOK, Set, useVars, coordVars
<1>2. CASE PingFailed(n) \/ RequestFailed(n) \/ KeepWaiting(n)
  BY <1>2
  DEF PingFailed, RequestFailed, KeepWaiting, BullyOrder, LegalQueues, TypeOK, Set,
      netVars, useVars, coordVars
<1> QED
  BY <1>1, <1>2 DEF TimeoutStep

\* The user answers its granter, above it, and gives back to its coordinator.
LEMMA BullyUse ==
  ASSUME TypeOK, BullyOrder, NEW n \in Node, UseStep(n)
  PROVE  BullyOrder'
<1>1. CASE UsePoll(n)
  <2>1. LegalQueues(queue')
    <3>1. CASE queue' = queue
      BY <3>1 DEF BullyOrder
    <3>2. CASE queue[n] # <<>> /\ queue' = Received(n)
      BY <3>2, ReceivedLegal
    <3>3. CASE /\ queue[n] # <<>>
               /\ queue' = Post(Received(n), {granter[n]}, Msg("USER_ALVIE_ACK", n))
      <4>1. \A k \in {granter[n]} \cap Node : Msg("USER_ALVIE_ACK", n) \in LegalTo(k)
        BY <1>1, MsgLegal DEF UsePoll, BullyOrder, Node, PeerType, FromBelow
      <4> QED
        BY <3>3, <4>1, ReceivedType, ReceivedLegal, PostLegal
    <3> QED
      BY <1>1, <3>1, <3>2, <3>3 DEF UsePoll
  <2> QED
    BY <1>1, <2>1 DEF UsePoll, BullyOrder, coordVars
<1>2. CASE freeResource(n)
  <2>1. \A k \in Node : rqueue'[k] \in Seq(LegalResource(k))
    BY <1>2, PostResourceLegal DEF freeResource, ResourceType
  <2> QED
    BY <1>2, <2>1 DEF freeResource, BullyOrder, LegalQueues, TypeOK, Set, coordVars
<1> QED
  BY <1>1, <1>2 DEF UseStep

\* The check on the user goes down, given what the resource message before it
\* made of user and queues.
LEMMA BullyCheck ==
  ASSUME TypeOK, BullyOrder, NEW n \in Node,
         NEW user \in Node \cup {None}, user # None => user < n,
         NEW q \in [Node -> Seq(PeerMessage)], LegalQueues(q), checkIfAlive(n, user, q),
         \A k \in Node : rqueue'[k] \in Seq(LegalResource(k))
  PROVE  BullyOrder'
<1>1. LegalQueues(queue')
  <2>1. CASE queue' = q
    BY <2>1
  <2>2. CASE user # None /\ queue' = Post(q, {user}, Msg("USER_ALIVE_CHECK", n))
    <3>1. \A k \in {user} \cap Node : Msg("USER_ALIVE_CHECK", n) \in LegalTo(k)
      BY <2>2, MsgLegal DEF Node, PeerType, FromBelow
    <3> QED
      BY <2>2, <3>1, PostLegal
  <2> QED
    BY <2>1, <2>2 DEF checkIfAlive
<1>2. resourceUser' = Set(resourceUser, n, user) /\ pc' = Set(pc, n, "coord")
      /\ UNCHANGED <<COORD_ID, granter>>
  BY DEF checkIfAlive, useVars
<1> QED
  BY <1>1, <1>2 DEF BullyOrder, TypeOK, Set

\* What the coordinator takes off its resource queue comes from below.
LEMMA ResourceReceivedLegal ==
  ASSUME TypeOK, BullyOrder, NEW n \in Node, NEW t, ReceivesResource(n, t)
  PROVE  Requester(n) < n /\ \A k \in Node : rqueue'[k] \in Seq(LegalResource(k))
<1>1. /\ rqueue[n] # <<>> /\ rqueue' = [rqueue EXCEPT ![n] = Tail(rqueue[n])]
      /\ rqueue \in [Node -> Seq(ResourceMessage)]
      /\ \A k \in Node : rqueue[k] \in Seq(LegalResource(k))
  BY DEF ReceivesResource, Set, TypeOK, BullyOrder
<1>2. Head(rqueue[n]) \in LegalResource(n) /\ Tail(rqueue[n]) \in Seq(LegalResource(n))
  BY <1>1, HeadTailProperties
<1> QED
  BY <1>1, <1>2 DEF Requester, LegalResource

\* Grants, refusals and alive answers go down.
LEMMA BullyCoord ==
  ASSUME TypeOK, BullyOrder, NEW n \in Node, CoordStep(n)
  PROVE  BullyOrder'
<1>0. queue \in [Node -> Seq(PeerMessage)] /\ LegalQueues(queue)
  BY DEF TypeOK, BullyOrder
<1>1. ASSUME NEW t \in {"RESOURCE_RESP_Y", "RESOURCE_RESP_N"}, Requester(n) \in Node, Requester(n) < n
      PROVE  /\ Post(queue, {Requester(n)}, Msg(t, n)) \in [Node -> Seq(PeerMessage)]
             /\ LegalQueues(Post(queue, {Requester(n)}, Msg(t, n)))
  <2>1. Msg(t, n) \in PeerMessage
    BY MsgType DEF PeerType
  <2>2. \A k \in {Requester(n)} \cap Node : Msg(t, n) \in LegalTo(k)
    BY <1>1, MsgLegal DEF Node, PeerType, FromBelow
  <2> QED
    BY <1>0, <2>1, <2>2, PostType, PostLegal
<1>2. CASE GrantResource(n)
  <2>1. /\ Requester(n) \in Node /\ Requester(n) < n
        /\ \A k \in Node : rqueue'[k] \in Seq(LegalResource(k))
    BY <1>2, ResourceReceivedType, ResourceReceivedLegal DEF GrantResource
  <2> QED
    BY <1>1, <1>2, <2>1, BullyCheck DEF GrantResource
<1>3. CASE DenyResource(n)
  <2>1. /\ Requester(n) \in Node /\ Requester(n) < n
        /\ \A k \in Node : rqueue'[k] \in Seq(LegalResource(k))
    BY <1>3, ResourceReceivedType, ResourceReceivedLegal DEF DenyResource
  <2>2. /\ resourceUser[n] \in Node \cup {None}
        /\ resourceUser[n] # None => resourceUser[n] < n
    BY DEF TypeOK, BullyOrder
  <2> QED
    BY <1>1, <1>3, <2>1, <2>2, BullyCheck DEF DenyResource
<1>4. CASE ResourceFreed(n)
  <2>1. \A k \in Node : rqueue'[k] \in Seq(LegalResource(k))
    BY <1>4, ResourceReceivedLegal DEF ResourceFreed
  <2> QED
    BY <1>0, <1>4, <2>1, BullyCheck DEF ResourceFreed
<1>5. CASE NoResourceMessage(n)
  <2>1. /\ resourceUser[n] \in Node \cup {None}
        /\ resourceUser[n] # None => resourceUser[n] < n
        /\ \A k \in Node : rqueue'[k] \in Seq(LegalResource(k))
    BY <1>5 DEF NoResourceMessage, TypeOK, BullyOrder
  <2> QED
    BY <1>0, <1>5, <2>1, BullyCheck DEF NoResourceMessage
<1>6. CASE CoordTimeout(n)
  BY <1>6
  DEF CoordTimeout, BullyOrder, LegalQueues, TypeOK, Set, netVars, waitVars, useVars
<1>7. CASE \E types : CoordReceives(n, types)
  <2>0. queue[n] # <<>> /\ pc' = Set(pc, n, "top")
    BY <1>7 DEF CoordReceives
  <2>1. /\ Head(queue[n]) \in LegalTo(n)
        /\ LegalQueues(Received(n))
        /\ Received(n) \in [Node -> Seq(PeerMessage)]
        /\ Sender(n) \in Node
    BY <2>0, ReceivedLegal, ReceivedType
  <2>2. CASE CoordPing(n)
    <3>1. Sender(n) < n
      BY <2>1, <2>2 DEF CoordPing, CoordReceives, LegalTo, FromBelow, Sender
    <3>2. \A k \in {Sender(n)} \cap Node : Msg("COORD_ALIVE", n) \in LegalTo(k)
      BY <3>1, MsgLegal DEF Node, PeerType, FromBelow
    <3>3. LegalQueues(queue')
      BY <2>1, <2>2, <3>2, PostLegal DEF CoordPing
    <3> QED
      BY <2>0, <2>2, <3>3 DEF CoordPing, BullyOrder, TypeOK, Set, useVars, coordVars
  <2>3. CASE CoordUserAck(n)
    BY <2>0, <2>1, <2>3 DEF CoordUserAck, BullyOrder, TypeOK, Set, useVars
  <2>4. CASE StepDown(n)
    BY <2>0, <2>1, <2>4 DEF StepDown, BullyOrder, TypeOK, Set, useVars
  <2>5. CASE CoordIgnored(n)
    BY <2>0, <2>1, <2>5 DEF CoordIgnored, BullyOrder, TypeOK, Set, useVars, coordVars
  <2> QED
    BY <1>2, <1>3, <1>4, <1>5, <1>6, <2>2, <2>3, <2>4, <2>5 DEF CoordStep
<1> QED
  BY <1>2, <1>3, <1>4, <1>5, <1>6, <1>7
  DEF CoordStep, CoordPing, CoordUserAck, StepDown, CoordIgnored

\* Requests and pings only ever go up the ids, answers and announcements only
\* down, and what a node remembers of another keeps that order.
THEOREM BullyOrderHolds == Spec => []BullyOrder
<1>1. TypeOK /\ BullyOrder /\ [Next]_vars => BullyOrder'
  <2> SUFFICES ASSUME TypeOK, BullyOrder, [Next]_vars PROVE BullyOrder'
    OBVIOUS
  <2>1. CASE UNCHANGED vars
    BY <2>1 DEF BullyOrder, LegalQueues, vars, netVars, useVars, coordVars
  <2>2. ASSUME NEW n \in Node, NodeStep(n) PROVE BullyOrder'
    BY <2>2, BullyTop, BullyRecv, BullyTimeout, BullyUse, BullyCoord DEF NodeStep
  <2> QED
    BY <2>1, <2>2 DEF Next
<1> QED
  BY BullyInit, <1>1, TypeCorrect, PTL DEF Spec

\* The node with the highest id never uses the resource and is never taken for
\* its user: whatever it asks, it has nobody above it to ask.
THEOREM HighestNeverUsesHolds == Spec => []HighestNeverUses
<1>1. TypeOK /\ BullyOrder => HighestNeverUses
  <2> SUFFICES ASSUME TypeOK, BullyOrder PROVE HighestNeverUses
    OBVIOUS
  <2>1. N_CONNECTED \in Node
    BY NodesAssumption DEF Node
  <2>2. pc[N_CONNECTED] # "using"
    <3>1. granter[N_CONNECTED] \in 0..N_CONNECTED \cup {-1}
      BY <2>1 DEF TypeOK, Node, None
    <3>2. ~(granter[N_CONNECTED] > N_CONNECTED)
      BY <3>1, NodesAssumption
    <3> QED
      BY <2>1, <3>2 DEF BullyOrder
  <2>3. ASSUME NEW n \in Node PROVE resourceUser[n] # N_CONNECTED
    BY <2>1, <2>3, NodesAssumption DEF BullyOrder, Node, None
  <2> QED
    BY <2>2, <2>3 DEF HighestNeverUses
<1> QED
  BY <1>1, TypeCorrect, BullyOrderHolds, PTL

-----------------------------------------------------------------------------
(* A coordinator is ready before it is known. *)

\* A sequence over a set is one over every larger set.
LEMMA SeqMonotone ==
  ASSUME NEW S, NEW T, S \subseteq T, NEW s \in Seq(S)
  PROVE  s \in Seq(T)
OBVIOUS

\* Messages other than announcements say nothing of resource queues.
LEMMA MsgReady ==
  ASSUME NEW n \in Node, NEW t \in PeerType, t # "COORDINATOR"
  PROVE  Msg(t, n) \in ReadyMessage
BY MsgType DEF ReadyMessage, Msg

\* What is left in the queues still announces only coordinators that are ready.
LEMMA ReceivedReady ==
  ASSUME CoordinatorReady, NEW n \in Node, queue[n] # <<>>
  PROVE  /\ Head(queue[n]) \in ReadyMessage
         /\ Received(n) \in [Node -> Seq(ReadyMessage)]
<1>1. queue \in [Node -> Seq(ReadyMessage)]
  BY DEF CoordinatorReady
<1> QED
  BY <1>1, TakeType DEF Received

\* A step that creates no resource queue, makes nobody coordinator and teaches
\* nobody a coordinator only has to keep the announcements true.
LEMMA ReadyFrame ==
  ASSUME CoordinatorReady, UNCHANGED receivers,
         queue' \in [Node -> Seq(ReadyMessage)],
         \A k \in Node : myState'[k] = "COORDINATOR" => myState[k] = "COORDINATOR",
         \A k \in Node : COORD_ID'[k] # None => COORD_ID'[k] = COORD_ID[k]
  PROVE  CoordinatorReady'
<1>1. ReadyMessage' = ReadyMessage
  BY DEF ReadyMessage
<1> QED
  BY <1>1 DEF CoordinatorReady

\* Nobody is known as coordinator at the start.
LEMMA ReadyInit == Init => CoordinatorReady
BY EmptySeq DEF Init, CoordinatorReady, Node, None

\* Elections, deaths and pings announce nobody.
LEMMA ReadyTop ==
  ASSUME TypeOK, CoordinatorReady, NEW n \in Node, TopStep(n)
  PROVE  CoordinatorReady'
<1>0. queue \in [Node -> Seq(ReadyMessage)]
  BY DEF CoordinatorReady
<1>1. CASE Die(n)
  BY <1>0, <1>1, ReadyFrame DEF Die, Set, TypeOK, netVars
<1>2. CASE StartElection(n)
  <2>1. queue' \in [Node -> Seq(ReadyMessage)]
    BY <1>0, <1>2, PostType, MsgReady DEF StartElection, convocateElection, PeerType
  <2> QED
    BY <1>2, <2>1, ReadyFrame DEF StartElection, convocateElection, Set, TypeOK
<1>3. CASE EnterIdle(n)
  <2>1. queue' \in [Node -> Seq(ReadyMessage)]
    <3>1. CASE queue' = queue
      BY <1>0, <3>1
    <3>2. CASE queue' = Post(queue, {COORD_ID[n]}, Msg("COORD_PING", n))
      BY <1>0, <3>2, PostType, MsgReady DEF PeerType
    <3> QED
      BY <1>3, <3>1, <3>2 DEF EnterIdle
  <2> QED
    BY <1>3, <2>1, ReadyFrame DEF EnterIdle
<1> QED
  BY <1>1, <1>2, <1>3 DEF TopStep

\* Whom an announcement makes known has its resource queue.
LEMMA ReadyRecv ==
  ASSUME TypeOK, CoordinatorReady, NEW n \in Node, RecvStep(n)
  PROVE  CoordinatorReady'
<1>0. queue[n] # <<>>
  BY DEF RecvStep, Receives, RecvCoordinator, RecvElectionReq, RecvElectionAck,
         RecvCoordAlive, RecvGranted, RecvDenied, RecvIgnored
<1>1. /\ Head(queue[n]) \in ReadyMessage
      /\ Received(n) \in [Node -> Seq(ReadyMessage)]
      /\ Sender(n) \in Node
  BY <1>0, ReceivedReady, ReceivedType
<1>2. CASE RecvCoordinator(n)
  <2>1. receivers[Sender(n)] > 0
    BY <1>1, <1>2 DEF RecvCoordinator, Receives, ReadyMessage, Sender
  <2>2. ReadyMessage' = ReadyMessage
    BY <1>2 DEF RecvCoordinator, ReadyMessage
  <2> QED
    BY <1>1, <1>2, <2>1, <2>2 DEF RecvCoordinator, CoordinatorReady, TypeOK, Set
<1>3. CASE RecvElectionReq(n)
  <2>1. Post(Received(n), {Sender(n)}, Msg("ELECTION_ACK", n)) \in [Node -> Seq(ReadyMessage)]
    BY <1>1, PostType, MsgReady DEF PeerType
  <2>2. queue' \in [Node -> Seq(ReadyMessage)]
    BY <1>3, <2>1, PostType, MsgReady DEF RecvElectionReq, convocateElection, PeerType
  <2> QED
    BY <1>3, <2>2, ReadyFrame DEF RecvElectionReq, convocateElection, Set, TypeOK
<1>4. CASE RecvElectionAck(n) \/ RecvCoordAlive(n) \/ RecvGranted(n) \/ RecvDenied(n) \/ RecvIgnored(n)
  BY <1>1, <1>4, ReadyFrame
  DEF RecvElectionAck, RecvCoordAlive, RecvGranted, RecvDenied, RecvIgnored
<1> QED
  BY <1>2, <1>3, <1>4 DEF RecvStep

\* The takeover creates the resource queue with the announcement, before either
\* can be read.
LEMMA ReadyTimeout ==
  ASSUME TypeOK, CoordinatorReady, NEW n \in Node, TimeoutStep(n)
  PROVE  CoordinatorReady'
<1>0. queue \in [Node -> Seq(ReadyMessage)]
  BY DEF CoordinatorReady
<1>1. CASE BecomeCoordinator(n)
  <2>1. /\ receivers' \in [Node -> 0..2]
        /\ receivers'[n] > 0
        /\ \A k \in Node : receivers[k] > 0 => receivers'[k] > 0
    BY <1>1 DEF BecomeCoordinator, createResourceQueue, Set, TypeOK
  <2>2. ReadyMessage \subseteq ReadyMessage'
    BY <2>1 DEF ReadyMessage, PeerMessage
  <2>3. Msg("COORDINATOR", n) \in ReadyMessage'
    BY <2>1, MsgType DEF ReadyMessage, Msg, PeerType
  <2>4. queue \in [Node -> Seq(ReadyMessage')]
    BY <1>0, <2>2, SeqMonotone
  <2>5. queue' \in [Node -> Seq(ReadyMessage')]
    BY <1>1, <2>3, <2>4, PostType DEF BecomeCoordinator, sendCoordinatorMsg
  <2> QED
    BY <1>1, <2>1, <2>5
    DEF BecomeCoordinator, sendCoordinatorMsg, CoordinatorReady, Set, TypeOK
<1>2. CASE PingFailed(n) \/ RequestFailed(n) \/ KeepWaiting(n)
  BY <1>0, <1>2, ReadyFrame
  DEF PingFailed, RequestFailed, KeepWaiting, netVars, Set, TypeOK
<1> QED
  BY <1>1, <1>2 DEF TimeoutStep

\* The use of the resource announces nobody and closes no queue.
LEMMA ReadyUse ==
  ASSUME TypeOK, CoordinatorReady, NEW n \in Node, UseStep(n)
  PROVE  CoordinatorReady'
<1>0. queue \in [Node -> Seq(ReadyMessage)]
  BY DEF CoordinatorReady
<1>1. CASE UsePoll(n)
  <2>1. queue' \in [Node -> Seq(ReadyMessage)]
    <3>1. CASE queue' = queue
      BY <1>0, <3>1
    <3>2. CASE queue[n] # <<>> /\ queue' = Received(n)
      BY <3>2, ReceivedReady
    <3>3. CASE /\ queue[n] # <<>>
               /\ queue' = Post(Received(n), {granter[n]}, Msg("USER_ALVIE_ACK", n))
      BY <3>3, ReceivedReady, PostType, MsgReady DEF PeerType
    <3> QED
      BY <1>1, <3>1, <3>2, <3>3 DEF UsePoll
  <2> QED
    BY <1>1, <2>1, ReadyFrame DEF UsePoll
<1>2. CASE freeResource(n)
  BY <1>0, <1>2, ReadyFrame DEF freeResource
<1> QED
  BY <1>1, <1>2 DEF UseStep

\* The check on the user announces nobody.
LEMMA ReadyCheck ==
  ASSUME TypeOK, CoordinatorReady, NEW n \in Node, NEW user,
         NEW q \in [Node -> Seq(ReadyMessage)], checkIfAlive(n, user, q)
  PROVE  CoordinatorReady'
<1>1. CASE queue' = q
  BY <1>1, ReadyFrame DEF checkIfAlive
<1>2. CASE queue' = Post(q, {user}, Msg("USER_ALIVE_CHECK", n))
  <2>1. queue' \in [Node -> Seq(ReadyMessage)]
    BY <1>2, PostType, MsgReady DEF PeerType
  <2> QED
    BY <2>1, ReadyFrame DEF checkIfAlive
<1> QED
  BY <1>1, <1>2 DEF checkIfAlive

\* A coordinator's turn announces nobody and closes no queue.
LEMMA ReadyCoord ==
  ASSUME TypeOK, CoordinatorReady, NEW n \in Node, CoordStep(n)
  PROVE  CoordinatorReady'
<1>0. queue \in [Node -> Seq(ReadyMessage)]
  BY DEF CoordinatorReady
<1>1. CASE GrantResource(n)
  <2>1. Post(queue, {Requester(n)}, Msg("RESOURCE_RESP_Y", n)) \in [Node -> Seq(ReadyMessage)]
    BY <1>0, PostType, MsgReady DEF PeerType
  <2> QED
    BY <1>1, <2>1, ReadyCheck DEF GrantResource
<1>2. CASE DenyResource(n)
  <2>1. Post(queue, {Requester(n)}, Msg("RESOURCE_RESP_N", n)) \in [Node -> Seq(ReadyMessage)]
    BY <1>0, PostType, MsgReady DEF PeerType
  <2> QED
    BY <1>2, <2>1, ReadyCheck DEF DenyResource
<1>3. CASE ResourceFreed(n) \/ NoResourceMessage(n)
  BY <1>0, <1>3, ReadyCheck DEF ResourceFreed, NoResourceMessage
<1>4. CASE CoordTimeout(n)
  BY <1>0, <1>4, ReadyFrame DEF CoordTimeout, netVars
<1>5. CASE \E types : CoordReceives(n, types)
  <2>0. queue[n] # <<>>
    BY <1>5 DEF CoordReceives
  <2>1. Received(n) \in [Node -> Seq(ReadyMessage)]
    BY <2>0, ReceivedReady
  <2>2. CASE CoordPing(n)
    <3>1. queue' \in [Node -> Seq(ReadyMessage)]
      BY <2>1, <2>2, PostType, MsgReady DEF CoordPing, PeerType
    <3> QED
      BY <2>2, <3>1, ReadyFrame DEF CoordPing
  <2>3. CASE CoordUserAck(n) \/ StepDown(n) \/ CoordIgnored(n)
    BY <2>1, <2>3, ReadyFrame DEF CoordUserAck, StepDown, CoordIgnored, Set, TypeOK
  <2> QED
    BY <1>1, <1>2, <1>3, <1>4, <2>2, <2>3 DEF CoordStep
<1> QED
  BY <1>1, <1>2, <1>3, <1>4, <1>5
  DEF CoordStep, CoordPing, CoordUserAck, StepDown, CoordIgnored

\* Whoever is, or is taken for, the coordinator has a resource receiver, so
\* the coordinator's poll of it never meets a null and no request goes to a
\* queue that was never opened.
THEOREM CoordinatorReadyHolds == Spec => []CoordinatorReady
<1>1. TypeOK /\ CoordinatorReady /\ [Next]_vars => CoordinatorReady'
  <2> SUFFICES ASSUME TypeOK, CoordinatorReady, [Next]_vars PROVE CoordinatorReady'
    OBVIOUS
  <2>1. CASE UNCHANGED vars
    BY <2>1, ReadyFrame DEF vars, netVars, CoordinatorReady
  <2>2. ASSUME NEW n \in Node, NodeStep(n) PROVE CoordinatorReady'
    BY <2>2, ReadyTop, ReadyRecv, ReadyTimeout, ReadyUse, ReadyCoord DEF NodeStep
  <2> QED
    BY <2>1, <2>2 DEF Next
<1> QED
  BY ReadyInit, <1>1, TypeCorrect, PTL DEF Spec

\* An election of the highest node is closed by nothing but its takeover.
THEOREM HighestWinsHolds == Spec => HighestWinsItsElection
<1> DEFINE N == N_CONNECTED
           Wins == electionOpen[N] /\ ~electionOpen'[N] => myState'[N] = "COORDINATOR"
<1>1. TypeOK /\ BullyOrder /\ [Next]_vars => [Wins]_vars
  <2> SUFFICES ASSUME TypeOK, BullyOrder, [Next]_vars, ~(UNCHANGED vars),
                      electionOpen[N], ~electionOpen'[N]
               PROVE  myState'[N] = "COORDINATOR"
    OBVIOUS
  <2>1. N \in Node
    BY NodesAssumption DEF Node
  <2>2. PICK n \in Node : NodeStep(n)
    BY DEF Next
  <2>3. CASE RecvElectionAck(n)
    <3>1. n = N
      BY <2>1, <2>3 DEF RecvElectionAck, Set, TypeOK
    <3>2. queue[N] # <<>> /\ Head(queue[N]).type = "ELECTION_ACK"
      BY <2>3, <3>1 DEF RecvElectionAck, Receives
    <3>3. Head(queue[N]) \in LegalTo(N)
      BY <2>1, <3>2, ReceivedLegal
    <3> QED
      BY <3>2, <3>3, NodesAssumption DEF LegalTo, FromBelow, PeerMessage, Node
  <2>4. CASE BecomeCoordinator(n)
    BY <2>1, <2>4 DEF BecomeCoordinator, sendCoordinatorMsg, Set, TypeOK
  <2>5. CASE StartElection(n) \/ RecvElectionReq(n)
    BY <2>1, <2>5 DEF StartElection, RecvElectionReq, convocateElection, Set, TypeOK
  <2>6. CASE UNCHANGED electionOpen
    BY <2>6
  <2>7. \/ RecvElectionAck(n) \/ BecomeCoordinator(n)
        \/ StartElection(n) \/ RecvElectionReq(n) \/ UNCHANGED electionOpen
    BY <2>2
    DEF NodeStep, TopStep, RecvStep, TimeoutStep, UseStep, CoordStep, Die, EnterIdle,
        RecvCoordinator, RecvCoordAlive, RecvGranted, RecvDenied, RecvIgnored,
        PingFailed, RequestFailed, KeepWaiting, UsePoll, freeResource, GrantResource,
        DenyResource, ResourceFreed, NoResourceMessage, checkIfAlive, CoordTimeout,
        CoordPing, CoordUserAck, StepDown, CoordIgnored, waitVars
  <2> QED
    BY <2>3, <2>4, <2>5, <2>6, <2>7
<1> QED
  BY <1>1, TypeCorrect, BullyOrderHolds, PTL DEF Spec, HighestWinsItsElection
=============================================================================

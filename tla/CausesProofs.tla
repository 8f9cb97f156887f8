----------------------------- MODULE CausesProofs -----------------------------
(***************************************************************************)
(* What has to happen in GenericClient before all nodes wait for each      *)
(* other, and before two of them use the resource at a time.               *)
(***************************************************************************)
EXTENDS ElectionProofs

-----------------------------------------------------------------------------
(* What a queue holds *)

Has(q, t) == \E i \in 1..Len(q) : q[i].type = t
Before(q, s, t) == \E i, j \in 1..Len(q) : i < j /\ q[i].type = s /\ q[j].type = t

\* Who reads q from its place i on comes to an announcement before any grant.
Announced(q, i) ==
  \E j \in i..Len(q) :
    q[j].type = "COORDINATOR" /\ \A k \in i..j : q[k].type # "RESOURCE_RESP_Y"

\* So does who withdraws an election for an acknowledgment in q, ...
Settled(q) == \A i \in 1..Len(q) : q[i].type = "ELECTION_ACK" => Announced(q, i)

\* ... or at least it comes to no grant.
Unbroken(q) ==
  \A i \in 1..Len(q) : q[i].type = "ELECTION_ACK" =>
    Announced(q, i) \/ \A k \in i..Len(q) : q[k].type # "RESOURCE_RESP_Y"

\* What an empty queue holds.
LEMMA HoldsNothing ==
  /\ \A t : ~Has(<<>>, t)
  /\ Settled(<<>>) /\ Unbroken(<<>>)
BY DEF Has, Settled, Unbroken

\* What a message at the end adds to a queue.
LEMMA HoldsAppend ==
  ASSUME NEW S, NEW q \in Seq(S), NEW m \in S
  PROVE  /\ \A t : Has(Append(q, m), t) <=> Has(q, t) \/ m.type = t
         /\ \A s, t : Before(Append(q, m), s, t) <=> Before(q, s, t) \/ (Has(q, s) /\ m.type = t)
         /\ Announced(q, 1) => Announced(Append(q, m), 1)
         /\ Settled(q) /\ m.type # "ELECTION_ACK" => Settled(Append(q, m))
         /\ Unbroken(q) /\ m.type = "COORDINATOR" => Settled(Append(q, m))
         /\ Unbroken(q) /\ m.type # "RESOURCE_RESP_Y" => Unbroken(Append(q, m))
         /\ Settled(q) => Unbroken(Append(q, m))
<1> DEFINE r == Append(q, m)
<1>1. /\ Len(q) \in Nat /\ Len(r) = Len(q) + 1
      /\ \A i \in 1..Len(q) : r[i] = q[i]
      /\ r[Len(r)] = m
  BY AppendProperties
<1> HIDE DEF r
<1>2. \A t : Has(r, t) <=> Has(q, t) \/ m.type = t
  BY <1>1 DEF Has
<1>3. \A s, t : Before(r, s, t) <=> Before(q, s, t) \/ (Has(q, s) /\ m.type = t)
  BY <1>1 DEF Has, Before
<1>4. ASSUME NEW i \in 1..Len(r), i <= Len(q), Announced(q, i) PROVE Announced(r, i)
  BY <1>1, <1>4 DEF Announced
<1>5. Announced(q, 1) => Announced(r, 1)
  BY <1>1, <1>4 DEF Announced
<1>6. Settled(q) /\ m.type # "ELECTION_ACK" => Settled(r)
  BY <1>1, <1>4 DEF Settled
<1>7. ASSUME Unbroken(q), m.type = "COORDINATOR" PROVE Settled(r)
  <2> SUFFICES ASSUME NEW i \in 1..Len(r), r[i].type = "ELECTION_ACK" PROVE Announced(r, i)
    BY DEF Settled
  <2>1. i \in 1..Len(q) /\ q[i].type = "ELECTION_ACK"
    BY <1>1, <1>7
  <2>2. CASE Announced(q, i)
    BY <1>1, <1>4, <2>1, <2>2
  <2>3. CASE \A k \in i..Len(q) : q[k].type # "RESOURCE_RESP_Y"
    BY <1>1, <1>7, <2>1, <2>3 DEF Announced
  <2> QED
    BY <1>7, <2>1, <2>2, <2>3 DEF Unbroken
<1>8. ASSUME (Unbroken(q) /\ m.type # "RESOURCE_RESP_Y") \/ Settled(q) PROVE Unbroken(r)
  <2> SUFFICES ASSUME NEW i \in 1..Len(r), r[i].type = "ELECTION_ACK"
               PROVE  Announced(r, i) \/ \A k \in i..Len(r) : r[k].type # "RESOURCE_RESP_Y"
    BY DEF Unbroken
  <2>1. CASE i = Len(r)
    BY <1>1, <2>1
  <2>2. CASE i \in 1..Len(q) /\ Announced(q, i)
    BY <1>1, <1>4, <2>2
  <2>3. CASE /\ i \in 1..Len(q) /\ m.type # "RESOURCE_RESP_Y"
             /\ \A k \in i..Len(q) : q[k].type # "RESOURCE_RESP_Y"
    BY <1>1, <2>3
  <2> QED
    BY <1>1, <1>8, <2>1, <2>2, <2>3 DEF Unbroken, Settled
<1> QED
  BY <1>2, <1>3, <1>5, <1>6, <1>7, <1>8 DEF r

\* What a queue loses with its head.
LEMMA HoldsTail ==
  ASSUME NEW S, NEW q \in Seq(S), q # <<>>
  PROVE  /\ \A t : Has(q, t) <=> Head(q).type = t \/ Has(Tail(q), t)
         /\ \A s, t : Before(q, s, t) <=> Before(Tail(q), s, t) \/ (Head(q).type = s /\ Has(Tail(q), t))
         /\ Announced(q, 1) =>
              \/ Head(q).type = "COORDINATOR"
              \/ Head(q).type # "RESOURCE_RESP_Y" /\ Announced(Tail(q), 1)
         /\ Settled(q) => Settled(Tail(q))
         /\ Settled(q) /\ Head(q).type = "ELECTION_ACK" => Announced(Tail(q), 1)
         /\ Unbroken(q) => Unbroken(Tail(q))
<1> DEFINE r == Tail(q)
<1>1. /\ Len(q) \in Nat \ {0} /\ Len(r) = Len(q) - 1
      /\ \A i \in 1..Len(r) : r[i] = q[i + 1]
      /\ Head(q) = q[1]
  BY HeadTailProperties, EmptySeq
<1>2. \A i \in 2..Len(q) : i - 1 \in 1..Len(r) /\ r[i - 1] = q[i]
  BY <1>1
<1> HIDE DEF r
<1>3. \A t : Has(q, t) <=> Head(q).type = t \/ Has(r, t)
  BY <1>1, <1>2 DEF Has
<1>4. ASSUME NEW s, NEW t
      PROVE  Before(q, s, t) <=> Before(r, s, t) \/ (Head(q).type = s /\ Has(r, t))
  <2>1. ASSUME Before(q, s, t) PROVE Before(r, s, t) \/ (Head(q).type = s /\ Has(r, t))
    <3>1. PICK i \in 1..Len(q), j \in 1..Len(q) : i < j /\ q[i].type = s /\ q[j].type = t
      BY <2>1 DEF Before
    <3>2. j - 1 \in 1..Len(r) /\ r[j - 1].type = t
      BY <1>1, <1>2, <3>1
    <3>3. CASE i = 1
      BY <1>1, <3>1, <3>2, <3>3 DEF Has
    <3>4. CASE i > 1
      BY <1>1, <1>2, <3>1, <3>2, <3>4 DEF Before
    <3> QED
      BY <3>1, <3>3, <3>4
  <2>2. ASSUME Before(r, s, t) PROVE Before(q, s, t)
    <3>1. PICK i \in 1..Len(r), j \in 1..Len(r) : i < j /\ r[i].type = s /\ r[j].type = t
      BY <2>2 DEF Before
    <3>2. i + 1 \in 1..Len(q) /\ j + 1 \in 1..Len(q) /\ q[i + 1].type = s /\ q[j + 1].type = t
      BY <1>1, <3>1
    <3> QED
      BY <1>1, <3>1, <3>2 DEF Before
  <2>3. ASSUME Head(q).type = s, Has(r, t) PROVE Before(q, s, t)
    <3>1. PICK j \in 1..Len(r) : r[j].type = t
      BY <2>3 DEF Has
    <3>2. j + 1 \in 1..Len(q) /\ 1 < j + 1 /\ 1 \in 1..Len(q) /\ q[j + 1].type = t
      BY <1>1, <3>1
    <3> QED
      BY <1>1, <2>3, <3>2 DEF Before
  <2> QED
    BY <2>1, <2>2, <2>3
<1>5. ASSUME NEW i \in 1..Len(r), Announced(q, i + 1) PROVE Announced(r, i)
  <2>1. PICK j \in (i + 1)..Len(q) :
          q[j].type = "COORDINATOR" /\ \A k \in (i + 1)..j : q[k].type # "RESOURCE_RESP_Y"
    BY <1>5 DEF Announced
  <2>2. j - 1 \in i..Len(r) /\ r[j - 1].type = "COORDINATOR"
    BY <1>1, <1>2, <2>1
  <2>3. \A k \in i..(j - 1) : r[k].type # "RESOURCE_RESP_Y"
    BY <1>1, <2>1, <2>2
  <2> QED
    BY <2>2, <2>3 DEF Announced
<1>6. ASSUME Announced(q, 1), Head(q).type # "COORDINATOR"
      PROVE  Head(q).type # "RESOURCE_RESP_Y" /\ Announced(r, 1)
  <2>1. PICK j \in 1..Len(q) :
          q[j].type = "COORDINATOR" /\ \A k \in 1..j : q[k].type # "RESOURCE_RESP_Y"
    BY <1>6 DEF Announced
  <2>2. j > 1 /\ 1 \in 1..j
    BY <1>1, <1>6, <2>1
  <2>3. 1 \in 1..Len(r) /\ Announced(q, 1 + 1)
    BY <1>1, <2>1, <2>2 DEF Announced
  <2> QED
    BY <1>1, <1>5, <2>1, <2>2, <2>3
<1>7. Settled(q) => Settled(r)
  BY <1>1, <1>5 DEF Settled
<1>8. ASSUME Settled(q), Head(q).type = "ELECTION_ACK" PROVE Announced(r, 1)
  <2>1. Announced(q, 1)
    BY <1>1, <1>8 DEF Settled
  <2> QED
    BY <1>6, <1>8, <2>1
<1>9. Unbroken(q) => Unbroken(r)
  BY <1>1, <1>5 DEF Unbroken
<1> QED
  BY <1>3, <1>4, <1>6, <1>7, <1>8, <1>9 DEF r

\* The messages that start, end or interrupt an election; the others nobody
\* reacts to in a way that matters here.
Telling == {"ELECTION_REQ", "ELECTION_ACK", "COORDINATOR", "RESOURCE_RESP_Y"}
SmallTalk == {m \in PeerMessage : m.type \notin Telling}

\* In r stands what stands in q, but for small talk.
Alike(q, r) ==
  /\ \A t \in Telling : Has(r, t) <=> Has(q, t)
  /\ \A s, t \in Telling : Before(r, s, t) <=> Before(q, s, t)
  /\ Announced(q, 1) => Announced(r, 1)
  /\ Settled(q) => Settled(r)
  /\ Unbroken(q) => Unbroken(r)

\* Small talk makes no difference at the end of a queue nor at its head.
LEMMA AlikeSmallTalk ==
  ASSUME NEW q \in Seq(PeerMessage)
  PROVE  /\ Alike(q, q)
         /\ \A m \in SmallTalk : Alike(q, Append(q, m))
         /\ q # <<>> /\ Head(q) \in SmallTalk => Alike(q, Tail(q))
<1>1. Alike(q, q)
  BY DEF Alike
<1>2. ASSUME NEW m \in SmallTalk PROVE Alike(q, Append(q, m))
  <2>1. m \in PeerMessage /\ m.type \notin Telling
    BY DEF SmallTalk
  <2> QED
    BY <2>1, HoldsAppend DEF Alike, Telling
<1>3. ASSUME q # <<>>, Head(q) \in SmallTalk PROVE Alike(q, Tail(q))
  <2>1. Head(q).type \notin Telling
    BY <1>3 DEF SmallTalk
  <2> QED
    BY <1>3, <2>1, HoldsTail DEF Alike, Telling
<1> QED
  BY <1>1, <1>2, <1>3

\* Neither do two such changes.
LEMMA AlikeTwice ==
  ASSUME NEW p, NEW q, NEW r, Alike(p, q), Alike(q, r)
  PROVE  Alike(p, r)
BY DEF Alike

\* Posting small talk to whomever.
LEMMA AlikePost ==
  ASSUME NEW q \in [Node -> Seq(PeerMessage)], NEW D, NEW n \in Node,
         NEW t \in PeerType \ Telling, NEW k \in Node
  PROVE  Alike(q[k], Post(q, D, Msg(t, n))[k])
<1>1. Msg(t, n) \in SmallTalk
  BY MsgType DEF SmallTalk, Msg
<1>2. Post(q, D, Msg(t, n))[k] \in {q[k], Append(q[k], Msg(t, n))}
  BY DEF Post
<1> QED
  BY <1>1, <1>2, AlikeSmallTalk

\* The rest of a coordinator's turn is small talk.
LEMMA AlikeCheck ==
  ASSUME NEW q \in [Node -> Seq(PeerMessage)], NEW n \in Node, NEW user,
         checkIfAlive(n, user, q), NEW k \in Node
  PROVE  Alike(q[k], queue'[k])
<1>1. CASE queue' = q
  BY <1>1, AlikeSmallTalk
<1>2. CASE queue' = Post(q, {user}, Msg("USER_ALIVE_CHECK", n))
  BY <1>2, AlikePost DEF PeerType, Telling
<1> QED
  BY <1>1, <1>2 DEF checkIfAlive

\* A step that neither starts nor ends an election nor reads anything that could.
Chatters(n) ==
  /\ ~StartElection(n) /\ ~BecomeCoordinator(n)
  /\ ~RecvCoordinator(n) /\ ~RecvElectionReq(n) /\ ~RecvElectionAck(n) /\ ~RecvGranted(n)
  /\ ~UsePoll(n) /\ ~StepDown(n) /\ ~CoordIgnored(n)

\* The actions that do nothing of the kind exclude those that do.
LEMMA ChattersOtherwise ==
  ASSUME NEW n,
         \/ EnterIdle(n) \/ RecvCoordAlive(n) \/ RecvDenied(n) \/ RecvIgnored(n)
         \/ KeepWaiting(n) \/ freeResource(n)
         \/ GrantResource(n) \/ DenyResource(n) \/ ResourceFreed(n) \/ NoResourceMessage(n)
         \/ CoordTimeout(n) \/ CoordPing(n) \/ CoordUserAck(n)
  PROVE  Chatters(n)
<1>1. CASE EnterIdle(n) \/ GrantResource(n) \/ DenyResource(n) \/ ResourceFreed(n) \/ NoResourceMessage(n)
  <2>1. pc[n] = "top" /\ myState[n] \in {"IDLE", "COORDINATOR"}
    BY <1>1 DEF EnterIdle, GrantResource, DenyResource, ResourceFreed, NoResourceMessage,
                ReceivesResource, AtCoordinatorTop
  <2> QED
    BY <2>1 DEF Chatters, StartElection, BecomeCoordinator, TimedOut, RecvCoordinator,
                RecvElectionReq, RecvElectionAck, RecvGranted, Receives, UsePoll, StepDown,
                CoordIgnored, CoordReceives
<1>2. CASE RecvCoordAlive(n) \/ RecvDenied(n) \/ RecvIgnored(n)
  <2>1. /\ pc[n] = "recv" /\ queue[n] # <<>>
        /\ Head(queue[n]).type \notin Telling
    BY <1>2 DEF RecvCoordAlive, RecvDenied, RecvIgnored, Receives, Telling
  <2> QED
    BY <2>1 DEF Chatters, StartElection, BecomeCoordinator, TimedOut, RecvCoordinator,
                RecvElectionReq, RecvElectionAck, RecvGranted, Receives, UsePoll, StepDown,
                CoordIgnored, CoordReceives, Telling
<1>3. CASE KeepWaiting(n)
  <2>1. /\ pc[n] = "recv" /\ queue[n] = <<>>
        /\ ~(electionOpen[n] /\ ToleranceOver(n))
    BY <1>3 DEF KeepWaiting, TimedOut
  <2> QED
    BY <2>1 DEF Chatters, StartElection, BecomeCoordinator, RecvCoordinator,
                RecvElectionReq, RecvElectionAck, RecvGranted, Receives, UsePoll, StepDown,
                CoordIgnored, CoordReceives
<1>4. CASE freeResource(n)
  BY <1>4 DEF freeResource, Chatters, StartElection, BecomeCoordinator, TimedOut,
              RecvCoordinator, RecvElectionReq, RecvElectionAck, RecvGranted, Receives,
              UsePoll, StepDown, CoordIgnored, CoordReceives
<1>5. CASE CoordTimeout(n) \/ CoordPing(n) \/ CoordUserAck(n)
  <2>1. /\ pc[n] = "coord"
        /\ queue[n] # <<>> => Head(queue[n]).type \in {"COORD_PING", "USER_ALVIE_ACK"}
    BY <1>5 DEF CoordTimeout, CoordPing, CoordUserAck, CoordReceives
  <2> QED
    BY <2>1 DEF Chatters, StartElection, BecomeCoordinator, TimedOut, RecvCoordinator,
                RecvElectionReq, RecvElectionAck, RecvGranted, Receives, UsePoll, StepDown,
                CoordIgnored, CoordReceives
<1> QED
  BY <1>1, <1>2, <1>3, <1>4, <1>5

\* All that a step says to another node, small talk aside: it convocates, takes
\* over, acknowledges an election or grants the resource.
LEMMA SaidToOthers ==
  ASSUME TypeOK, NEW n \in Node, NodeStep(n), NEW k \in Node, k # n,
         ~StartElection(n), ~RecvElectionReq(n), ~BecomeCoordinator(n),
         GrantResource(n) => k # Requester(n)
  PROVE  Alike(queue[k], queue'[k])
<1>0. queue \in [Node -> Seq(PeerMessage)]
  BY DEF TypeOK
<1>1. CASE queue' = queue
  BY <1>0, <1>1, AlikeSmallTalk
<1>2. CASE queue' = Received(n)
  <2>1. queue'[k] = queue[k]
    BY <1>0, <1>2 DEF Received
  <2> QED
    BY <1>0, <2>1, AlikeSmallTalk
<1>3. CASE EnterIdle(n)
  <2>1. CASE queue' = Post(queue, {COORD_ID[n]}, Msg("COORD_PING", n))
    BY <1>0, <2>1, AlikePost DEF PeerType, Telling
  <2> QED
    BY <1>1, <1>3, <2>1 DEF EnterIdle
<1>4. ASSUME NEW D, NEW t \in PeerType \ Telling, queue[n] # <<>>,
             queue' = Post(Received(n), D, Msg(t, n))
      PROVE  Alike(queue[k], queue'[k])
  <2>1. Received(n) \in [Node -> Seq(PeerMessage)] /\ Received(n)[k] = queue[k]
    BY <1>0, <1>4, ReceivedType DEF Received
  <2> QED
    BY <1>4, <2>1, AlikePost
<1>5. CASE UsePoll(n)
  <2>1. CASE queue[n] # <<>> /\ queue' = Post(Received(n), {granter[n]}, Msg("USER_ALVIE_ACK", n))
    BY <1>4, <2>1 DEF PeerType, Telling
  <2> QED
    BY <1>1, <1>2, <1>5, <2>1 DEF UsePoll
<1>6. CASE CoordPing(n)
  BY <1>4, <1>6 DEF CoordPing, CoordReceives, PeerType, Telling
<1>7. CASE GrantResource(n)
  <2> DEFINE q == Post(queue, {Requester(n)}, Msg("RESOURCE_RESP_Y", n))
  <2>1. q \in [Node -> Seq(PeerMessage)]
    BY <1>0, PostType, MsgType DEF PeerType
  <2>2. q[k] = queue[k]
    BY <1>7 DEF Post
  <2>3. checkIfAlive(n, Requester(n), q)
    BY <1>7 DEF GrantResource
  <2> HIDE DEF q
  <2> QED
    BY <2>1, <2>2, <2>3, AlikeCheck
<1>8. CASE DenyResource(n)
  <2> DEFINE q == Post(queue, {Requester(n)}, Msg("RESOURCE_RESP_N", n))
  <2>1. q \in [Node -> Seq(PeerMessage)]
    BY <1>0, PostType, MsgType DEF PeerType
  <2>2. Alike(queue[k], q[k])
    BY <1>0, AlikePost DEF PeerType, Telling
  <2>3. checkIfAlive(n, resourceUser[n], q)
    BY <1>8 DEF DenyResource
  <2> HIDE DEF q
  <2>4. Alike(q[k], queue'[k])
    BY <2>1, <2>3, AlikeCheck
  <2> QED
    BY <2>2, <2>4, AlikeTwice
<1>9. CASE ResourceFreed(n) \/ NoResourceMessage(n)
  BY <1>0, <1>9, AlikeCheck DEF ResourceFreed, NoResourceMessage
<1>10. \/ queue' = queue \/ queue' = Received(n) \/ EnterIdle(n) \/ UsePoll(n) \/ CoordPing(n)
       \/ GrantResource(n) \/ DenyResource(n) \/ ResourceFreed(n) \/ NoResourceMessage(n)
  BY DEF NodeStep, TopStep, RecvStep, TimeoutStep, UseStep, CoordStep, Die, RecvCoordinator,
         RecvElectionAck, RecvCoordAlive, RecvGranted, RecvDenied, RecvIgnored, PingFailed,
         RequestFailed, KeepWaiting, freeResource, CoordTimeout, CoordUserAck, StepDown,
         CoordIgnored, netVars
<1> QED
  BY <1>1, <1>2, <1>3, <1>5, <1>6, <1>7, <1>8, <1>9, <1>10

\* What a node finds in its own queue after a step in which it has read nothing
\* but small talk.
LEMMA SaidToItself ==
  ASSUME TypeOK, BullyOrder, NEW n \in Node, NodeStep(n),
         ~RecvCoordinator(n), ~RecvElectionReq(n), ~RecvElectionAck(n), ~RecvGranted(n),
         ~UsePoll(n), ~StepDown(n), ~CoordIgnored(n)
  PROVE  Alike(queue[n], queue'[n])
<1>0. queue \in [Node -> Seq(PeerMessage)]
  BY DEF TypeOK
<1>1. CASE queue'[n] = queue[n]
  BY <1>0, <1>1, AlikeSmallTalk
<1>2. CASE StartElection(n)
  BY <1>0, <1>1, <1>2 DEF StartElection, convocateElection, Post, Above, Node
<1>3. CASE BecomeCoordinator(n)
  BY <1>0, <1>1, <1>3 DEF BecomeCoordinator, sendCoordinatorMsg, Post, Below, Node
<1>4. CASE EnterIdle(n)
  <2>1. CASE queue' = Post(queue, {COORD_ID[n]}, Msg("COORD_PING", n))
    BY <1>0, <2>1, AlikePost DEF PeerType, Telling
  <2> QED
    BY <1>1, <1>4, <2>1 DEF EnterIdle
<1>5. ASSUME queue[n] # <<>>, Head(queue[n]).type \in PeerType \ Telling
      PROVE  /\ Received(n) \in [Node -> Seq(PeerMessage)]
             /\ Alike(queue[n], Received(n)[n])
  <2>1. Head(queue[n]) \in SmallTalk
    BY <1>0, <1>5, TakeType DEF SmallTalk
  <2>2. Received(n)[n] = Tail(queue[n])
    BY <1>0 DEF Received
  <2> QED
    BY <1>0, <1>5, <2>1, <2>2, ReceivedType, AlikeSmallTalk
<1>6. CASE RecvCoordAlive(n) \/ RecvDenied(n) \/ RecvIgnored(n) \/ CoordUserAck(n)
  BY <1>5, <1>6
  DEF RecvCoordAlive, RecvDenied, RecvIgnored, CoordUserAck, Receives, CoordReceives, PeerType, Telling
<1>7. CASE CoordPing(n)
  <2>1. queue[n] # <<>> /\ Head(queue[n]).type = "COORD_PING"
    BY <1>7 DEF CoordPing, CoordReceives
  <2>2. Alike(Received(n)[n], queue'[n])
    BY <1>5, <1>7, <2>1, AlikePost DEF CoordPing, PeerType, Telling
  <2> QED
    BY <1>5, <2>1, <2>2, AlikeTwice DEF PeerType, Telling
<1>8. CASE GrantResource(n)
  <2> DEFINE q == Post(queue, {Requester(n)}, Msg("RESOURCE_RESP_Y", n))
  <2>1. q \in [Node -> Seq(PeerMessage)]
    BY <1>0, PostType, MsgType DEF PeerType
  <2>2. Requester(n) # n
    BY <1>8, ResourceReceivedLegal, ResourceReceivedType DEF GrantResource, Node
  <2>3. q[n] = queue[n]
    BY <2>2 DEF Post
  <2>4. checkIfAlive(n, Requester(n), q)
    BY <1>8 DEF GrantResource
  <2> HIDE DEF q
  <2> QED
    BY <2>1, <2>3, <2>4, AlikeCheck
<1>9. CASE DenyResource(n)
  <2> DEFINE q == Post(queue, {Requester(n)}, Msg("RESOURCE_RESP_N", n))
  <2>1. q \in [Node -> Seq(PeerMessage)]
    BY <1>0, PostType, MsgType DEF PeerType
  <2>2. Alike(queue[n], q[n])
    BY <1>0, AlikePost DEF PeerType, Telling
  <2>3. checkIfAlive(n, resourceUser[n], q)
    BY <1>9 DEF DenyResource
  <2> HIDE DEF q
  <2>4. Alike(q[n], queue'[n])
    BY <2>1, <2>3, AlikeCheck
  <2> QED
    BY <2>2, <2>4, AlikeTwice
<1>10. CASE ResourceFreed(n) \/ NoResourceMessage(n)
  BY <1>0, <1>10, AlikeCheck DEF ResourceFreed, NoResourceMessage
<1>11. \/ queue' = queue \/ StartElection(n) \/ BecomeCoordinator(n) \/ EnterIdle(n)
       \/ RecvCoordAlive(n) \/ RecvDenied(n) \/ RecvIgnored(n) \/ CoordUserAck(n) \/ CoordPing(n)
       \/ GrantResource(n) \/ DenyResource(n) \/ ResourceFreed(n) \/ NoResourceMessage(n)
  BY DEF NodeStep, TopStep, RecvStep, TimeoutStep, UseStep, CoordStep, Die, PingFailed,
         RequestFailed, KeepWaiting, freeResource, CoordTimeout, netVars
<1> QED
  BY <1>1, <1>2, <1>3, <1>4, <1>6, <1>7, <1>8, <1>9, <1>10, <1>11

-----------------------------------------------------------------------------
(* The two nodes with the highest ids *)

Highest == N_CONNECTED
Second == N_CONNECTED - 1

\* The second highest node never draws to ask for the resource.  With two nodes
\* there is nothing to abstain from: it is the only one to ask.
SecondAbstains == N_CONNECTED > 1 => ~requested[Second]

\* A node that receives and knows a coordinator waits for an answer of it.
AwaitsCoordinator ==
  \A n \in Node : pc[n] = "recv" /\ COORD_ID[n] # None => pinged[n] \/ requested[n]

\* A coordinator has no election open.
CoordinatorStandsNot == \A n \in Node : myState[n] = "COORDINATOR" => ~electionOpen[n]

\* With three nodes or more, who never asks is never granted anything.
OthersRequest == {m \in ResourceMessage : ~(m.type = "RESOURCE_REQ" /\ m.from = Second)}
SecondUsesNot ==
  N_CONNECTED > 1 =>
    /\ pc[Second] # "using"
    /\ ~Has(queue[Second], "RESOURCE_RESP_Y")
    /\ rqueue \in [Node -> Seq(OthersRequest)]

\* Before the first election.
Fresh ==
  /\ pc[0] = "top" /\ myState[0] = "CANDIDATE"
  /\ \A n \in Node : /\ queue[n] = <<>> /\ rqueue[n] = <<>>
                     /\ COORD_ID[n] = None
                     /\ ~electionOpen[n] /\ ~pinged[n] /\ ~requested[n]
  /\ \A n \in Node \ {0} : pc[n] = "recv" /\ myState[n] = "IDLE"

\* An election request, and more than one, is on its way to the highest node.
Called == Has(queue[Highest], "ELECTION_REQ")
CalledTwice == Before(queue[Highest], "ELECTION_REQ", "ELECTION_REQ")

\* The second highest node has heard of the highest as its coordinator, or will;
\* or else it takes no part in an election, and then the first to convocate one
\* calls both.
SecondKnows ==
  /\ Settled(queue[Second])
  /\ \/ N_CONNECTED = 1
     \/ Has(queue[Second], "COORDINATOR")
     \/ COORD_ID[Second] # None
     \/ myState[Second] # "COORDINATOR" /\ ~electionOpen[Second]

\* The second highest node goes on of itself: it has a loop to go round, a
\* coordinator to ask, an election request or an announcement to come to, or an
\* election open that it only withdraws for one.  As a coordinator it does not step
\* down, or finds an election request after the message it steps down for.
SecondStirs ==
  \/ myState[Second] \in {"DEAD", "CANDIDATE"}
  \/ COORD_ID[Second] # None
  \/ myState[Second] = "IDLE" /\ N_CONNECTED > 1 /\ Has(queue[Second], "ELECTION_REQ")
  \/ myState[Second] = "IDLE" /\ pc[Second] # "using" /\ Announced(queue[Second], 1)
  \/ myState[Second] = "IDLE" /\ electionOpen[Second] /\ Settled(queue[Second])
  \/ /\ myState[Second] = "COORDINATOR"
     /\ \/ N_CONNECTED > 1 /\ Before(queue[Second], "COORDINATOR", "ELECTION_REQ")
        \/ ~Has(queue[Second], "ELECTION_REQ") /\ ~Has(queue[Second], "COORDINATOR")

\* What keeps the two from waiting for each other.  While the highest is dead, a
\* candidate, stands, or has an election request to come to when it is idle, it
\* goes on by itself, and nothing is needed of the second.  The one request that
\* makes the highest step down, though, was sent with one to the second, or by it.
Linked ==
  /\ Unbroken(queue[Second])
  /\ myState[Highest] = "COORDINATOR" => Settled(queue[Second])
  /\ myState[Highest] = "COORDINATOR" /\ ~Called => SecondKnows
  /\ myState[Highest] = "COORDINATOR" /\ Called /\ ~CalledTwice => SecondStirs
  /\ myState[Highest] = "IDLE" /\ ~electionOpen[Highest] /\ ~Called => SecondStirs

WInv ==
  /\ IInv
  /\ AwaitsCoordinator /\ CoordinatorStandsNot /\ SecondUsesNot
  /\ Fresh \/ Linked

-----------------------------------------------------------------------------
(* Why the invariant excludes that all nodes wait *)

\* The two are nodes.
LEMMA TwoNodes ==
  /\ N_CONNECTED \in Nat \ {0}
  /\ Highest \in Node /\ Second \in Node /\ Second # Highest
  /\ N_CONNECTED = 1 <=> Second = 0
BY NodesAssumption DEF Highest, Second, Node

\* If the highest node waits for a message, the second highest has not come to.
LEMMA SomebodyGoesOn == WInv => NoWedge
<1> SUFFICES ASSUME WInv, \A n \in Node : Passive(n) PROVE FALSE
  BY DEF NoWedge
<1>1. ASSUME NEW n \in Node
      PROVE  /\ pc[n] = "recv" /\ myState[n] = "IDLE" /\ queue[n] = <<>>
             /\ ~electionOpen[n] /\ COORD_ID[n] = None
  BY DEF Passive, WInv, IInv, AtHome, AwaitsCoordinator
<1>2. ~Fresh
  BY <1>1, NodesAssumption DEF Fresh, Node
<1>3. SecondStirs
  BY <1>1, <1>2, TwoNodes, HoldsNothing DEF WInv, Linked, Called
<1>4. ~Announced(<<>>, 1) /\ ~Has(<<>>, "ELECTION_REQ")
  BY DEF Announced, Has
<1> QED
  BY <1>1, <1>3, <1>4, TwoNodes DEF SecondStirs

-----------------------------------------------------------------------------
(* The parts of the invariant that concern one node *)

\* Nobody has done anything.
LEMMA WedgeInit == Init => AwaitsCoordinator /\ CoordinatorStandsNot /\ SecondUsesNot /\ Fresh
<1> SUFFICES ASSUME Init
             PROVE  AwaitsCoordinator /\ CoordinatorStandsNot /\ SecondUsesNot /\ Fresh
  OBVIOUS
<1>1. Fresh
  BY NodesAssumption DEF Init, Fresh, Node
<1>2. AwaitsCoordinator /\ CoordinatorStandsNot
  BY DEF Init, AwaitsCoordinator, CoordinatorStandsNot
<1>3. SecondUsesNot
  BY TwoNodes, HoldsNothing, EmptySeq DEF Init, SecondUsesNot
<1> QED
  BY <1>1, <1>2, <1>3

\* A node that begins to receive pings its coordinator, a node that stops
\* waiting for an answer leaves the receive, and a takeover closes the election.
LEMMA OwnStep ==
  ASSUME TypeOK, AtHome, AwaitsCoordinator, CoordinatorStandsNot, NEW n \in Node, NodeStep(n)
  PROVE  AwaitsCoordinator' /\ CoordinatorStandsNot'
<1>1. ASSUME NEW k \in Node, k # n
      PROVE  /\ pc'[k] = "recv" /\ COORD_ID'[k] # None => pinged'[k] \/ requested'[k]
             /\ myState'[k] = "COORDINATOR" => ~electionOpen'[k]
  BY <1>1, OtherNodeUndisturbed DEF AwaitsCoordinator, CoordinatorStandsNot
<1>2. pc'[n] = "recv" /\ COORD_ID'[n] # None => pinged'[n] \/ requested'[n]
  <2>1. CASE TopStep(n)
    BY <2>1 DEF TopStep, Die, StartElection, EnterIdle, Set, TypeOK
  <2>2. CASE RecvStep(n)
    BY <2>2 DEF RecvStep, RecvCoordinator, RecvElectionReq, RecvElectionAck, RecvCoordAlive,
                RecvGranted, RecvDenied, RecvIgnored, Receives, convocateElection, waitVars,
                Set, TypeOK, AwaitsCoordinator
  <2>3. CASE TimeoutStep(n)
    BY <2>3 DEF TimeoutStep, BecomeCoordinator, PingFailed, RequestFailed, KeepWaiting,
                TimedOut, Set, TypeOK, AwaitsCoordinator
  <2>4. CASE UseStep(n)
    BY <2>4 DEF UseStep, UsePoll, freeResource, Set, TypeOK
  <2>5. CASE CoordStep(n)
    BY <2>5 DEF CoordStep, GrantResource, DenyResource, ResourceFreed, NoResourceMessage,
                checkIfAlive, CoordTimeout, CoordPing, CoordUserAck, StepDown, CoordIgnored,
                CoordReceives, Set, TypeOK
  <2> QED
    BY <2>1, <2>2, <2>3, <2>4, <2>5 DEF NodeStep
<1>3. myState'[n] = "COORDINATOR" => ~electionOpen'[n]
  <2>1. CASE TopStep(n)
    BY <2>1 DEF TopStep, Die, StartElection, EnterIdle, waitVars, Set, TypeOK, CoordinatorStandsNot
  <2>2. CASE RecvStep(n)
    BY <2>2 DEF RecvStep, RecvCoordinator, RecvElectionReq, RecvElectionAck, RecvCoordAlive,
                RecvGranted, RecvDenied, RecvIgnored, Receives, AtHome
  <2>3. CASE TimeoutStep(n)
    BY <2>3 DEF TimeoutStep, BecomeCoordinator, sendCoordinatorMsg, PingFailed, RequestFailed,
                KeepWaiting, TimedOut, Set, TypeOK, CoordinatorStandsNot
  <2>4. CASE UseStep(n)
    BY <2>4 DEF UseStep, UsePoll, freeResource, waitVars, CoordinatorStandsNot
  <2>5. CASE CoordStep(n)
    BY <2>5 DEF CoordStep, GrantResource, DenyResource, ResourceFreed, NoResourceMessage,
                checkIfAlive, CoordTimeout, CoordPing, CoordUserAck, StepDown, CoordIgnored,
                waitVars, Set, TypeOK, CoordinatorStandsNot
  <2> QED
    BY <2>1, <2>2, <2>3, <2>4, <2>5 DEF NodeStep
<1> QED
  BY <1>1, <1>2, <1>3 DEF AwaitsCoordinator, CoordinatorStandsNot

-----------------------------------------------------------------------------
(* What the steps that matter say to whom *)

\* A convocation goes to every node above in one step; the request it answers,
\* if any, is off the queue, and acknowledged.
LEMMA Convocated ==
  ASSUME TypeOK, BullyOrder, NEW n \in Node, StartElection(n) \/ RecvElectionReq(n),
         NEW k \in Node
  PROVE  /\ k > n => queue'[k] = Append(queue[k], Msg("ELECTION_REQ", n))
         /\ k < n => queue'[k] \in {queue[k], Append(queue[k], Msg("ELECTION_ACK", n))}
         /\ StartElection(n) => queue'[n] = queue[n]
         /\ RecvElectionReq(n) => /\ queue[n] # <<>>
                                  /\ Head(queue[n]).type = "ELECTION_REQ"
                                  /\ queue'[n] = Tail(queue[n])
<1>1. CASE StartElection(n)
  <2>1. queue' = Post(queue, Above(n), Msg("ELECTION_REQ", n))
    BY <1>1 DEF StartElection, convocateElection
  <2>2. ~RecvElectionReq(n)
    BY <1>1 DEF StartElection, RecvElectionReq, Receives
  <2> QED
    BY <2>1, <2>2 DEF Post, Above, Node, TypeOK
<1>2. CASE RecvElectionReq(n)
  <2>1. /\ queue[n] # <<>> /\ Head(queue[n]).type = "ELECTION_REQ"
        /\ queue' = Post(Post(Received(n), {Sender(n)}, Msg("ELECTION_ACK", n)),
                         Above(n), Msg("ELECTION_REQ", n))
    BY <1>2 DEF RecvElectionReq, Receives, convocateElection
  <2>2. Head(queue[n]) \in LegalTo(n)
    BY <2>1, ReceivedLegal
  <2>3. Sender(n) \in Node /\ Sender(n) < n
    BY <2>1, <2>2 DEF LegalTo, FromBelow, PeerMessage, Sender
  <2>4. Received(n)[k] = IF k = n THEN Tail(queue[n]) ELSE queue[k]
    BY DEF Received, TypeOK
  <2>5. Received(n)[n] = Tail(queue[n])
    BY DEF Received, TypeOK
  <2>6. ~StartElection(n)
    BY <1>2 DEF StartElection, RecvElectionReq, Receives
  <2>7. k > n => queue'[k] = Append(queue[k], Msg("ELECTION_REQ", n))
    <3> SUFFICES ASSUME k > n PROVE queue'[k] = Append(queue[k], Msg("ELECTION_REQ", n))
      OBVIOUS
    <3>1. k \in Above(n) /\ k # Sender(n) /\ Received(n)[k] = queue[k]
      BY <2>3, <2>4 DEF Above, Node
    <3> QED
      BY <2>1, <3>1 DEF Post
  <2>8. k < n => queue'[k] \in {queue[k], Append(queue[k], Msg("ELECTION_ACK", n))}
    <3> SUFFICES ASSUME k < n PROVE queue'[k] \in {queue[k], Append(queue[k], Msg("ELECTION_ACK", n))}
      OBVIOUS
    <3>1. k \notin Above(n) /\ Received(n)[k] = queue[k]
      BY <2>4 DEF Above, Node
    <3> QED
      BY <2>1, <3>1 DEF Post
  <2>9. queue'[n] = Tail(queue[n])
    BY <2>1, <2>3, <2>5 DEF Post, Above, Node
  <2> QED
    BY <2>1, <2>6, <2>7, <2>8, <2>9
<1> QED
  BY <1>1, <1>2

\* A takeover is announced to every node below.
LEMMA TookOver ==
  ASSUME TypeOK, NEW n \in Node, BecomeCoordinator(n), NEW k \in Node
  PROVE  /\ k < n => queue'[k] = Append(queue[k], Msg("COORDINATOR", n))
         /\ k >= n => queue'[k] = queue[k]
BY DEF BecomeCoordinator, sendCoordinatorMsg, Post, Below, Node

\* A grant reaches the requester, perhaps with an alive check.
LEMMA Granted ==
  ASSUME TypeOK, NEW n \in Node, GrantResource(n), NEW k \in Node, k = Requester(n)
  PROVE  Alike(Append(queue[k], Msg("RESOURCE_RESP_Y", n)), queue'[k])
<1> DEFINE q == Post(queue, {Requester(n)}, Msg("RESOURCE_RESP_Y", n))
<1>1. q \in [Node -> Seq(PeerMessage)]
  BY PostType, MsgType DEF PeerType, TypeOK
<1>2. q[k] = Append(queue[k], Msg("RESOURCE_RESP_Y", n))
  BY DEF Post
<1>3. checkIfAlive(n, Requester(n), q)
  BY DEF GrantResource
<1> HIDE DEF q
<1> QED
  BY <1>1, <1>2, <1>3, AlikeCheck

\* The types of the messages of an election.
LEMMA ElectionMessages ==
  ASSUME NEW n \in Node
  PROVE  \A t \in Telling : Msg(t, n) \in PeerMessage /\ Msg(t, n).type = t
BY MsgType DEF Telling, PeerType, Msg

\* A request for the resource, or its release, reaches a resource queue or gets lost.
LEMMA RequestsStay ==
  ASSUME TypeOK, NEW X, rqueue \in [Node -> Seq(X)], NEW n \in Node, NodeStep(n),
         requested'[n] => Msg("RESOURCE_REQ", n) \in X,
         Msg("FREE_RESOURCE", n) \in X
  PROVE  rqueue' \in [Node -> Seq(X)]
<1>1. ASSUME NEW u, PostResource(n, u), Msg(u, n) \in X PROVE rqueue' \in [Node -> Seq(X)]
  <2>1. COORD_ID[n] = None \/ COORD_ID[n] \in Node
    BY DEF TypeOK
  <2>2. CASE rqueue' = rqueue
    BY <2>2
  <2>3. CASE /\ COORD_ID[n] # None
             /\ rqueue' = Set(rqueue, COORD_ID[n], Append(rqueue[COORD_ID[n]], Msg(u, n)))
    <3>1. Append(rqueue[COORD_ID[n]], Msg(u, n)) \in Seq(X)
      BY <1>1, <2>1, <2>3, AppendProperties
    <3> QED
      BY <2>1, <2>3, <3>1 DEF Set
  <2> QED
    BY <1>1, <2>2, <2>3 DEF PostResource
<1>2. CASE RecvCoordAlive(n)
  <2>1. CASE rqueue' = rqueue
    BY <2>1
  <2>2. CASE PostResource(n, "RESOURCE_REQ") /\ requested' = Set(requested, n, TRUE)
    BY <1>1, <1>2, <2>2 DEF Set, TypeOK
  <2> QED
    BY <1>2, <2>1, <2>2 DEF RecvCoordAlive
<1>3. CASE freeResource(n)
  BY <1>1, <1>3 DEF freeResource
<1>4. CASE BecomeCoordinator(n)
  BY <1>4, EmptySeq DEF BecomeCoordinator, createResourceQueue, Set
<1>5. ASSUME NEW u, ReceivesResource(n, u) PROVE rqueue' \in [Node -> Seq(X)]
  BY <1>5, TakeType DEF ReceivesResource, Set
<1>6. CASE GrantResource(n) \/ DenyResource(n) \/ ResourceFreed(n)
  BY <1>5, <1>6 DEF GrantResource, DenyResource, ResourceFreed
<1>7. CASE rqueue' = rqueue
  BY <1>7
<1> QED
  BY <1>2, <1>3, <1>4, <1>6, <1>7
  DEF NodeStep, TopStep, RecvStep, TimeoutStep, UseStep, CoordStep, Die, StartElection,
      EnterIdle, RecvCoordinator, RecvElectionReq, RecvElectionAck, RecvGranted, RecvDenied,
      RecvIgnored, PingFailed, RequestFailed, KeepWaiting, UsePoll, NoResourceMessage,
      CoordTimeout, CoordPing, CoordUserAck, StepDown, CoordIgnored, netVars

\* A second highest node that never asks for the resource never gets it.
LEMMA SecondStep ==
  ASSUME TypeOK, BullyOrder, SecondUsesNot, SecondAbstains, SecondAbstains',
         NEW n \in Node, NodeStep(n)
  PROVE  SecondUsesNot'
<1> SUFFICES ASSUME N_CONNECTED > 1
             PROVE  /\ pc'[Second] # "using"
                    /\ ~Has(queue'[Second], "RESOURCE_RESP_Y")
                    /\ rqueue' \in [Node -> Seq(OthersRequest)]
  BY DEF SecondUsesNot
<1>0. /\ pc[Second] # "using"
      /\ ~Has(queue[Second], "RESOURCE_RESP_Y")
      /\ rqueue \in [Node -> Seq(OthersRequest)]
      /\ ~requested[Second] /\ ~requested'[Second]
      /\ queue[Second] \in Seq(PeerMessage)
  BY TwoNodes DEF SecondUsesNot, SecondAbstains, TypeOK
<1>1. rqueue' \in [Node -> Seq(OthersRequest)]
  <2>1. requested'[n] => Msg("RESOURCE_REQ", n) \in OthersRequest
    BY <1>0, MsgType DEF OthersRequest, Msg, ResourceType
  <2>2. Msg("FREE_RESOURCE", n) \in OthersRequest
    BY MsgType DEF OthersRequest, Msg, ResourceType
  <2> QED
    BY <1>0, <2>1, <2>2, RequestsStay
<1>2. CASE n = Second
  <2>1. ~RecvGranted(n) /\ ~UsePoll(n)
    BY <1>0, <1>2, HoldsTail DEF RecvGranted, Receives, UsePoll
  <2>2. pc'[Second] # "using"
    BY <1>0, <1>2, <2>1
    DEF NodeStep, TopStep, RecvStep, TimeoutStep, UseStep, CoordStep, Die, StartElection,
        EnterIdle, RecvCoordinator, RecvElectionReq, RecvElectionAck, RecvCoordAlive,
        RecvDenied, RecvIgnored, BecomeCoordinator, PingFailed, RequestFailed, KeepWaiting,
        freeResource, GrantResource, DenyResource, ResourceFreed, NoResourceMessage,
        checkIfAlive, CoordTimeout, CoordPing, CoordUserAck, StepDown, CoordIgnored,
        CoordReceives, Set, TypeOK
  <2>3. CASE queue[n] # <<>> /\ queue'[n] = Tail(queue[n])
    BY <1>0, <1>1, <1>2, <2>2, <2>3, HoldsTail
  <2>4. CASE Alike(queue[n], queue'[n])
    BY <1>0, <1>1, <1>2, <2>2, <2>4 DEF Alike, Telling
  <2>5. CASE RecvElectionReq(n)
    BY <2>3, <2>5, Convocated
  <2>6. CASE RecvCoordinator(n) \/ RecvElectionAck(n) \/ StepDown(n) \/ CoordIgnored(n)
    BY <2>3, <2>6
    DEF RecvCoordinator, RecvElectionAck, StepDown, CoordIgnored, Receives, CoordReceives,
        Received, TypeOK
  <2> QED
    BY <2>1, <2>2, <2>4, <2>5, <2>6, SaidToItself
<1>3. CASE n # Second
  <2>1. pc'[Second] # "using"
    BY <1>0, <1>3, TwoNodes, OtherNodeUndisturbed
  <2>2. CASE queue'[Second] = queue[Second]
    BY <1>0, <1>1, <2>1, <2>2
  <2>3. ASSUME NEW t \in Telling \ {"RESOURCE_RESP_Y"},
               queue'[Second] = Append(queue[Second], Msg(t, n))
        PROVE  ~Has(queue'[Second], "RESOURCE_RESP_Y")
    BY <1>0, <2>3, ElectionMessages, HoldsAppend DEF Telling
  <2>4. CASE StartElection(n) \/ RecvElectionReq(n)
    <3>1. \/ queue'[Second] = queue[Second]
          \/ queue'[Second] = Append(queue[Second], Msg("ELECTION_REQ", n))
          \/ queue'[Second] = Append(queue[Second], Msg("ELECTION_ACK", n))
      BY <1>3, <2>4, Convocated, TwoNodes DEF Node
    <3> QED
      BY <1>0, <1>1, <2>1, <2>3, <3>1 DEF Telling
  <2>5. CASE BecomeCoordinator(n)
    <3>1. \/ queue'[Second] = queue[Second]
          \/ queue'[Second] = Append(queue[Second], Msg("COORDINATOR", n))
      BY <1>3, <2>5, TookOver, TwoNodes DEF Node
    <3> QED
      BY <1>0, <1>1, <2>1, <2>3, <3>1 DEF Telling
  <2>6. GrantResource(n) => Requester(n) # Second
    <3>1. GrantResource(n) => rqueue[n] # <<>> /\ Head(rqueue[n]).type = "RESOURCE_REQ"
      BY DEF GrantResource, ReceivesResource
    <3>2. rqueue[n] # <<>> => Head(rqueue[n]) \in OthersRequest
      BY <1>0, TakeType
    <3> QED
      BY <3>1, <3>2 DEF Requester, OthersRequest
  <2>7. CASE Alike(queue[Second], queue'[Second])
    BY <1>0, <1>1, <2>1, <2>7 DEF Alike, Telling
  <2> QED
    BY <1>3, <2>1, <2>4, <2>5, <2>6, <2>7, SaidToOthers, TwoNodes
<1> QED
  BY <1>1, <1>2, <1>3

-----------------------------------------------------------------------------
(* The links between the two *)

\* What only adds or takes small talk, and leaves the role and the election of
\* both nodes alone, leaves the links alone.
LEMMA LinkedFrame ==
  ASSUME Linked, Alike(queue[Second], queue'[Second]), Alike(queue[Highest], queue'[Highest]),
         myState'[Second] = myState[Second], COORD_ID'[Second] = COORD_ID[Second],
         electionOpen'[Second] = electionOpen[Second],
         pc'[Second] = "using" => pc[Second] = "using",
         myState'[Highest] = myState[Highest],
         electionOpen'[Highest] = electionOpen[Highest]
  PROVE  Linked'
<1>1. /\ Has(queue'[Highest], "ELECTION_REQ") <=> Has(queue[Highest], "ELECTION_REQ")
      /\ Before(queue'[Highest], "ELECTION_REQ", "ELECTION_REQ")
           <=> Before(queue[Highest], "ELECTION_REQ", "ELECTION_REQ")
  BY DEF Alike, Telling
<1>2. /\ Has(queue'[Second], "ELECTION_REQ") <=> Has(queue[Second], "ELECTION_REQ")
      /\ Has(queue'[Second], "COORDINATOR") <=> Has(queue[Second], "COORDINATOR")
      /\ Before(queue'[Second], "COORDINATOR", "ELECTION_REQ")
           <=> Before(queue[Second], "COORDINATOR", "ELECTION_REQ")
      /\ Announced(queue[Second], 1) => Announced(queue'[Second], 1)
      /\ Settled(queue[Second]) => Settled(queue'[Second])
      /\ Unbroken(queue[Second]) => Unbroken(queue'[Second])
  BY DEF Alike, Telling
<1>3. SecondKnows => SecondKnows'
  BY <1>2 DEF SecondKnows
<1>4. SecondStirs => SecondStirs'
  BY <1>2 DEF SecondStirs
<1> QED
  BY <1>1, <1>2, <1>3, <1>4 DEF Linked, Called, CalledTwice

\* An election request that is new to the highest node, when it is its only one,
\* finds the second highest as the highest has left it.
LEMMA LinkedCall ==
  ASSUME Linked, NEW n \in Node, queue[Highest] \in Seq(PeerMessage),
         queue'[Highest] = Append(queue[Highest], Msg("ELECTION_REQ", n)),
         myState'[Highest] = myState[Highest],
         Unbroken(queue'[Second]),
         Settled(queue[Second]) => Settled(queue'[Second]),
         SecondKnows => SecondStirs'
  PROVE  Linked'
<1>1. /\ Has(queue'[Highest], "ELECTION_REQ")
      /\ Has(queue[Highest], "ELECTION_REQ") =>
           Before(queue'[Highest], "ELECTION_REQ", "ELECTION_REQ")
  BY ElectionMessages, HoldsAppend DEF Telling
<1> QED
  BY <1>1 DEF Linked, Called, CalledTwice

\* Nodes below the two.
LEMMA LinkedBelow ==
  ASSUME TypeOK, BullyOrder, Linked, NEW n \in Node \ {Second, Highest}, NodeStep(n)
  PROVE  Linked'
<1>0. /\ Second \in Node /\ Highest \in Node /\ n < Second /\ n < Highest /\ N_CONNECTED > 1
      /\ queue[Second] \in Seq(PeerMessage) /\ queue[Highest] \in Seq(PeerMessage)
  BY TwoNodes DEF Node, Second, Highest, TypeOK
<1>1. \A k \in {Second, Highest} :
        /\ pc'[k] = pc[k] /\ myState'[k] = myState[k]
        /\ COORD_ID'[k] = COORD_ID[k] /\ electionOpen'[k] = electionOpen[k]
  BY <1>0, OtherNodeUndisturbed
<1>2. CASE StartElection(n) \/ RecvElectionReq(n)
  <2> DEFINE q == queue[Second]
             m == Msg("ELECTION_REQ", n)
  <2>1. queue'[Second] = Append(q, m) /\ queue'[Highest] = Append(queue[Highest], m)
    BY <1>0, <1>2, Convocated
  <2>2. m \in PeerMessage /\ m.type = "ELECTION_REQ"
    BY ElectionMessages DEF Telling
  <2>3. /\ Has(queue'[Second], "ELECTION_REQ")
        /\ Has(q, "COORDINATOR") => Before(queue'[Second], "COORDINATOR", "ELECTION_REQ")
        /\ Settled(q) => Settled(queue'[Second])
        /\ Unbroken(q) => Unbroken(queue'[Second])
    BY <1>0, <2>1, <2>2, HoldsAppend
  <2>4. SecondKnows => SecondStirs'
    <3>1. myState[Second] \in State
      BY <1>0 DEF TypeOK
    <3> QED
      BY <1>0, <1>1, <2>3, <3>1 DEF SecondKnows, SecondStirs, State
  <2> QED
    BY <1>0, <1>1, <2>1, <2>3, <2>4, LinkedCall DEF Linked
<1>3. CASE ~StartElection(n) /\ ~RecvElectionReq(n)
  <2>1. ASSUME NEW k \in {Second, Highest} PROVE Alike(queue[k], queue'[k])
    <3>1. k \in Node /\ k # n /\ k > n
      BY <1>0
    <3>2. CASE BecomeCoordinator(n)
      BY <1>0, <3>1, <3>2, TookOver, AlikeSmallTalk DEF Node
    <3>3. GrantResource(n) => k # Requester(n)
      BY <3>1, ResourceReceivedLegal, ResourceReceivedType DEF GrantResource, Node
    <3> QED
      BY <1>3, <3>1, <3>2, <3>3, SaidToOthers
  <2> QED
    BY <1>1, <2>1, LinkedFrame
<1> QED
  BY <1>2, <1>3

\* The highest node comes to no message that is not from below, and uses nothing.
LEMMA HighestHears ==
  ASSUME TypeOK, BullyOrder
  PROVE  /\ queue[Highest] # <<>> => Head(queue[Highest]).type \in FromBelow
         /\ pc[Highest] # "using"
<1>1. ASSUME queue[Highest] # <<>> PROVE Head(queue[Highest]).type \in FromBelow
  <2>1. Head(queue[Highest]) \in LegalTo(Highest)
    BY <1>1, TwoNodes, ReceivedLegal
  <2> QED
    BY <2>1, TwoNodes DEF LegalTo, PeerMessage, Node, Highest
<1>2. pc[Highest] # "using"
  <2>1. granter[Highest] \in Node \cup {None}
    BY TwoNodes DEF TypeOK
  <2> QED
    BY <2>1, TwoNodes DEF BullyOrder, Node, None, Highest
<1> QED
  BY <1>1, <1>2

\* The highest node.
LEMMA LinkedHighest ==
  ASSUME TypeOK, BullyOrder, AtHome, CoordinatorStandsNot, SecondUsesNot, Linked,
         NEW n \in Node, n = Highest, NodeStep(n)
  PROVE  Linked'
<1>0. /\ Second \in Node /\ Second # n /\ Second < n
      /\ queue[Second] \in Seq(PeerMessage) /\ queue[n] \in Seq(PeerMessage)
  BY TwoNodes DEF Node, Second, Highest, TypeOK
<1>1. /\ pc'[Second] = pc[Second] /\ myState'[Second] = myState[Second]
      /\ COORD_ID'[Second] = COORD_ID[Second] /\ electionOpen'[Second] = electionOpen[Second]
  BY <1>0, OtherNodeUndisturbed
<1>2. CASE Die(n) \/ PingFailed(n) \/ RequestFailed(n)
  <2>1. queue' = queue /\ myState'[n] \in {"DEAD", "CANDIDATE"}
    BY <1>2 DEF Die, PingFailed, RequestFailed, netVars, Set, TypeOK
  <2>2. Unbroken(queue'[Second])
    BY <2>1 DEF Linked
  <2>3. myState'[n] # "COORDINATOR" /\ myState'[n] # "IDLE"
    BY <2>1
  <2> QED
    BY <2>2, <2>3 DEF Linked
<1>3. CASE StartElection(n) \/ RecvElectionReq(n)
  <2>1. myState'[n] = "IDLE" /\ electionOpen'[n]
    BY <1>3 DEF StartElection, RecvElectionReq, Receives, convocateElection, Set, TypeOK, AtHome
  <2>2. queue'[Second] \in {queue[Second], Append(queue[Second], Msg("ELECTION_ACK", n))}
    BY <1>0, <1>3, Convocated
  <2>3. Unbroken(queue[Second])
    BY DEF Linked
  <2> DEFINE m == Msg("ELECTION_ACK", n)
  <2>4. m \in PeerMessage /\ m.type = "ELECTION_ACK"
    BY ElectionMessages DEF Telling
  <2>5. Unbroken(Append(queue[Second], m))
    BY <1>0, <2>3, <2>4, HoldsAppend
  <2>6. Unbroken(queue'[Second])
    BY <2>2, <2>3, <2>5
  <2> QED
    BY <2>1, <2>6 DEF Linked
<1>4. CASE BecomeCoordinator(n)
  <2>1. /\ queue'[Second] = Append(queue[Second], Msg("COORDINATOR", n))
        /\ queue'[n] = queue[n]
    BY <1>0, <1>4, TookOver DEF Node
  <2>2. queue[n] = <<>> /\ myState'[n] = "COORDINATOR"
    BY <1>4 DEF BecomeCoordinator, TimedOut, sendCoordinatorMsg, Set, TypeOK
  <2>3. /\ Settled(queue'[Second]) /\ Unbroken(queue'[Second])
        /\ Has(queue'[Second], "COORDINATOR")
    BY <1>0, <2>1, ElectionMessages, HoldsAppend DEF Linked, Telling
  <2>4. SecondKnows' /\ ~Called'
    BY <2>1, <2>2, <2>3, HoldsNothing DEF SecondKnows, Called
  <2> QED
    BY <2>2, <2>3, <2>4 DEF Linked
<1>5. CASE StepDown(n)
  <2>1. /\ pc[n] = "coord" /\ queue[n] # <<>>
        /\ Head(queue[n]).type \in {"ELECTION_REQ", "COORDINATOR"}
        /\ queue' = Received(n) /\ electionOpen' = electionOpen
        /\ myState'[n] = "IDLE"
    BY <1>5 DEF StepDown, CoordReceives, waitVars, Set, TypeOK
  <2>2. myState[n] = "COORDINATOR" /\ ~electionOpen'[n]
    BY <2>1 DEF AtHome, CoordinatorStandsNot
  <2>3. Head(queue[n]).type = "ELECTION_REQ"
    BY <2>1, HighestHears DEF FromBelow
  <2>4. queue'[Second] = queue[Second] /\ queue'[n] = Tail(queue[n])
    BY <1>0, <2>1 DEF Received, TypeOK
  <2>5. Called /\ (CalledTwice <=> Called' \/ Before(Tail(queue[n]), "ELECTION_REQ", "ELECTION_REQ"))
    BY <1>0, <2>1, <2>3, <2>4, HoldsTail DEF Called, CalledTwice
  <2>6. Before(Tail(queue[n]), "ELECTION_REQ", "ELECTION_REQ") => Called'
    BY <2>4 DEF Before, Has, Called
  <2>7. ~Called' => SecondStirs
    BY <2>2, <2>5, <2>6 DEF Linked
  <2>8. SecondStirs => SecondStirs'
    BY <1>1, <2>4 DEF SecondStirs
  <2> QED
    BY <2>1, <2>2, <2>4, <2>7, <2>8 DEF Linked
<1>6. CASE GrantResource(n) /\ Requester(n) = Second
  <2> DEFINE q == queue[Second]
             r == Append(q, Msg("RESOURCE_RESP_Y", n))
  <2>1. Msg("RESOURCE_RESP_Y", n) \in PeerMessage /\ Msg("RESOURCE_RESP_Y", n).type = "RESOURCE_RESP_Y"
    BY ElectionMessages DEF Telling
  <2>2. myState[n] = "COORDINATOR" /\ myState' = myState /\ electionOpen' = electionOpen
    BY <1>6 DEF GrantResource, ReceivesResource, AtCoordinatorTop, checkIfAlive, waitVars
  <2>3. Settled(q)
    BY <2>2 DEF Linked
  <2>4. /\ Has(r, "ELECTION_REQ") <=> Has(q, "ELECTION_REQ")
        /\ Has(r, "COORDINATOR") <=> Has(q, "COORDINATOR")
        /\ Before(q, "COORDINATOR", "ELECTION_REQ") => Before(r, "COORDINATOR", "ELECTION_REQ")
        /\ Announced(q, 1) => Announced(r, 1)
        /\ Settled(r) /\ Unbroken(r)
    BY <1>0, <2>1, <2>3, HoldsAppend
  <2>5. Alike(r, queue'[Second])
    BY <1>0, <1>6, Granted
  <2> HIDE DEF r
  <2>6. /\ Has(queue'[Second], "ELECTION_REQ") <=> Has(q, "ELECTION_REQ")
        /\ Has(queue'[Second], "COORDINATOR") <=> Has(q, "COORDINATOR")
        /\ Before(q, "COORDINATOR", "ELECTION_REQ") =>
             Before(queue'[Second], "COORDINATOR", "ELECTION_REQ")
        /\ Announced(q, 1) => Announced(queue'[Second], 1)
        /\ Settled(queue'[Second]) /\ Unbroken(queue'[Second])
    BY <2>4, <2>5 DEF Alike, Telling
  <2>7. Alike(queue[n], queue'[n])
    BY <1>6, SaidToItself
    DEF GrantResource, ReceivesResource, AtCoordinatorTop, RecvCoordinator, RecvElectionReq,
        RecvElectionAck, RecvGranted, Receives, UsePoll, StepDown, CoordIgnored, CoordReceives
  <2>8. (Called' <=> Called) /\ (CalledTwice' <=> CalledTwice)
    BY <2>7 DEF Alike, Telling, Called, CalledTwice
  <2>9. SecondKnows => SecondKnows'
    BY <1>1, <2>6 DEF SecondKnows
  <2>10. SecondStirs => SecondStirs'
    BY <1>1, <2>6 DEF SecondStirs
  <2> QED
    BY <2>2, <2>6, <2>8, <2>9, <2>10 DEF Linked
<1>7. ASSUME \/ EnterIdle(n) \/ RecvIgnored(n) \/ KeepWaiting(n)
             \/ GrantResource(n) \/ DenyResource(n) \/ ResourceFreed(n) \/ NoResourceMessage(n)
             \/ CoordTimeout(n) \/ CoordPing(n) \/ CoordUserAck(n),
             GrantResource(n) => Requester(n) # Second
      PROVE  Linked'
  <2>1. myState' = myState /\ electionOpen' = electionOpen
    BY <1>7 DEF EnterIdle, RecvIgnored, KeepWaiting, GrantResource, DenyResource, ResourceFreed,
                NoResourceMessage, checkIfAlive, CoordTimeout, CoordPing, CoordUserAck, waitVars
  <2>2. Chatters(n)
    BY <1>7, ChattersOtherwise
  <2>3. Alike(queue[n], queue'[n])
    BY <2>2, SaidToItself DEF Chatters
  <2>4. Alike(queue[Second], queue'[Second])
    BY <1>0, <1>7, <2>2, SaidToOthers DEF Chatters
  <2> QED
    BY <1>1, <2>1, <2>3, <2>4, LinkedFrame
<1>8. /\ ~RecvCoordinator(n) /\ ~RecvElectionAck(n) /\ ~RecvCoordAlive(n) /\ ~RecvGranted(n)
      /\ ~RecvDenied(n) /\ ~CoordIgnored(n) /\ ~UsePoll(n) /\ ~freeResource(n)
  BY HighestHears
  DEF RecvCoordinator, RecvElectionAck, RecvCoordAlive, RecvGranted, RecvDenied, Receives,
      CoordIgnored, CoordReceives, UsePoll, freeResource, FromBelow
<1> QED
  BY <1>2, <1>3, <1>4, <1>5, <1>6, <1>7, <1>8
  DEF NodeStep, TopStep, RecvStep, TimeoutStep, UseStep, CoordStep

\* What the second highest node does without calling the highest.
LEMMA LinkedMove ==
  ASSUME Linked, Alike(queue[Highest], queue'[Highest]),
         myState'[Highest] = myState[Highest], electionOpen'[Highest] = electionOpen[Highest],
         Unbroken(queue'[Second]),
         Settled(queue[Second]) => Settled(queue'[Second]),
         SecondKnows => SecondKnows',
         SecondStirs => SecondStirs'
  PROVE  Linked'
<1>1. (Called' <=> Called) /\ (CalledTwice' <=> CalledTwice)
  BY DEF Alike, Telling, Called, CalledTwice
<1> QED
  BY <1>1 DEF Linked

\* The second highest node.
LEMMA LinkedSecond ==
  ASSUME TypeOK, TypeOK', BullyOrder, AtHome, CoordinatorStandsNot, SecondUsesNot,
         SecondAbstains, Linked, NEW n \in Node, n = Second, NodeStep(n)
  PROVE  Linked'
<1> DEFINE q == queue[n]
<1>0. /\ Highest \in Node /\ Highest # n /\ n < Highest
      /\ q \in Seq(PeerMessage) /\ queue[Highest] \in Seq(PeerMessage)
      /\ myState'[Highest] = myState[Highest] /\ electionOpen'[Highest] = electionOpen[Highest]
  <2>1. Highest \in Node /\ Highest # n /\ n < Highest
    BY TwoNodes DEF Second, Highest
  <2> QED
    BY <2>1, OtherNodeUndisturbed DEF TypeOK
<1>1. Unbroken(q)
  BY DEF Linked
<1>2. q # <<>> =>
        /\ Unbroken(Tail(q))
        /\ Settled(q) => Settled(Tail(q))
        /\ Settled(q) /\ Head(q).type = "ELECTION_ACK" => Announced(Tail(q), 1)
        /\ \A t : Has(q, t) <=> Head(q).type = t \/ Has(Tail(q), t)
        /\ \A s, t : Before(q, s, t) <=> Before(Tail(q), s, t) \/ (Head(q).type = s /\ Has(Tail(q), t))
        /\ Announced(q, 1) =>
              \/ Head(q).type = "COORDINATOR"
              \/ Head(q).type # "RESOURCE_RESP_Y" /\ Announced(Tail(q), 1)
  BY <1>0, <1>1, HoldsTail
<1> HIDE DEF q
<1>3. ASSUME ~StartElection(n), ~RecvElectionReq(n) PROVE Alike(queue[Highest], queue'[Highest])
  <2>1. CASE BecomeCoordinator(n)
    BY <1>0, <2>1, TookOver, AlikeSmallTalk DEF Node
  <2>2. GrantResource(n) => Highest # Requester(n)
    BY <1>0, ResourceReceivedLegal, ResourceReceivedType DEF GrantResource, Node
  <2> QED
    BY <1>0, <1>3, <2>1, <2>2, SaidToOthers
<1>4. ASSUME queue' = Received(n), q # <<>>
      PROVE  queue'[n] = Tail(q)
  BY <1>4 DEF Received, TypeOK, q
<1>5. CASE StartElection(n) \/ RecvElectionReq(n)
  <2>1. myState'[n] = "IDLE" /\ electionOpen'[n]
    BY <1>5 DEF StartElection, RecvElectionReq, Receives, convocateElection, Set, TypeOK, AtHome
  <2>2. queue'[Highest] = Append(queue[Highest], Msg("ELECTION_REQ", n))
    BY <1>0, <1>5, Convocated
  <2>3. queue'[n] = q \/ (q # <<>> /\ queue'[n] = Tail(q))
    <3>1. CASE StartElection(n)
      BY <3>1, Convocated DEF q
    <3>2. CASE RecvElectionReq(n)
      BY <3>2, Convocated DEF q
    <3> QED
      BY <1>5, <3>1, <3>2
  <2>4. Unbroken(queue'[n]) /\ (Settled(q) => Settled(queue'[n]))
    BY <1>1, <1>2, <2>3
  <2>5. SecondKnows => SecondStirs'
    BY <2>1, <2>4 DEF SecondKnows, SecondStirs, q
  <2> QED
    BY <1>0, <2>2, <2>4, <2>5, LinkedCall DEF q
<1>6. CASE Die(n)
  <2>1. /\ queue' = queue /\ COORD_ID' = COORD_ID /\ electionOpen' = electionOpen
        /\ myState'[n] = "DEAD"
    BY <1>6 DEF Die, netVars, waitVars, Set, TypeOK
  <2>2. SecondKnows => SecondKnows'
    <3>1. myState[n] = "COORDINATOR" => ~electionOpen[n]
      BY DEF CoordinatorStandsNot
    <3> QED
      BY <2>1, <3>1 DEF SecondKnows
  <2>3. SecondStirs'
    BY <2>1 DEF SecondStirs
  <2>4. ~StartElection(n) /\ ~RecvElectionReq(n)
    BY <1>6, <2>1 DEF StartElection, RecvElectionReq, Receives, Die, Set, TypeOK
  <2> QED
    BY <1>0, <1>1, <1>3, <2>1, <2>2, <2>3, <2>4, LinkedMove DEF q
<1>7. CASE RecvCoordinator(n)
  <2>1. /\ q # <<>> /\ Head(q).type = "COORDINATOR" /\ queue' = Received(n)
        /\ COORD_ID'[n] = Sender(n)
        /\ pc[n] = "recv"
    BY <1>7 DEF RecvCoordinator, Receives, Set, TypeOK, q
  <2>2. COORD_ID'[n] # None
    BY <2>1, ReceivedType DEF None, Node, q
  <2>3. queue'[n] = Tail(q)
    BY <1>4, <2>1
  <2>4. (SecondKnows => SecondKnows') /\ SecondStirs'
    BY <1>2, <2>1, <2>2, <2>3 DEF SecondKnows, SecondStirs, q
  <2>5. ~StartElection(n) /\ ~RecvElectionReq(n)
    BY <2>1 DEF StartElection, RecvElectionReq, Receives, q
  <2> QED
    BY <1>0, <1>2, <1>3, <2>1, <2>3, <2>4, <2>5, LinkedMove DEF q
<1>8. CASE RecvElectionAck(n)
  <2>1. /\ q # <<>> /\ Head(q).type = "ELECTION_ACK" /\ queue' = Received(n)
        /\ pc[n] = "recv" /\ pc' = pc /\ myState' = myState /\ COORD_ID' = COORD_ID
        /\ ~electionOpen'[n]
    BY <1>8 DEF RecvElectionAck, Receives, Set, TypeOK, q
  <2>2. myState[n] = "IDLE"
    BY <2>1 DEF AtHome
  <2>3. queue'[n] = Tail(q)
    BY <1>4, <2>1
  <2>4. SecondKnows => SecondKnows'
    BY <1>2, <2>1, <2>2, <2>3 DEF SecondKnows, q
  <2>5. SecondStirs => SecondStirs'
    BY <1>2, <2>1, <2>2, <2>3 DEF SecondStirs, q
  <2>6. ~StartElection(n) /\ ~RecvElectionReq(n)
    BY <2>1 DEF StartElection, RecvElectionReq, Receives, q
  <2> QED
    BY <1>0, <1>2, <1>3, <2>1, <2>3, <2>4, <2>5, <2>6, LinkedMove DEF q
<1>9. CASE RecvGranted(n) \/ UsePoll(n)
  <2>1. UNCHANGED <<myState, COORD_ID, electionOpen>> /\ pc[n] \in {"recv", "using"}
    BY <1>9 DEF RecvGranted, Receives, UsePoll, waitVars
  <2>8. queue'[n] = q \/ (q # <<>> /\ queue'[n] = Tail(q))
    <3>1. CASE queue' = Received(n) /\ q # <<>>
      BY <1>4, <3>1
    <3>2. CASE queue' = queue
      BY <3>2 DEF q
    <3>3. CASE UsePoll(n) /\ q # <<>> /\ queue' = Post(Received(n), {granter[n]}, Msg("USER_ALVIE_ACK", n))
      <4>1. granter[n] # n
        BY <3>3 DEF UsePoll, BullyOrder, Node
      <4>2. queue'[n] = Tail(q)
        BY <3>3, <4>1 DEF Post, Received, TypeOK, q
      <4> QED
        BY <3>3, <4>2
    <3> QED
      BY <1>9, <3>1, <3>2, <3>3 DEF RecvGranted, Receives, UsePoll, q
  <2>2. myState[n] = "IDLE"
    BY <2>1 DEF AtHome
  <2>3. /\ N_CONNECTED = 1
        /\ pc[n] = "using" \/ ~Announced(q, 1)
    <3>1. CASE RecvGranted(n)
      <4>1. q # <<>> /\ Head(q).type = "RESOURCE_RESP_Y"
        BY <3>1 DEF RecvGranted, Receives, q
      <4>2. Has(q, "RESOURCE_RESP_Y") /\ ~Announced(q, 1)
        BY <1>2, <4>1
      <4> QED
        BY <4>2, TwoNodes DEF SecondUsesNot, q
    <3>2. CASE UsePoll(n)
      BY <3>2, TwoNodes DEF UsePoll, SecondUsesNot
    <3> QED
      BY <1>9, <3>1, <3>2
  <2>4. Unbroken(queue'[n]) /\ (Settled(q) => Settled(queue'[n]))
    BY <1>1, <1>2, <2>8
  <2>5. SecondKnows => SecondKnows'
    BY <2>1, <2>3, <2>4 DEF SecondKnows, q
  <2>6. SecondStirs => SecondStirs'
    BY <2>1, <2>2, <2>3, <2>4, <2>8 DEF SecondStirs, q
  <2>7. ~StartElection(n) /\ ~RecvElectionReq(n)
    BY <1>9 DEF StartElection, RecvElectionReq, RecvGranted, UsePoll, Receives
  <2> QED
    BY <1>0, <1>3, <2>4, <2>5, <2>6, <2>7, LinkedMove DEF q
<1>10. CASE BecomeCoordinator(n)
  <2>1. /\ q = <<>> /\ electionOpen[n] /\ myState'[n] = "COORDINATOR" /\ COORD_ID' = COORD_ID
        /\ pc[n] = "recv"
    BY <1>10 DEF BecomeCoordinator, TimedOut, sendCoordinatorMsg, Set, TypeOK, q
  <2>2. queue'[n] = q
    BY <1>10, TookOver DEF Node, q
  <2>3. SecondKnows => SecondKnows'
    BY <2>1, <2>2, HoldsNothing DEF SecondKnows, q
  <2>4. SecondStirs'
    BY <2>1, <2>2, HoldsNothing DEF SecondStirs, q
  <2>5. ~StartElection(n) /\ ~RecvElectionReq(n)
    BY <2>1 DEF StartElection, RecvElectionReq, Receives, q
  <2> QED
    BY <1>0, <1>1, <1>3, <2>2, <2>3, <2>4, <2>5, LinkedMove DEF q
<1>11. CASE PingFailed(n) \/ RequestFailed(n)
  <2>1. /\ queue' = queue /\ COORD_ID' = COORD_ID /\ electionOpen' = electionOpen
        /\ myState'[n] = "CANDIDATE"
        /\ q = <<>> /\ pc[n] = "recv"
    BY <1>11 DEF PingFailed, RequestFailed, TimedOut, netVars, Set, TypeOK, q
  <2>2. electionOpen[n] => N_CONNECTED = 1
    BY <1>11, TwoNodes DEF PingFailed, RequestFailed, SecondAbstains
  <2>3. SecondKnows => SecondKnows'
    BY <2>1, <2>2 DEF SecondKnows
  <2>4. SecondStirs'
    BY <2>1 DEF SecondStirs
  <2>5. ~StartElection(n) /\ ~RecvElectionReq(n)
    BY <2>1 DEF StartElection, RecvElectionReq, Receives, q
  <2> QED
    BY <1>0, <1>1, <1>3, <2>1, <2>3, <2>4, <2>5, LinkedMove DEF q
<1>12. CASE StepDown(n) \/ CoordIgnored(n)
  <2>1. /\ q # <<>> /\ queue' = Received(n) /\ pc[n] = "coord"
        /\ COORD_ID' = COORD_ID /\ electionOpen' = electionOpen
        /\ pc'[n] = "top"
    BY <1>12 DEF StepDown, CoordIgnored, CoordReceives, waitVars, Set, TypeOK, q
  <2>2. myState[n] = "COORDINATOR" /\ ~electionOpen[n]
    BY <2>1 DEF AtHome, CoordinatorStandsNot
  <2>3. queue'[n] = Tail(q)
    BY <1>4, <2>1
  <2>4. ASSUME StepDown(n) PROVE (SecondKnows => SecondKnows') /\ (SecondStirs => SecondStirs')
    <3>1. Head(q).type \in {"ELECTION_REQ", "COORDINATOR"} /\ myState'[n] = "IDLE"
      BY <2>4 DEF StepDown, CoordReceives, Set, TypeOK, q
    <3>2. SecondKnows => SecondKnows'
      BY <1>2, <2>1, <2>2, <2>3, <3>1 DEF SecondKnows, q
    <3>3. Before(Tail(q), "COORDINATOR", "ELECTION_REQ") => Has(Tail(q), "ELECTION_REQ")
      BY DEF Before, Has
    <3>4. SecondStirs => SecondStirs'
      BY <1>2, <2>1, <2>2, <2>3, <3>1, <3>3 DEF SecondStirs, q
    <3> QED
      BY <3>2, <3>4
  <2>5. ASSUME CoordIgnored(n) PROVE (SecondKnows => SecondKnows') /\ (SecondStirs => SecondStirs')
    <3>1. Head(q).type \notin {"ELECTION_REQ", "COORDINATOR"} /\ myState' = myState
      BY <2>5 DEF CoordIgnored, CoordReceives, q
    <3>2. SecondKnows => SecondKnows'
      BY <1>2, <2>1, <2>2, <2>3, <3>1 DEF SecondKnows, q
    <3>3. SecondStirs => SecondStirs'
      BY <1>2, <2>1, <2>2, <2>3, <3>1 DEF SecondStirs, q
    <3> QED
      BY <3>2, <3>3
  <2>6. ~StartElection(n) /\ ~RecvElectionReq(n)
    BY <2>1 DEF StartElection, RecvElectionReq, Receives
  <2>7. (SecondKnows => SecondKnows') /\ (SecondStirs => SecondStirs')
    BY <1>12, <2>4, <2>5
  <2> QED
    BY <1>0, <1>2, <1>3, <2>1, <2>3, <2>6, <2>7, LinkedMove DEF q
<1>13. CASE \/ EnterIdle(n) \/ RecvCoordAlive(n) \/ RecvDenied(n) \/ RecvIgnored(n)
            \/ KeepWaiting(n) \/ freeResource(n)
            \/ GrantResource(n) \/ DenyResource(n) \/ ResourceFreed(n) \/ NoResourceMessage(n)
            \/ CoordTimeout(n) \/ CoordPing(n) \/ CoordUserAck(n)
  <2>1. /\ myState' = myState /\ electionOpen' = electionOpen /\ COORD_ID' = COORD_ID
        /\ pc'[n] # "using"
    <3>1. /\ myState' = myState /\ electionOpen' = electionOpen /\ COORD_ID' = COORD_ID
          /\ \/ pc' \in {Set(pc, n, "top"), Set(pc, n, "recv"), Set(pc, n, "coord")}
             \/ pc' = pc /\ pc[n] = "recv"
      BY <1>13
      DEF EnterIdle, RecvCoordAlive, RecvDenied, RecvIgnored, Receives, KeepWaiting, TimedOut,
          freeResource, GrantResource, DenyResource, ResourceFreed, NoResourceMessage,
          checkIfAlive, CoordTimeout, CoordPing, CoordUserAck, CoordReceives, waitVars
    <3> QED
      BY <3>1 DEF Set, TypeOK
  <2>2. Chatters(n)
    BY <1>13, ChattersOtherwise
  <2>3. Alike(q, queue'[n]) /\ Alike(queue[Highest], queue'[Highest])
    BY <1>3, <2>2, SaidToItself DEF Chatters, q
  <2> QED
    BY <1>0, <2>1, <2>3, LinkedFrame DEF q
<1> QED
  BY <1>5, <1>6, <1>7, <1>8, <1>9, <1>10, <1>11, <1>12, <1>13
  DEF NodeStep, TopStep, RecvStep, TimeoutStep, UseStep, CoordStep

\* The first election: until node 0 convocates it the others can only wait, and it
\* calls the highest node.
LEMMA FreshStep ==
  ASSUME TypeOK, BullyOrder, Fresh, NEW n \in Node, NodeStep(n)
  PROVE  Fresh' \/ Linked'
<1>0. /\ 0 \in Node /\ Highest \in Node \ {0} /\ Second \in Node
      /\ Highest > 0 /\ (Second = 0 \/ Second > 0)
      /\ \A k \in Node : queue[k] = <<>>
  BY TwoNodes DEF Fresh, Node, Highest
<1>1. CASE n = 0
  <2>1. pc[n] = "top" /\ myState[n] = "CANDIDATE" /\ COORD_ID[n] = None
    BY <1>1 DEF Fresh
  <2>2. StartElection(n)
    BY <2>1
    DEF NodeStep, TopStep, RecvStep, TimeoutStep, UseStep, CoordStep, Die, EnterIdle,
        Receives, RecvCoordinator, RecvElectionReq, RecvElectionAck, RecvCoordAlive,
        RecvGranted, RecvDenied, RecvIgnored, TimedOut, BecomeCoordinator, PingFailed,
        RequestFailed, KeepWaiting, UsePoll, freeResource, AtCoordinatorTop,
        ReceivesResource, GrantResource, DenyResource, ResourceFreed, NoResourceMessage,
        CoordTimeout, CoordReceives, CoordPing, CoordUserAck, StepDown, CoordIgnored
  <2>3. myState'[Highest] = "IDLE"
    BY <1>0, <1>1, OtherNodeUndisturbed DEF Fresh
  <2> DEFINE m == Msg("ELECTION_REQ", n)
  <2>4. m \in PeerMessage /\ m.type = "ELECTION_REQ"
    BY ElectionMessages DEF Telling
  <2>5. <<>> \in Seq(PeerMessage)
    BY EmptySeq
  <2>6. Has(Append(<<>>, m), "ELECTION_REQ") /\ Unbroken(Append(<<>>, m))
    BY <2>4, <2>5, HoldsAppend, HoldsNothing
  <2>7. queue'[Highest] = Append(<<>>, m)
    BY <1>0, <1>1, <2>2, Convocated
  <2>8. queue'[Second] = <<>> \/ queue'[Second] = Append(<<>>, m)
    BY <1>0, <1>1, <2>2, Convocated
  <2>9. Called'
    BY <2>6, <2>7 DEF Called
  <2>10. Unbroken(queue'[Second])
    BY <2>6, <2>8, HoldsNothing
  <2> QED
    BY <2>3, <2>9, <2>10 DEF Linked
<1>2. CASE n # 0
  <2>1. /\ pc[n] = "recv" /\ myState[n] = "IDLE" /\ queue[n] = <<>>
        /\ ~electionOpen[n] /\ ~pinged[n] /\ ~requested[n]
    BY <1>2 DEF Fresh
  <2>2. KeepWaiting(n)
    BY <2>1
    DEF NodeStep, TopStep, RecvStep, TimeoutStep, UseStep, CoordStep, Die, StartElection,
        EnterIdle, Receives, RecvCoordinator, RecvElectionReq, RecvElectionAck,
        RecvCoordAlive, RecvGranted, RecvDenied, RecvIgnored, TimedOut, BecomeCoordinator,
        PingFailed, RequestFailed, UsePoll, freeResource, AtCoordinatorTop,
        ReceivesResource, GrantResource, DenyResource, ResourceFreed, NoResourceMessage,
        CoordTimeout, CoordReceives, CoordPing, CoordUserAck, StepDown, CoordIgnored
  <2> QED
    BY <2>2 DEF KeepWaiting, Fresh, netVars
<1> QED
  BY <1>1, <1>2

-----------------------------------------------------------------------------
(* The theorems *)

\* A step keeps the invariant.
LEMMA WedgeStep ==
  ASSUME WInv, IInv', SecondAbstains, SecondAbstains', [Next]_vars
  PROVE  WInv'
<1>1. CASE UNCHANGED vars
  <2>1. UNCHANGED <<pc, myState, COORD_ID, queue, rqueue, electionOpen, pinged, requested>>
    BY <1>1 DEF vars, netVars, waitVars
  <2> QED
    BY <2>1
    DEF WInv, AwaitsCoordinator, CoordinatorStandsNot, SecondUsesNot, OthersRequest, Fresh,
        Linked, Called, CalledTwice, SecondKnows, SecondStirs
<1>2. ASSUME NEW n \in Node, NodeStep(n) PROVE WInv'
  <2>1. /\ TypeOK /\ TypeOK' /\ BullyOrder /\ AtHome
        /\ AwaitsCoordinator /\ CoordinatorStandsNot /\ SecondUsesNot
    BY DEF WInv, IInv
  <2>2. AwaitsCoordinator' /\ CoordinatorStandsNot'
    BY <1>2, <2>1, OwnStep
  <2>3. SecondUsesNot'
    BY <1>2, <2>1, SecondStep
  <2>4. CASE Fresh
    BY <1>2, <2>1, <2>2, <2>3, <2>4, FreshStep DEF WInv
  <2>5. CASE Linked
    <3>1. Linked'
      BY <1>2, <2>1, <2>5, LinkedBelow, LinkedSecond, LinkedHighest
    <3> QED
      BY <2>2, <2>3, <3>1 DEF WInv
  <2> QED
    BY <2>4, <2>5 DEF WInv
<1> QED
  BY <1>1, <1>2 DEF Next

\* As long as the second highest node does not ask for the resource, however many
\* nodes there are, whoever else uses it, and whatever dies, is late or crosses on
\* the way: the nodes never all wait for each other.
THEOREM NoWedgeUnlessSecondAsks == Spec /\ []SecondAbstains => []NoWedge
<1>1. Init => AwaitsCoordinator /\ CoordinatorStandsNot /\ SecondUsesNot /\ Fresh
  BY WedgeInit
<1>2. IInv /\ AwaitsCoordinator /\ CoordinatorStandsNot /\ SecondUsesNot /\ Fresh => WInv
  BY DEF WInv
<1>3. WInv /\ IInv' /\ SecondAbstains /\ SecondAbstains' /\ [Next]_vars => WInv'
  BY WedgeStep
<1>4. WInv => NoWedge
  BY SomebodyGoesOn
<1> QED
  BY <1>1, <1>2, <1>3, <1>4, InductiveInvariant, PTL DEF Spec

\* Two nodes never wait for each other at all, though one of them uses the
\* resource: what a user drops costs nothing that the other does not repeat.
COROLLARY TwoNodesNeverWedge == N_CONNECTED = 1 => (Spec => []NoWedge)
<1>1. N_CONNECTED = 1 => SecondAbstains
  BY DEF SecondAbstains
<1>2. CASE N_CONNECTED = 1
  <2>1. []SecondAbstains
    BY <1>1, <1>2, PTL
  <2> QED
    BY <2>1, NoWedgeUnlessSecondAsks, PTL
<1> QED
  BY <1>2

-----------------------------------------------------------------------------
(* The loan of the resource *)

\* A loan goes through three places: the grant in the queue of the user, the
\* use, and the release in a resource queue.
Holds(k) == pc[k] = "using" \/ Has(queue[k], "RESOURCE_RESP_Y")
Released(d) == Has(rqueue[d], "FREE_RESOURCE")
Outstanding == \E k \in Node : Holds(k) \/ Released(k)

\* No two nodes count the resource as lent.
OneLends ==
  \A c, d \in Node : resourceUser[c] # None /\ resourceUser[d] # None => c = d

\* A coordinator gives its user up, or forgets it as it steps down.
Forgets(c) ==
  (CoordTimeout(c) \/ StepDown(c)) /\ resourceUser[c] # None /\ resourceUser'[c] = None

\* It does so only when nothing is left of the loan.
ForgetsNoLoan == \A c \in Node : Forgets(c) => ~Outstanding

\* The loan is at one place, once, and it is the user's that a coordinator
\* counts.
Loan ==
  /\ \A k \in Node : Holds(k) => \E c \in Node : resourceUser[c] = k
  /\ \A d \in Node : Released(d) => \E c \in Node : resourceUser[c] # None
  /\ \A k \in Node : /\ ~(pc[k] = "using" /\ Has(queue[k], "RESOURCE_RESP_Y"))
                     /\ ~Before(queue[k], "RESOURCE_RESP_Y", "RESOURCE_RESP_Y")
                     /\ ~Before(rqueue[k], "FREE_RESOURCE", "FREE_RESOURCE")
  /\ \A d, k \in Node : ~(Released(d) /\ Holds(k))
  /\ \A d, e \in Node : Released(d) /\ Released(e) => d = e

\* With one lender there is one user.
LEMMA OneUser == OneLends /\ Loan => MutualExclusion
<1> SUFFICES ASSUME OneLends, Loan, NEW m \in Node, NEW n \in Node,
                    pc[m] = "using", pc[n] = "using"
             PROVE  m = n
  BY DEF MutualExclusion
<1>1. PICK c \in Node, d \in Node : resourceUser[c] = m /\ resourceUser[d] = n
  BY DEF Loan, Holds
<1>2. c = d
  BY <1>1, NodesAssumption DEF OneLends, None, Node
<1> QED
  BY <1>1, <1>2

\* At first nothing is lent.
LEMMA LoanInit == Init => Loan
<1> SUFFICES ASSUME Init PROVE Loan
  OBVIOUS
<1>1. \A k \in Node : queue[k] = <<>> /\ rqueue[k] = <<>> /\ pc[k] # "using"
  BY DEF Init
<1>2. \A s, t : ~Before(<<>>, s, t)
  BY DEF Before
<1> QED
  BY <1>1, <1>2, HoldsNothing DEF Loan, Holds, Released

-----------------------------------------------------------------------------
(* What a step does to the grants *)

\* In r stand no more messages of type t than in q, as far as none, one and
\* more are told apart.
NoMore(t, q, r) ==
  /\ Has(r, t) => Has(q, t)
  /\ Before(r, t, t) => Before(q, t, t)

\* Reading from a queue, or adding another message to it, adds no t.
LEMMA NoMoreStep ==
  ASSUME NEW S, NEW q \in Seq(S), NEW t
  PROVE  /\ q # <<>> => NoMore(t, q, Tail(q))
         /\ \A m \in S : m.type # t => NoMore(t, q, Append(q, m))
BY HoldsAppend, HoldsTail DEF NoMore

\* No queue of r has more grants than in q.
Fewer(q, r) == \A k \in Node : NoMore("RESOURCE_RESP_Y", q[k], r[k])

\* Posting other messages adds no grant.
LEMMA NoMorePost ==
  ASSUME NEW q \in [Node -> Seq(PeerMessage)], NEW D, NEW n \in Node,
         NEW t \in PeerType \ {"RESOURCE_RESP_Y"}
  PROVE  Fewer(q, Post(q, D, Msg(t, n)))
<1> SUFFICES ASSUME NEW k \in Node
             PROVE  NoMore("RESOURCE_RESP_Y", q[k], Post(q, D, Msg(t, n))[k])
  BY DEF Fewer
<1>1. Msg(t, n) \in PeerMessage /\ Msg(t, n).type = t
  BY MsgType DEF Msg
<1>2. NoMore("RESOURCE_RESP_Y", q[k], q[k])
  BY DEF NoMore
<1>3. NoMore("RESOURCE_RESP_Y", q[k], Append(q[k], Msg(t, n)))
  BY <1>1, NoMoreStep
<1>4. Post(q, D, Msg(t, n))[k] \in {q[k], Append(q[k], Msg(t, n))}
  BY DEF Post
<1> QED
  BY <1>2, <1>3, <1>4

\* Only GrantResource grants.
LEMMA NoMoreGrants ==
  ASSUME TypeOK, NEW n \in Node, NodeStep(n), ~GrantResource(n)
  PROVE  Fewer(queue, queue')
<1>0. queue \in [Node -> Seq(PeerMessage)] /\ Fewer(queue, queue)
  BY DEF TypeOK, Fewer, NoMore
<1>1. \A p, q, r : Fewer(p, q) /\ Fewer(q, r) => Fewer(p, r)
  BY DEF Fewer, NoMore
<1>2. ASSUME queue[n] # <<>>
      PROVE  Received(n) \in [Node -> Seq(PeerMessage)] /\ Fewer(queue, Received(n))
  <2>1. \A k \in Node : Received(n)[k] = IF k = n THEN Tail(queue[k]) ELSE queue[k]
    BY <1>0 DEF Received
  <2>2. NoMore("RESOURCE_RESP_Y", queue[n], Tail(queue[n]))
    BY <1>0, <1>2, NoMoreStep
  <2> QED
    BY <1>0, <1>2, <2>1, <2>2, ReceivedType DEF Fewer, NoMore
<1>3. ASSUME NEW q \in [Node -> Seq(PeerMessage)], NEW D,
             NEW t \in PeerType \ {"RESOURCE_RESP_Y"}
      PROVE  /\ Post(q, D, Msg(t, n)) \in [Node -> Seq(PeerMessage)]
             /\ Fewer(q, Post(q, D, Msg(t, n)))
  BY <1>3, NoMorePost, PostType, MsgType
<1>4. ASSUME NEW q \in [Node -> Seq(PeerMessage)], NEW user, checkIfAlive(n, user, q)
      PROVE  Fewer(q, queue')
  <2>1. Fewer(q, q)
    BY DEF Fewer, NoMore
  <2>2. Fewer(q, Post(q, {user}, Msg("USER_ALIVE_CHECK", n)))
    BY <1>3 DEF PeerType
  <2>3. queue' = q \/ queue' = Post(q, {user}, Msg("USER_ALIVE_CHECK", n))
    BY <1>4 DEF checkIfAlive
  <2> QED
    BY <2>1, <2>2, <2>3
<1>5. CASE StartElection(n) \/ BecomeCoordinator(n) \/ EnterIdle(n)
  <2>1. \/ queue' = queue
        \/ \E D, t : /\ t \in {"ELECTION_REQ", "COORDINATOR", "COORD_PING"}
                     /\ queue' = Post(queue, D, Msg(t, n))
    BY <1>5 DEF StartElection, convocateElection, BecomeCoordinator, sendCoordinatorMsg, EnterIdle
  <2> QED
    BY <1>0, <1>3, <2>1 DEF PeerType
<1>6. CASE RecvElectionReq(n)
  <2> DEFINE q == Post(Received(n), {Sender(n)}, Msg("ELECTION_ACK", n))
  <2>1. queue[n] # <<>> /\ queue' = Post(q, Above(n), Msg("ELECTION_REQ", n))
    BY <1>6 DEF RecvElectionReq, Receives, convocateElection
  <2>2. q \in [Node -> Seq(PeerMessage)] /\ Fewer(Received(n), q)
    BY <1>2, <1>3, <2>1 DEF PeerType
  <2>3. Fewer(q, queue')
    BY <1>3, <2>1, <2>2 DEF PeerType
  <2> QED
    BY <1>1, <1>2, <2>1, <2>2, <2>3
<1>7. CASE UsePoll(n) \/ CoordPing(n)
  <2>1. \/ queue' = queue
        \/ queue[n] # <<>> /\ queue' = Received(n)
        \/ /\ queue[n] # <<>>
           /\ \E D, t : /\ t \in {"USER_ALVIE_ACK", "COORD_ALIVE"}
                        /\ queue' = Post(Received(n), D, Msg(t, n))
    BY <1>7 DEF UsePoll, CoordPing, CoordReceives
  <2>2. CASE queue[n] # <<>> /\ \E D, t : /\ t \in {"USER_ALVIE_ACK", "COORD_ALIVE"}
                                          /\ queue' = Post(Received(n), D, Msg(t, n))
    <3>1. Fewer(Received(n), queue')
      BY <1>2, <1>3, <2>2 DEF PeerType
    <3> QED
      BY <1>1, <1>2, <2>2, <3>1
  <2> QED
    BY <1>0, <1>2, <2>1, <2>2
<1>8. CASE DenyResource(n)
  <2> DEFINE q == Post(queue, {Requester(n)}, Msg("RESOURCE_RESP_N", n))
  <2>1. q \in [Node -> Seq(PeerMessage)] /\ Fewer(queue, q)
    BY <1>0, <1>3 DEF PeerType
  <2>2. Fewer(q, queue')
    BY <1>4, <1>8, <2>1 DEF DenyResource
  <2> QED
    BY <1>1, <2>1, <2>2
<1>9. CASE ResourceFreed(n) \/ NoResourceMessage(n)
  BY <1>0, <1>4, <1>9 DEF ResourceFreed, NoResourceMessage
<1>10. \/ queue' = queue
       \/ queue[n] # <<>> /\ queue' = Received(n)
       \/ StartElection(n) \/ BecomeCoordinator(n) \/ EnterIdle(n)
       \/ RecvElectionReq(n) \/ UsePoll(n) \/ CoordPing(n)
       \/ DenyResource(n) \/ ResourceFreed(n) \/ NoResourceMessage(n)
  BY DEF NodeStep, TopStep, RecvStep, TimeoutStep, UseStep, CoordStep, Die, RecvCoordinator,
         RecvElectionAck, RecvCoordAlive, RecvGranted, RecvDenied, RecvIgnored, PingFailed,
         RequestFailed, KeepWaiting, freeResource, CoordTimeout, CoordUserAck, StepDown,
         CoordIgnored, netVars, Receives, CoordReceives
<1> QED
  BY <1>0, <1>2, <1>5, <1>6, <1>7, <1>8, <1>9, <1>10

-----------------------------------------------------------------------------
(* What a step does to the loan *)

\* The releases that a step of n leaves in the resource queues, unless it
\* frees the resource.
LEMMA NoMoreReleases ==
  ASSUME TypeOK, NEW n \in Node, NodeStep(n), ~freeResource(n), NEW d \in Node
  PROVE  NoMore("FREE_RESOURCE", rqueue[d], rqueue'[d])
<1>0. rqueue \in [Node -> Seq(ResourceMessage)] /\ NoMore("FREE_RESOURCE", rqueue[d], rqueue[d])
  BY DEF TypeOK, NoMore
<1>1. CASE RecvCoordAlive(n) /\ PostResource(n, "RESOURCE_REQ")
  <2>1. Msg("RESOURCE_REQ", n) \in ResourceMessage /\ Msg("RESOURCE_REQ", n).type # "FREE_RESOURCE"
    BY MsgType DEF Msg, ResourceType
  <2>2. NoMore("FREE_RESOURCE", rqueue[d], Append(rqueue[d], Msg("RESOURCE_REQ", n)))
    BY <1>0, <2>1, NoMoreStep
  <2>3. rqueue'[d] \in {rqueue[d], Append(rqueue[d], Msg("RESOURCE_REQ", n))}
    BY <1>0, <1>1 DEF PostResource, Set
  <2> QED
    BY <1>0, <2>2, <2>3
<1>2. CASE \E t : ReceivesResource(n, t)
  <2>1. rqueue[n] # <<>> /\ rqueue' = Set(rqueue, n, Tail(rqueue[n]))
    BY <1>2 DEF ReceivesResource
  <2>2. NoMore("FREE_RESOURCE", rqueue[n], Tail(rqueue[n]))
    BY <1>0, <2>1, NoMoreStep
  <2> QED
    BY <1>0, <2>1, <2>2 DEF Set
<1>3. CASE BecomeCoordinator(n)
  <2>1. rqueue'[d] \in {rqueue[d], <<>>}
    BY <1>0, <1>3 DEF BecomeCoordinator, createResourceQueue, Set
  <2>2. NoMore("FREE_RESOURCE", rqueue[d], <<>>)
    BY HoldsNothing DEF NoMore, Before
  <2> QED
    BY <1>0, <2>1, <2>2
<1>4. \/ rqueue' = rqueue
      \/ RecvCoordAlive(n) /\ PostResource(n, "RESOURCE_REQ")
      \/ \E t : ReceivesResource(n, t)
      \/ BecomeCoordinator(n)
  BY DEF NodeStep, TopStep, RecvStep, TimeoutStep, UseStep, CoordStep, Die, StartElection,
         EnterIdle, RecvCoordinator, RecvElectionReq, RecvElectionAck, RecvCoordAlive,
         RecvGranted, RecvDenied, RecvIgnored, PingFailed, RequestFailed, KeepWaiting, UsePoll,
         GrantResource, DenyResource, ResourceFreed, NoResourceMessage, CoordTimeout, CoordPing,
         CoordUserAck, StepDown, CoordIgnored, netVars
<1> QED
  BY <1>0, <1>1, <1>2, <1>3, <1>4

\* Who begins to use the resource has just read a grant.
LEMMA UseStarts ==
  ASSUME TypeOK, NEW n \in Node, NodeStep(n), ~RecvGranted(n), NEW k \in Node, pc'[k] = "using"
  PROVE  pc[k] = "using"
BY DEF NodeStep, TopStep, RecvStep, TimeoutStep, UseStep, CoordStep, Die, StartElection,
       EnterIdle, RecvCoordinator, RecvElectionReq, RecvElectionAck, RecvCoordAlive,
       RecvDenied, RecvIgnored, BecomeCoordinator, PingFailed, RequestFailed, KeepWaiting,
       UsePoll, freeResource, GrantResource, DenyResource, ResourceFreed, NoResourceMessage,
       checkIfAlive, CoordTimeout, CoordPing, CoordUserAck, StepDown, CoordIgnored,
       CoordReceives, TypeOK, Set

\* Who a coordinator counts as the user changes with a grant or a release, or
\* is forgotten.
LEMMA UserChanges ==
  ASSUME TypeOK, NEW n \in Node, NodeStep(n), ~GrantResource(n), ~ResourceFreed(n), ~Forgets(n)
  PROVE  resourceUser' = resourceUser
<1>0. resourceUser \in [Node -> Node \cup {None}]
  BY DEF TypeOK
<1>1. CASE DenyResource(n) \/ NoResourceMessage(n)
  BY <1>0, <1>1 DEF DenyResource, NoResourceMessage, checkIfAlive, Set
<1>2. CASE CoordTimeout(n) \/ StepDown(n)
  <2>1. resourceUser' = resourceUser \/ resourceUser' = Set(resourceUser, n, None)
    BY <1>2 DEF CoordTimeout, StepDown
  <2>2. CASE resourceUser' = Set(resourceUser, n, None)
    BY <1>0, <1>2, <2>2 DEF Forgets, Set
  <2> QED
    BY <2>1, <2>2
<1> QED
  BY <1>1, <1>2
  DEF NodeStep, TopStep, RecvStep, TimeoutStep, UseStep, CoordStep, Die, StartElection,
      EnterIdle, RecvCoordinator, RecvElectionReq, RecvElectionAck, RecvCoordAlive,
      RecvGranted, RecvDenied, RecvIgnored, BecomeCoordinator, PingFailed, RequestFailed,
      KeepWaiting, UsePoll, freeResource, CoordPing, CoordUserAck, CoordIgnored, coordVars

\* A step that moves no loan and forgets none keeps it, and one after which
\* nothing is outstanding may change the user.
LEMMA LoanKept ==
  ASSUME Loan,
         \A k \in Node : pc'[k] = "using" => pc[k] = "using",
         Fewer(queue, queue'),
         \A d \in Node : NoMore("FREE_RESOURCE", rqueue[d], rqueue'[d]),
         resourceUser' = resourceUser \/ ~Outstanding'
  PROVE  Loan'
<1>1. \A k \in Node : Holds(k)' => Holds(k)
  BY DEF Holds, Fewer, NoMore
<1>2. \A d \in Node : Released(d)' => Released(d)
  BY DEF Released, NoMore
<1>3. \A k \in Node : /\ ~(pc'[k] = "using" /\ Has(queue'[k], "RESOURCE_RESP_Y"))
                      /\ ~Before(queue'[k], "RESOURCE_RESP_Y", "RESOURCE_RESP_Y")
                      /\ ~Before(rqueue'[k], "FREE_RESOURCE", "FREE_RESOURCE")
  BY DEF Loan, Fewer, NoMore
<1>4. /\ \A k \in Node : Holds(k)' => \E c \in Node : resourceUser'[c] = k
      /\ \A d \in Node : Released(d)' => \E c \in Node : resourceUser'[c] # None
  BY <1>1, <1>2 DEF Loan, Outstanding
<1> QED
  BY <1>1, <1>2, <1>3, <1>4 DEF Loan

\* The grant: nobody counted the resource as lent, so that nothing was
\* outstanding.
LEMMA LoanGranted ==
  ASSUME TypeOK, Loan, OneLends', NEW n \in Node, GrantResource(n)
  PROVE  Loan'
<1> DEFINE r == Requester(n)
<1> DEFINE q == Post(queue, {r}, Msg("RESOURCE_RESP_Y", n))
<1>0. /\ queue \in [Node -> Seq(PeerMessage)] /\ resourceUser \in [Node -> Node \cup {None}]
      /\ pc \in [Node -> {"top", "recv", "using", "coord"}]
  BY DEF TypeOK
<1>1. r \in Node /\ r # None
  BY ResourceReceivedType DEF GrantResource, Node, None
<1>2. checkIfAlive(n, r, q) /\ NodeStep(n)
  BY DEF GrantResource, NodeStep, CoordStep
<1>3. resourceUser[n] = None /\ resourceUser' = Set(resourceUser, n, r) /\ pc' = Set(pc, n, "coord")
  BY <1>2 DEF GrantResource, checkIfAlive
<1>4. \A c \in Node : resourceUser[c] = None
  <2> SUFFICES ASSUME NEW c \in Node, resourceUser[c] # None PROVE FALSE
    OBVIOUS
  <2>1. resourceUser'[c] # None /\ resourceUser'[n] # None /\ c # n
    BY <1>0, <1>1, <1>3 DEF Set
  <2> QED
    BY <2>1 DEF OneLends
<1>5. \A k \in Node : ~Holds(k) /\ ~Released(k)
  BY <1>4 DEF Loan, Node, None
<1>6. \A d \in Node : ~Released(d)' /\ ~Before(rqueue'[d], "FREE_RESOURCE", "FREE_RESOURCE")
  BY <1>2, <1>5, NoMoreReleases DEF Released, NoMore, Loan, freeResource, GrantResource,
     ReceivesResource, AtCoordinatorTop
<1>7. \A k \in Node : pc'[k] # "using"
  BY <1>0, <1>3, <1>5 DEF Holds, Set
<1>8. \A k \in Node : /\ Has(queue'[k], "RESOURCE_RESP_Y") => k = r
                      /\ ~Before(queue'[k], "RESOURCE_RESP_Y", "RESOURCE_RESP_Y")
  <2>1. Msg("RESOURCE_RESP_Y", n) \in PeerMessage
    BY MsgType DEF PeerType
  <2>2. q \in [Node -> Seq(PeerMessage)]
    BY <1>0, <2>1, PostType
  <2>3. \A k \in Node : /\ Has(q[k], "RESOURCE_RESP_Y") => k = r
                        /\ ~Before(q[k], "RESOURCE_RESP_Y", "RESOURCE_RESP_Y")
    <3> SUFFICES ASSUME NEW k \in Node
                 PROVE  /\ Has(q[k], "RESOURCE_RESP_Y") => k = r
                        /\ ~Before(q[k], "RESOURCE_RESP_Y", "RESOURCE_RESP_Y")
      OBVIOUS
    <3>1. ~Has(queue[k], "RESOURCE_RESP_Y") /\ ~Before(queue[k], "RESOURCE_RESP_Y", "RESOURCE_RESP_Y")
      BY <1>5 DEF Holds, Loan
    <3>2. ~Before(Append(queue[k], Msg("RESOURCE_RESP_Y", n)), "RESOURCE_RESP_Y", "RESOURCE_RESP_Y")
      BY <1>0, <2>1, <3>1, HoldsAppend
    <3>3. q[k] = IF k = r THEN Append(queue[k], Msg("RESOURCE_RESP_Y", n)) ELSE queue[k]
      BY DEF Post
    <3> QED
      BY <3>1, <3>2, <3>3
  <2>4. Fewer(q, queue')
    <3>1. Fewer(q, q)
      BY DEF Fewer, NoMore
    <3>2. Fewer(q, Post(q, {r}, Msg("USER_ALIVE_CHECK", n)))
      BY <2>2, NoMorePost DEF PeerType
    <3>3. queue' = q \/ queue' = Post(q, {r}, Msg("USER_ALIVE_CHECK", n))
      BY <1>2 DEF checkIfAlive
    <3> QED
      BY <3>1, <3>2, <3>3
  <2> HIDE DEF q, r
  <2> QED
    BY <2>3, <2>4 DEF Fewer, NoMore
<1>9. resourceUser'[n] = r
  BY <1>0, <1>3 DEF Set
<1> HIDE DEF r, q
<1>10. \A k \in Node : Holds(k)' => k = r
  BY <1>7, <1>8 DEF Holds
<1> QED
  BY <1>6, <1>7, <1>8, <1>9, <1>10 DEF Loan

\* The use begins as the only grant is read.
LEMMA LoanUsed ==
  ASSUME TypeOK, Loan, NEW n \in Node, RecvGranted(n)
  PROVE  Loan'
<1>0. /\ queue \in [Node -> Seq(PeerMessage)]
      /\ pc \in [Node -> {"top", "recv", "using", "coord"}]
  BY DEF TypeOK
<1>1. /\ queue[n] # <<>> /\ Head(queue[n]).type = "RESOURCE_RESP_Y"
      /\ pc' = Set(pc, n, "using") /\ queue' = Received(n)
      /\ UNCHANGED <<rqueue, resourceUser>>
  BY DEF RecvGranted, Receives, coordVars
<1>2. /\ Has(queue[n], "RESOURCE_RESP_Y")
      /\ Before(queue[n], "RESOURCE_RESP_Y", "RESOURCE_RESP_Y") <=>
           \/ Before(Tail(queue[n]), "RESOURCE_RESP_Y", "RESOURCE_RESP_Y")
           \/ Has(Tail(queue[n]), "RESOURCE_RESP_Y")
  BY <1>0, <1>1, HoldsTail
<1>3. /\ ~Has(Tail(queue[n]), "RESOURCE_RESP_Y")
      /\ ~Before(Tail(queue[n]), "RESOURCE_RESP_Y", "RESOURCE_RESP_Y")
  BY <1>2 DEF Loan
<1>4. \A k \in Node : /\ queue'[k] = IF k = n THEN Tail(queue[k]) ELSE queue[k]
                      /\ pc'[k] = IF k = n THEN "using" ELSE pc[k]
  BY <1>0, <1>1 DEF Received, Set
<1>5. \A k \in Node : Holds(k)' <=> Holds(k)
  BY <1>2, <1>4 DEF Holds
<1>6. \A k \in Node : Released(k)' <=> Released(k)
  BY <1>1 DEF Released
<1>7. \A k \in Node : /\ ~(pc'[k] = "using" /\ Has(queue'[k], "RESOURCE_RESP_Y"))
                      /\ ~Before(queue'[k], "RESOURCE_RESP_Y", "RESOURCE_RESP_Y")
                      /\ ~Before(rqueue'[k], "FREE_RESOURCE", "FREE_RESOURCE")
  BY <1>1, <1>3, <1>4 DEF Loan
<1> QED
  BY <1>1, <1>5, <1>6, <1>7 DEF Loan

\* The use ends with one release, or none that anybody will read.
LEMMA LoanReturned ==
  ASSUME TypeOK, Loan, OneLends, NEW n \in Node, freeResource(n)
  PROVE  Loan'
<1>0. /\ rqueue \in [Node -> Seq(ResourceMessage)]
      /\ pc \in [Node -> {"top", "recv", "using", "coord"}]
  BY DEF TypeOK
<1>1. /\ pc[n] = "using" /\ pc' = Set(pc, n, "top") /\ PostResource(n, "FREE_RESOURCE")
      /\ UNCHANGED <<queue, resourceUser>>
  BY DEF freeResource, coordVars
<1>2. PICK c \in Node : resourceUser[c] = n
  BY <1>1 DEF Loan, Holds
<1>3. \A k \in Node : Holds(k) => k = n
  <2> SUFFICES ASSUME NEW k \in Node, Holds(k) PROVE k = n
    OBVIOUS
  <2>1. PICK d \in Node : resourceUser[d] = k
    BY DEF Loan
  <2>2. c = d
    BY <1>2, <2>1 DEF OneLends, Node, None
  <2> QED
    BY <1>2, <2>1, <2>2
<1>4. \A k \in Node : ~Holds(k)'
  BY <1>0, <1>1, <1>3 DEF Holds, Loan, Set
<1>5. \A d \in Node : ~Has(rqueue[d], "FREE_RESOURCE")
  BY <1>1 DEF Loan, Holds, Released
<1>6. \A d \in Node : /\ Released(d)' => d = COORD_ID[n]
                      /\ ~Before(rqueue'[d], "FREE_RESOURCE", "FREE_RESOURCE")
  <2>1. CASE rqueue' = rqueue
    BY <1>5, <2>1 DEF Released, Loan
  <2>2. CASE rqueue' = Set(rqueue, COORD_ID[n], Append(rqueue[COORD_ID[n]], Msg("FREE_RESOURCE", n)))
    <3> SUFFICES ASSUME NEW d \in Node
                 PROVE  /\ Released(d)' => d = COORD_ID[n]
                        /\ ~Before(rqueue'[d], "FREE_RESOURCE", "FREE_RESOURCE")
      OBVIOUS
    <3>1. ~Before(Append(rqueue[d], Msg("FREE_RESOURCE", n)), "FREE_RESOURCE", "FREE_RESOURCE")
      <4>1. Msg("FREE_RESOURCE", n) \in ResourceMessage
        BY MsgType DEF ResourceType
      <4> QED
        BY <1>0, <1>5, <4>1, HoldsAppend DEF Loan
    <3>2. rqueue'[d] = IF d = COORD_ID[n] THEN Append(rqueue[d], Msg("FREE_RESOURCE", n)) ELSE rqueue[d]
      BY <1>0, <2>2 DEF Set
    <3> QED
      BY <1>5, <3>1, <3>2 DEF Released, Loan
  <2> QED
    BY <1>1, <2>1, <2>2 DEF PostResource
<1>7. resourceUser'[c] # None
  BY <1>1, <1>2 DEF Node, None
<1>8. \A k \in Node : /\ ~(pc'[k] = "using" /\ Has(queue'[k], "RESOURCE_RESP_Y"))
                      /\ ~Before(queue'[k], "RESOURCE_RESP_Y", "RESOURCE_RESP_Y")
  BY <1>1, <1>4 DEF Loan, Holds
<1>9. \A d, e \in Node : Released(d)' /\ Released(e)' => d = e
  BY <1>6
<1> QED
  BY <1>4, <1>6, <1>7, <1>8, <1>9 DEF Loan

\* The release is read: nothing is left of the loan.
LEMMA LoanEnds ==
  ASSUME TypeOK, Loan, NEW n \in Node, ResourceFreed(n)
  PROVE  ~Outstanding'
<1>0. rqueue \in [Node -> Seq(ResourceMessage)]
  BY DEF TypeOK
<1>1. /\ rqueue[n] # <<>> /\ Head(rqueue[n]).type = "FREE_RESOURCE"
      /\ rqueue' = Set(rqueue, n, Tail(rqueue[n]))
      /\ NodeStep(n) /\ ~RecvGranted(n) /\ ~GrantResource(n)
  BY DEF ResourceFreed, ReceivesResource, AtCoordinatorTop, NodeStep, CoordStep, RecvGranted,
         Receives, GrantResource
<1>2. /\ Has(rqueue[n], "FREE_RESOURCE")
      /\ Before(rqueue[n], "FREE_RESOURCE", "FREE_RESOURCE") <=>
           \/ Before(Tail(rqueue[n]), "FREE_RESOURCE", "FREE_RESOURCE")
           \/ Has(Tail(rqueue[n]), "FREE_RESOURCE")
  BY <1>0, <1>1, HoldsTail
<1>3. \A d \in Node : ~Released(d)'
  BY <1>0, <1>1, <1>2 DEF Loan, Released, Set
<1>4. \A k \in Node : ~Holds(k)
  BY <1>2 DEF Loan, Released
<1>5. \A k \in Node : ~Holds(k)'
  BY <1>1, <1>4, NoMoreGrants, UseStarts DEF Holds, Fewer, NoMore
<1> QED
  BY <1>3, <1>5 DEF Outstanding

\* So every step keeps the loan, as long as nobody forgets it.
LEMMA LoanStep ==
  ASSUME TypeOK, Loan, OneLends, OneLends', [Next]_vars, [ForgetsNoLoan]_vars
  PROVE  Loan'
<1>1. CASE UNCHANGED vars
  BY <1>1 DEF vars, netVars, coordVars, Loan, Holds, Released
<1>2. ASSUME NEW n \in Node, NodeStep(n), ForgetsNoLoan PROVE Loan'
  <2>1. CASE GrantResource(n)
    BY <2>1, LoanGranted
  <2>2. CASE RecvGranted(n)
    BY <2>2, LoanUsed
  <2>3. CASE freeResource(n)
    BY <2>3, LoanReturned
  <2>4. CASE ~GrantResource(n) /\ ~RecvGranted(n) /\ ~freeResource(n)
    <3>1. /\ \A k \in Node : pc'[k] = "using" => pc[k] = "using"
          /\ Fewer(queue, queue')
          /\ \A d \in Node : NoMore("FREE_RESOURCE", rqueue[d], rqueue'[d])
      BY <1>2, <2>4, UseStarts, NoMoreGrants, NoMoreReleases
    <3>2. CASE ResourceFreed(n)
      BY <3>1, <3>2, LoanEnds, LoanKept
    <3>3. CASE Forgets(n)
      <4>1. ~Outstanding
        BY <1>2, <3>3 DEF ForgetsNoLoan
      <4>2. ~Outstanding'
        BY <3>1, <4>1 DEF Outstanding, Holds, Released, Fewer, NoMore
      <4> QED
        BY <3>1, <4>2, LoanKept
    <3>4. CASE ~ResourceFreed(n) /\ ~Forgets(n)
      BY <1>2, <2>4, <3>1, <3>4, UserChanges, LoanKept
    <3> QED
      BY <3>2, <3>3, <3>4
  <2> QED
    BY <2>1, <2>2, <2>3, <2>4
<1> QED
  BY <1>1, <1>2 DEF Next

\* Two nodes use the resource at a time only after two coordinators have both
\* counted it as lent, or one has given up or forgotten a user whose grant,
\* use or release was still to come.  Deaths, requests given up, late answers,
\* lost messages and a release sent to another coordinator do no harm otherwise.
THEOREM ExclusionUnlessForgotten ==
  Spec /\ []OneLends /\ [][ForgetsNoLoan]_vars => []MutualExclusion
<1>1. Init => Loan
  BY LoanInit
<1>2. TypeOK /\ Loan /\ OneLends /\ OneLends' /\ [Next]_vars /\ [ForgetsNoLoan]_vars => Loan'
  BY LoanStep
<1>3. OneLends /\ Loan => MutualExclusion
  BY OneUser
<1> QED
  BY <1>1, <1>2, <1>3, TypeCorrect, PTL DEF Spec
=============================================================================

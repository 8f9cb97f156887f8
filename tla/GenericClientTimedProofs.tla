----------------------- MODULE GenericClientTimedProofs -----------------------
(***************************************************************************)
(* The clock only restricts the nodes: GenericClientTimed implements       *)
(* GenericClient, so whatever is proved of the one holds of the other.     *)
(* What the clock adds is that no ping times out at a serving coordinator. *)
(***************************************************************************)
EXTENDS GenericClientTimed, ElectionProofs

\* Every step of a timed node is a step of the node without clock, and the
\* passing of time changes nothing a node can see.
THEOREM TimedImplements == TimedSpec => Spec
<1>1. TimedInit => Init
  BY DEF TimedInit
<1>2. [TimedNext]_timedVars => [Next]_vars
  <2> SUFFICES ASSUME [TimedNext]_timedVars PROVE [Next]_vars
    OBVIOUS
  <2>1. CASE UNCHANGED timedVars
    BY <2>1 DEF timedVars
  <2>2. ASSUME NEW n \in Node, TimedStep(n) PROVE Next
    BY <2>2 DEF TimedStep, Next
  <2>3. ASSUME NEW n \in Node, StayDead(n) PROVE UNCHANGED vars
    BY <2>3 DEF StayDead
  <2>4. CASE Tick
    BY <2>4 DEF Tick
  <2> QED
    BY <2>1, <2>2, <2>3, <2>4 DEF TimedNext
<1> QED
  BY <1>1, <1>2, PTL DEF TimedSpec, Spec

\* Clocks and timeouts keep their types, and the receive of the IDLE loop never
\* outlasts the local variable timeout.
THEOREM TimedTypeCorrect == TimedSpec => []TimedTypeOK
<1>1. TimedInit => TimedTypeOK
  BY WaitsAssumption DEF TimedInit, TimedTypeOK, RecvTimeout
<1>2. TypeOK /\ TypeOK' /\ TimedTypeOK /\ [TimedNext]_timedVars => TimedTypeOK'
  <2> SUFFICES ASSUME TypeOK, TypeOK', TimedTypeOK, [TimedNext]_timedVars
               PROVE  TimedTypeOK'
    OBVIOUS
  <2>1. CASE UNCHANGED timedVars
    BY <2>1 DEF timedVars, timeVars, vars, TimedTypeOK
  <2>2. ASSUME NEW n \in Node, TimedStep(n) PROVE TimedTypeOK'
    <3>1. timeout' \in [Node -> Waits \cup {RecvTimeout}]
      BY <2>2 DEF TimedStep, SetTimeout, TimedTypeOK, Set
    <3>2. PICK d \in Blocks(n) : timer' = Set(timer, n, d)
      BY <2>2 DEF TimedStep
    <3>3. pc'[n] \in {"top", "recv", "using", "coord"}
      BY DEF TypeOK
    <3>4. /\ d \in Nat
          /\ pc'[n] = "recv" => d = timeout'[n]
      BY <3>1, <3>2, <3>3, WaitsAssumption
      DEF Blocks, RecvTimeout, PollSleep, DeadSleep
    <3>5. timer' \in [Node -> Nat]
      BY <3>2, <3>4 DEF TimedTypeOK, Set
    <3>6. ASSUME NEW k \in Node, k # n
          PROVE  pc'[k] = pc[k] /\ timeout'[k] = timeout[k]
      BY <2>2, <3>6, OtherNodeUndisturbed DEF TimedStep, SetTimeout, TimedTypeOK, Set
    <3>7. ASSUME NEW k \in Node, pc'[k] = "recv" PROVE timer'[k] <= timeout'[k]
      <4>1. CASE k = n
        BY <3>1, <3>2, <3>4, <3>7, <4>1, WaitsAssumption DEF TimedTypeOK, Set, RecvTimeout
      <4>2. CASE k # n
        BY <3>2, <3>6, <3>7, <4>2 DEF TimedTypeOK, Set
      <4> QED
        BY <4>1, <4>2
    <3> QED
      BY <3>1, <3>5, <3>7 DEF TimedTypeOK
  <2>3. ASSUME NEW n \in Node, StayDead(n) PROVE TimedTypeOK'
    BY <2>3 DEF StayDead, TimedTypeOK, Set, vars, DeadSleep
  <2>4. CASE Tick
    <3>1. PICK d \in {timer[n] : n \in Node} :
            /\ \A n \in Node : d <= timer[n]
            /\ timer' = [n \in Node |-> timer[n] - d]
      BY <2>4 DEF Tick
    <3>2. d \in Nat
      BY <3>1 DEF TimedTypeOK
    <3>3. ASSUME NEW k \in Node PROVE timer[k] - d \in Nat /\ timer[k] - d <= timer[k]
      <4>1. timer[k] \in Nat
        BY DEF TimedTypeOK
      <4>2. d <= timer[k]
        BY <3>1
      <4> DEFINE t == timer[k]
      <4> HIDE DEF t
      <4>3. d \in Nat /\ t \in Nat /\ d <= t => t - d \in Nat /\ t - d <= t
        OBVIOUS
      <4> QED
        BY <3>2, <4>1, <4>2, <4>3 DEF t
    <3>4. ASSUME NEW k \in Node PROVE timeout[k] \in Nat /\ timer[k] \in Nat
      <4>1. Waits \cup {RecvTimeout} \subseteq Nat
        BY WaitsAssumption DEF RecvTimeout
      <4>2. timeout[k] \in Waits \cup {RecvTimeout} /\ timer[k] \in Nat
        BY DEF TimedTypeOK
      <4> QED
        BY <4>1, <4>2
    <3>5. ASSUME NEW k \in Node, pc[k] = "recv" PROVE timer[k] - d <= timeout[k]
      <4>1. timer[k] <= timeout[k]
        BY <3>5 DEF TimedTypeOK
      <4> DEFINE t == timer[k]
                 o == timeout[k]
      <4> HIDE DEF t, o
      <4>2. t \in Nat /\ o \in Nat /\ t - d \in Nat /\ t - d <= t /\ t <= o
        BY <3>3, <3>4, <4>1 DEF t, o
      <4>3. t \in Nat /\ o \in Nat /\ t - d \in Nat /\ t - d <= t /\ t <= o => t - d <= o
        OBVIOUS
      <4> QED
        BY <4>2, <4>3 DEF t, o
    <3>6. UNCHANGED <<pc, timeout>>
      BY <2>4 DEF Tick, vars
    <3> QED
      BY <3>1, <3>3, <3>5, <3>6 DEF TimedTypeOK
  <2> QED
    BY <2>1, <2>2, <2>3, <2>4 DEF TimedNext
<1> QED
  BY <1>1, <1>2, TimedImplements, TypeCorrect, PTL DEF TimedSpec

\* What is proved without clock holds with it.
COROLLARY TimedBullyOrder == TimedSpec => [](BullyOrder /\ CoordinatorReady /\ HighestNeverUses)
BY TimedImplements, BullyOrderHolds, CoordinatorReadyHolds, HighestNeverUsesHolds, PTL

-----------------------------------------------------------------------------
(* No ping times out at a coordinator that serves *)

Queued(m, q) == \E i \in 1..Len(q) : q[i] = m

\* The ping of n to c waits for c, and time for the answer is left; or the
\* answer, or the news that c has taken over, waits for n.
Handling(n, c) ==
  \/ timer[n] > 0 /\ Queued(Msg("COORD_PING", n), queue[c])
  \/ Queued(Msg("COORD_ALIVE", c), queue[n])
  \/ Queued(Msg("COORDINATOR", c), queue[n])

PingHandled ==
  \A n, c \in Node :
    pc[n] = "recv" /\ pinged[n] /\ COORD_ID[n] = c /\ IsCoordinator(c) => Handling(n, c)

\* A coordinator goes round its loop without a sleep.
NeverSleeps == \A c \in Node : IsCoordinator(c) /\ pc[c] = "top" => timer[c] = 0

\* What is posted is queued, and what was queued stays.
LEMMA QueuedPost ==
  ASSUME NEW q \in [Node -> Seq(PeerMessage)], NEW D, NEW x \in PeerMessage, NEW k \in Node
  PROVE  /\ k \in D => Queued(x, Post(q, D, x)[k])
         /\ \A m : Queued(m, q[k]) => Queued(m, Post(q, D, x)[k])
<1>1. CASE k \in D
  <2>1. Post(q, D, x)[k] = Append(q[k], x) /\ q[k] \in Seq(PeerMessage)
    BY <1>1 DEF Post
  <2>2. /\ Len(Append(q[k], x)) = Len(q[k]) + 1 /\ Len(q[k]) \in Nat
        /\ \A i \in 1..Len(q[k]) : Append(q[k], x)[i] = q[k][i]
        /\ Append(q[k], x)[Len(q[k]) + 1] = x
    BY <2>1, AppendProperties
  <2> QED
    BY <2>1, <2>2 DEF Queued
<1>2. CASE k \notin D
  BY <1>2 DEF Post
<1> QED
  BY <1>1, <1>2

\* Only the first message is taken.
LEMMA QueuedTake ==
  ASSUME NEW q \in Seq(PeerMessage), q # <<>>, NEW m, Queued(m, q), Head(q) # m
  PROVE  Queued(m, Tail(q))
<1>1. PICK i \in 1..Len(q) : q[i] = m
  BY DEF Queued
<1>2. i # 1
  BY <1>1, HeadTailProperties
<1>3. i - 1 \in 1..Len(Tail(q)) /\ Tail(q)[i - 1] = m
  BY <1>1, <1>2, HeadTailProperties
<1> QED
  BY <1>3 DEF Queued

\* A step of n leaves a message where it is queued, unless it is the first one
\* of n and n reads it.
LEMMA QueuedStays ==
  ASSUME TypeOK, AtHome, NEW n \in Node, NodeStep(n), NEW k \in Node, NEW m,
         Queued(m, queue[k]),
         ~(k = n /\ pc[n] # "top" /\ queue[n] # <<>> /\ Head(queue[n]) = m)
  PROVE  Queued(m, queue'[k])
<1> DEFINE Q == {q \in [Node -> Seq(PeerMessage)] : Queued(m, q[k])}
<1>1. queue \in Q
  BY DEF TypeOK
<1>2. ASSUME queue[n] # <<>>, pc[n] # "top" PROVE Received(n) \in Q
  <2>1. Received(n) \in [Node -> Seq(PeerMessage)]
    BY <1>2, ReceivedType
  <2>2. CASE k = n
    <3>1. Received(n)[n] = Tail(queue[n]) /\ queue[n] \in Seq(PeerMessage)
      BY DEF Received, TypeOK
    <3>2. Queued(m, Tail(queue[n]))
      BY <1>2, <2>2, <3>1, QueuedTake
    <3> QED
      BY <2>1, <2>2, <3>1, <3>2
  <2>3. CASE k # n
    BY <2>1, <2>3 DEF Received, TypeOK
  <2> QED
    BY <2>2, <2>3
<1>3. \A q \in Q, t \in PeerType : \A D : Post(q, D, Msg(t, n)) \in Q
  BY MsgType, PostType, QueuedPost
<1>4. "COORD_ALIVE" \in PeerType
  BY DEF PeerType
<1>5. queue' \in Q
  <2> HIDE DEF Q
  <2> QED
    BY <1>1, <1>2, <1>3, <1>4, QueueStep
<1> QED
  BY <1>5

\* The clock of a step: the others' stand still, and a receive is given time.
LEMMA TimerStep ==
  ASSUME TypeOK, TypeOK', TimedTypeOK, TimedTypeOK', NEW n \in Node, TimedStep(n)
  PROVE  /\ \A k \in Node : k # n => timer'[k] = timer[k]
         /\ pc'[n] = "recv" => timer'[n] > 0
         /\ pc[n] # "recv" /\ pc'[n] = "top" /\ myState'[n] # "DEAD" => timer'[n] = 0
         /\ queue[n] = <<>> /\ pc'[n] = "top" /\ myState'[n] # "DEAD" => timer'[n] = 0
<1>1. PICK d \in Blocks(n) : timer' = Set(timer, n, d)
  BY DEF TimedStep
<1>2. timer'[n] = d /\ \A k \in Node : k # n => timer'[k] = timer[k]
  BY <1>1 DEF TimedTypeOK, Set
<1>3. ASSUME pc'[n] = "recv" PROVE d > 0
  <2>1. d = timeout'[n]
    BY <1>1, <1>3 DEF Blocks
  <2>2. timeout'[n] \in Waits \cup {RecvTimeout}
    BY DEF TimedTypeOK
  <2>3. \A w \in Waits \cup {RecvTimeout} : w > 0
    BY WaitsAssumption DEF RecvTimeout
  <2> QED
    BY <2>1, <2>2, <2>3
<1>4. ASSUME pc'[n] = "top", myState'[n] # "DEAD", pc[n] # "recv" \/ queue[n] = <<>>
      PROVE  d = 0
  BY <1>1, <1>4 DEF Blocks, Receives
<1> QED
  BY <1>2, <1>3, <1>4

\* Only the takeover makes a coordinator.
LEMMA TakeoverOnly ==
  ASSUME TypeOK, NEW n \in Node, NodeStep(n), IsCoordinator(n)', ~IsCoordinator(n)
  PROVE  BecomeCoordinator(n)
BY DEF NodeStep, TopStep, RecvStep, TimeoutStep, UseStep, CoordStep, Die, StartElection,
       EnterIdle, RecvCoordinator, RecvElectionReq, RecvElectionAck, RecvCoordAlive,
       RecvGranted, RecvDenied, RecvIgnored, PingFailed, RequestFailed, KeepWaiting,
       UsePoll, freeResource, GrantResource, DenyResource, ResourceFreed,
       NoResourceMessage, checkIfAlive, CoordTimeout, CoordPing, CoordUserAck, StepDown,
       CoordIgnored, IsCoordinator, TypeOK, Set

\* A new coordinator, and one that has received, goes on at once.
LEMMA NeverSleepsStep ==
  ASSUME TypeOK, TypeOK', TimedTypeOK, TimedTypeOK', AtHome, NeverSleeps,
         NEW n \in Node, TimedStep(n)
  PROVE  NeverSleeps'
<1> SUFFICES ASSUME NEW c \in Node, IsCoordinator(c)', pc'[c] = "top" PROVE timer'[c] = 0
  BY DEF NeverSleeps
<1>1. NodeStep(n)
  BY DEF TimedStep
<1>2. CASE c # n
  <2>1. pc'[c] = pc[c] /\ myState'[c] = myState[c]
    BY <1>1, <1>2, OtherNodeUndisturbed
  <2> QED
    BY <1>2, <2>1, TimerStep DEF NeverSleeps, IsCoordinator
<1>3. CASE c = n
  <2>1. pc[n] # "recv" \/ queue[n] = <<>>
    <3>1. CASE IsCoordinator(n)
      BY <3>1 DEF AtHome, IsCoordinator
    <3>2. CASE ~IsCoordinator(n)
      BY <1>1, <1>3, <3>2, TakeoverOnly DEF BecomeCoordinator, TimedOut
    <3> QED
      BY <3>1, <3>2
  <2> QED
    BY <1>3, <2>1, TimerStep DEF IsCoordinator
<1> QED
  BY <1>2, <1>3

\* What a node does while it waits for the answer to its own ping.
LEMMA WaiterStep ==
  ASSUME TypeOK, TypeOK', TimedTypeOK, TimedTypeOK', BullyOrder, AtHome, AtHome', PingHandled,
         NEW n \in Node, TimedStep(n), NEW c \in Node, pc'[n] = "recv", pinged'[n],
         COORD_ID'[n] = c, IsCoordinator(c)'
  PROVE  Handling(n, c)'
<1>0. /\ NodeStep(n)
      /\ timer'[n] > 0
      /\ queue \in [Node -> Seq(PeerMessage)]
  BY TimerStep DEF TimedStep, TypeOK
<1>1. c # n
  BY DEF AtHome, IsCoordinator
<1>2. IsCoordinator(c)
  BY <1>0, <1>1, OtherNodeUndisturbed DEF IsCoordinator
<1>3. CASE EnterIdle(n)
  <2>1. COORD_ID[n] = c
    BY <1>3 DEF EnterIdle
  <2>2. queue' = Post(queue, {c}, Msg("COORD_PING", n))
    <3>1. COORD_ID[n] # None
      BY <2>1 DEF Node, None
    <3>2. queue' = Post(queue, {COORD_ID[n]}, Msg("COORD_PING", n))
      BY <1>3, <3>1 DEF EnterIdle
    <3> QED
      BY <2>1, <3>2
  <2>3. Queued(Msg("COORD_PING", n), queue'[c])
    BY <1>0, <2>2, MsgType, QueuedPost DEF PeerType
  <2> QED
    BY <1>0, <2>3 DEF Handling, Queued
<1>4. CASE RecvElectionAck(n) \/ RecvIgnored(n) \/ KeepWaiting(n)
  <2>1. /\ pc[n] = "recv" /\ pinged[n] /\ COORD_ID[n] = c
        /\ queue[n] # <<>> => Head(queue[n]).type \notin {"COORD_ALIVE", "COORDINATOR"}
    BY <1>4
    DEF RecvElectionAck, RecvIgnored, KeepWaiting, TimedOut, Receives, waitVars
  <2>2. Handling(n, c)
    BY <1>2, <2>1 DEF PingHandled
  <2>3. CASE Queued(Msg("COORD_PING", n), queue[c])
    <3>1. Queued(Msg("COORD_PING", n), queue'[c])
      BY <1>0, <1>1, <2>3, QueuedStays
    <3> QED
      BY <1>0, <3>1 DEF Handling, Queued
  <2>4. ASSUME NEW t \in {"COORD_ALIVE", "COORDINATOR"}, Queued(Msg(t, c), queue[n])
        PROVE  Queued(Msg(t, c), queue'[n])
    <3>1. queue[n] # <<>> => Head(queue[n]) # Msg(t, c)
      BY <2>1 DEF Msg
    <3> QED
      BY <1>0, <2>4, <3>1, QueuedStays
  <2> QED
    BY <2>2, <2>3, <2>4 DEF Handling, Queued
<1>5. CASE RecvElectionReq(n)
  BY <1>5 DEF RecvElectionReq, convocateElection, Set, TypeOK, Node, None
<1>6. CASE RecvCoordAlive(n)
  BY <1>6 DEF RecvCoordAlive, Set, TypeOK
<1>7. CASE pc' \in {Set(pc, n, "top"), Set(pc, n, "using"), Set(pc, n, "coord")}
  BY <1>7 DEF Set, TypeOK
<1>8. CASE pc[n] # "recv" /\ UNCHANGED pc
  BY <1>8
<1> QED
  BY <1>0, <1>3, <1>4, <1>5, <1>6, <1>7, <1>8
  DEF NodeStep, TopStep, RecvStep, TimeoutStep, UseStep, CoordStep, Die, StartElection,
      RecvCoordinator, RecvGranted, RecvDenied, BecomeCoordinator, PingFailed,
      RequestFailed, UsePoll, freeResource, GrantResource, DenyResource, ResourceFreed,
      NoResourceMessage, checkIfAlive, CoordTimeout, CoordPing, CoordUserAck, StepDown,
      CoordIgnored, CoordReceives

\* What the coordinator does while a ping of n may wait for it: it answers the
\* ping, or lets it wait, or has just announced itself to n.
LEMMA ServerStep ==
  ASSUME TypeOK, TypeOK', TimedTypeOK, TimedTypeOK', BullyOrder, AtHome, PingHandled,
         NEW n \in Node, NEW c \in Node, c # n, TimedStep(c),
         pc[n] = "recv", pinged[n], COORD_ID[n] = c, IsCoordinator(c)'
  PROVE  Handling(n, c)'
<1>0. /\ NodeStep(c)
      /\ timer'[n] = timer[n]
      /\ queue \in [Node -> Seq(PeerMessage)]
  <2>1. timer'[n] = timer[n]
    BY TimerStep
  <2> QED
    BY <2>1 DEF TimedStep, TypeOK
<1>1. CASE ~IsCoordinator(c)
  <2>1. queue' = Post(queue, Below(c), Msg("COORDINATOR", c))
    BY <1>0, <1>1, TakeoverOnly DEF BecomeCoordinator, sendCoordinatorMsg
  <2>2. n \in Below(c)
    BY DEF BullyOrder, Below, Node, None
  <2>3. Queued(Msg("COORDINATOR", c), queue'[n])
    BY <1>0, <2>1, <2>2, MsgType, QueuedPost DEF PeerType
  <2> QED
    BY <2>3 DEF Handling, Queued
<1>2. CASE IsCoordinator(c)
  <2>1. Handling(n, c)
    BY <1>2 DEF PingHandled
  <2>2. ASSUME NEW m, Queued(m, queue[n]) PROVE Queued(m, queue'[n])
    BY <1>0, <2>2, QueuedStays
  <2>3. CASE timer[n] > 0 /\ Queued(Msg("COORD_PING", n), queue[c])
    <3>1. CASE pc[c] # "top" /\ queue[c] # <<>> /\ Head(queue[c]) = Msg("COORD_PING", n)
      <4>1. pc[c] = "coord"
        BY <1>2, <3>1 DEF AtHome, TypeOK, IsCoordinator
      <4>2. Head(queue[c]).type = "COORD_PING" /\ Sender(c) = n
        BY <3>1 DEF Msg, Sender
      <4>3. CoordPing(c)
        BY <1>0, <3>1, <4>1, <4>2
        DEF NodeStep, TopStep, RecvStep, TimeoutStep, UseStep, CoordStep, Die,
            StartElection, EnterIdle, Receives, RecvCoordinator, RecvElectionReq,
            RecvElectionAck, RecvCoordAlive, RecvGranted, RecvDenied, RecvIgnored,
            TimedOut, BecomeCoordinator, PingFailed, RequestFailed, KeepWaiting, UsePoll,
            freeResource, AtCoordinatorTop, ReceivesResource, GrantResource,
            DenyResource, ResourceFreed, NoResourceMessage, CoordTimeout, CoordReceives,
            CoordUserAck, StepDown, CoordIgnored
      <4>4. queue' = Post(Received(c), {n}, Msg("COORD_ALIVE", c))
        BY <4>2, <4>3 DEF CoordPing
      <4>5. Received(c) \in [Node -> Seq(PeerMessage)]
        BY <3>1, ReceivedType
      <4>6. Queued(Msg("COORD_ALIVE", c), queue'[n])
        BY <4>4, <4>5, MsgType, QueuedPost DEF PeerType
      <4> QED
        BY <4>6 DEF Handling, Queued
    <3>2. CASE ~(pc[c] # "top" /\ queue[c] # <<>> /\ Head(queue[c]) = Msg("COORD_PING", n))
      <4>1. Queued(Msg("COORD_PING", n), queue'[c])
        BY <1>0, <2>3, <3>2, QueuedStays
      <4> QED
        BY <1>0, <2>3, <4>1 DEF Handling, Queued
    <3> QED
      BY <3>1, <3>2
  <2> QED
    BY <2>1, <2>2, <2>3 DEF Handling, Queued
<1> QED
  BY <1>1, <1>2

\* What any other node does concerns neither.
LEMMA BystanderStep ==
  ASSUME TypeOK, TypeOK', TimedTypeOK, TimedTypeOK', AtHome,
         NEW k \in Node, TimedStep(k), NEW n \in Node \ {k}, NEW c \in Node \ {k}, Handling(n, c)
  PROVE  Handling(n, c)'
<1>1. NodeStep(k) /\ timer'[n] = timer[n]
  BY TimerStep DEF TimedStep
<1>2. ASSUME NEW j \in {n, c}, NEW m, Queued(m, queue[j]) PROVE Queued(m, queue'[j])
  BY <1>1, <1>2, QueuedStays
<1> QED
  BY <1>1, <1>2 DEF Handling, Queued

\* While a ping is being handled no time passes: the coordinator, or the node
\* itself, has something to do.
LEMMA HandlingIsNow ==
  ASSUME TypeOK, AtHome, NeverSleeps, NEW n \in Node, NEW c \in Node,
         pc[n] = "recv", IsCoordinator(c), Handling(n, c)
  PROVE  Awake(n) \/ Awake(c)
<1>1. CASE Queued(Msg("COORD_PING", n), queue[c])
  <2>1. queue[c] # <<>>
    BY <1>1 DEF Queued
  <2>2. pc[c] \in {"top", "coord"}
    BY DEF AtHome, TypeOK, IsCoordinator
  <2> QED
    BY <2>1, <2>2 DEF NeverSleeps, Awake, HasMessage
<1>2. CASE Queued(Msg("COORD_ALIVE", c), queue[n]) \/ Queued(Msg("COORDINATOR", c), queue[n])
  <2>1. queue[n] # <<>>
    BY <1>2 DEF Queued
  <2> QED
    BY <2>1 DEF Awake, HasMessage
<1> QED
  BY <1>1, <1>2 DEF Handling

\* Every ping that waits for a coordinator that serves is handled in time.
LEMMA PingHandledStep ==
  ASSUME TypeOK, TypeOK', TimedTypeOK, TimedTypeOK', BullyOrder, AtHome, AtHome',
         PingHandled, NeverSleeps, [TimedNext]_timedVars
  PROVE  PingHandled' /\ NeverSleeps'
<1>1. CASE UNCHANGED timedVars
  BY <1>1 DEF timedVars, timeVars, vars, netVars, waitVars, PingHandled, NeverSleeps,
              Handling, Queued, IsCoordinator
<1>2. ASSUME NEW k \in Node, TimedStep(k) PROVE PingHandled' /\ NeverSleeps'
  <2>1. NeverSleeps'
    BY <1>2, NeverSleepsStep
  <2>2. ASSUME NEW n \in Node, NEW c \in Node, pc'[n] = "recv", pinged'[n],
               COORD_ID'[n] = c, IsCoordinator(c)'
        PROVE  Handling(n, c)'
    <3>1. NodeStep(k)
      BY <1>2 DEF TimedStep
    <3>2. CASE k = n
      BY <1>2, <2>2, <3>2, WaiterStep
    <3>3. CASE k # n
      <4>1. pc[n] = "recv" /\ pinged[n] /\ COORD_ID[n] = c
        BY <2>2, <3>1, <3>3, OtherNodeUndisturbed
      <4>2. CASE k = c
        BY <1>2, <2>2, <3>3, <4>1, <4>2, ServerStep
      <4>3. CASE k # c
        <5>1. IsCoordinator(c)
          BY <2>2, <3>1, <4>3, OtherNodeUndisturbed DEF IsCoordinator
        <5>2. Handling(n, c)
          BY <4>1, <5>1 DEF PingHandled
        <5> QED
          BY <1>2, <3>3, <4>3, <5>2, BystanderStep
      <4> QED
        BY <4>2, <4>3
    <3> QED
      BY <3>2, <3>3
  <2>3. PingHandled'
    BY <2>2 DEF PingHandled
  <2> QED
    BY <2>1, <2>3
<1>3. ASSUME NEW k \in Node, StayDead(k) PROVE PingHandled' /\ NeverSleeps'
  <2>1. /\ UNCHANGED <<pc, myState, COORD_ID, pinged, queue>>
        /\ pc[k] = "top" /\ myState[k] = "DEAD"
        /\ \A j \in Node : j # k => timer'[j] = timer[j]
    BY <1>3 DEF StayDead, vars, netVars, waitVars, Set, TimedTypeOK
  <2>2. NeverSleeps'
    BY <2>1 DEF NeverSleeps, IsCoordinator
  <2>3. PingHandled'
    BY <2>1 DEF PingHandled, Handling, Queued, IsCoordinator
  <2> QED
    BY <2>2, <2>3
<1>4. CASE Tick
  <2>1. UNCHANGED <<pc, myState, COORD_ID, pinged, queue>>
    BY <1>4 DEF Tick, vars, netVars, waitVars
  <2>2. \A k \in Node : ~Awake(k)
    BY <1>4 DEF Tick
  <2>3. \A c \in Node : ~(IsCoordinator(c) /\ pc[c] = "top")
    BY <2>2 DEF NeverSleeps, Awake
  <2>4. \A n, c \in Node :
          ~(pc[n] = "recv" /\ pinged[n] /\ COORD_ID[n] = c /\ IsCoordinator(c))
    BY <2>2, HandlingIsNow DEF PingHandled
  <2> QED
    BY <2>1, <2>3, <2>4 DEF PingHandled, NeverSleeps, IsCoordinator
<1> QED
  BY <1>1, <1>2, <1>3, <1>4 DEF TimedNext

\* A node whose ping times out follows nobody that serves: the answer of a
\* serving coordinator comes before the first receive is over.
THEOREM PingSuspicionJustifiedHolds == TimedSpec => PingSuspicionJustified
<1> DEFINE Base == TypeOK /\ TimedTypeOK /\ BullyOrder /\ AtHome
           Justified == \A n \in Node :
             PingFailed(n) /\ COORD_ID[n] # None => ~IsCoordinator(COORD_ID[n])
<1>1. TimedInit => PingHandled /\ NeverSleeps
  BY DEF TimedInit, Init, PingHandled, NeverSleeps, IsCoordinator
<1>2. Base /\ Base' /\ PingHandled /\ NeverSleeps /\ [TimedNext]_timedVars
        => PingHandled' /\ NeverSleeps'
  BY PingHandledStep
<1>3. Base /\ Base' /\ PingHandled /\ [TimedNext]_timedVars => [Justified]_timedVars
  <2> SUFFICES ASSUME Base, Base', PingHandled, TimedNext,
                      NEW n \in Node, PingFailed(n), COORD_ID[n] # None,
                      IsCoordinator(COORD_ID[n])
               PROVE  FALSE
    OBVIOUS
  <2>1. /\ pc[n] = "recv" /\ queue[n] = <<>> /\ pinged[n]
        /\ pc'[n] = "top"
    BY DEF PingFailed, TimedOut, Set, TypeOK
  <2>2. COORD_ID[n] \in Node
    BY DEF TypeOK
  <2>3. Handling(n, COORD_ID[n])
    BY <2>1, <2>2 DEF PingHandled
  <2>4. timer[n] > 0
    BY <2>1, <2>3 DEF Handling, Queued
  <2>5. PICK k \in Node : TimedStep(k)
    BY <2>1 DEF TimedNext, StayDead, Tick, vars
  <2>6. k = n
    BY <2>1, <2>5, OtherNodeUndisturbed DEF TimedStep
  <2> QED
    BY <2>1, <2>4, <2>5, <2>6 DEF TimedStep, Awake, HasMessage
<1> QED
  <2>1. Spec => []AtHome
    BY InductiveInvariant, PTL DEF IInv
  <2> QED
    BY <1>1, <1>2, <1>3, <2>1, TimedImplements, TypeCorrect, TimedTypeCorrect,
       BullyOrderHolds, PTL
    DEF TimedSpec, PingSuspicionJustified
=============================================================================

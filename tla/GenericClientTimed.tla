-------------------------- MODULE GenericClientTimed --------------------------
(***************************************************************************)
(* GenericClient under the clock.  Every step is a step of GenericClient;  *)
(* this module adds when a node may take it: a node blocks in              *)
(* receive(timeout) or in Thread.sleep for the time the code gives, it     *)
(* handles a message as soon as it receives, and its computing takes no    *)
(* time.  One unit of time is one second.                                  *)
(***************************************************************************)
EXTENDS GenericClient

CONSTANT Waits     \* the seconds generateRandomNumber(6000, 10000) may give

ASSUME WaitsAssumption == Waits # {} /\ Waits \subseteq Nat \ {0}

RecvTimeout == 3   \* l. 518 and l. 769
PollSleep == 1     \* l. 685
DeadSleep == 11    \* l. 477 and then l. 825: 5 s and 6 s

VARIABLES
  timer,    \* seconds left of the sleep or of the receive n blocks in
  timeout   \* the local variable timeout of the IDLE branch

timeVars == <<timer, timeout>>
timedVars == <<vars, timeVars>>

\* Times are times, and no receive of the IDLE loop blocks longer than the
\* local variable timeout says.
TimedTypeOK ==
  /\ timer \in [Node -> Nat]
  /\ timeout \in [Node -> Waits \cup {RecvTimeout}]
  /\ \A n \in Node : pc[n] = "recv" => timer[n] <= timeout[n]

TimedInit ==
  /\ Init
  /\ timer = [n \in Node |-> IF n = 0 THEN 0 ELSE RecvTimeout]
  /\ timeout = [n \in Node |-> RecvTimeout]

\* The receive a node blocks in has a message for it.
HasMessage(n) == pc[n] \in {"recv", "coord"} /\ queue[n] # <<>>

\* A node that is not blocked.  A sleeping node (at "top" or "using") is,
\* whatever is in its queue.
Awake(n) == timer[n] = 0 \/ HasMessage(n)

\* timeout: 3 s on entry to the IDLE loop, 6 to 10 s from a request on.
SetTimeout(n) ==
  \/ /\ EnterIdle(n)
     /\ timeout' = Set(timeout, n, RecvTimeout)
  \/ /\ RecvCoordAlive(n) /\ pc'[n] = "recv"
     /\ \E w \in Waits : timeout' = Set(timeout, n, w)
  \/ /\ ~EnterIdle(n)
     /\ ~(RecvCoordAlive(n) /\ pc'[n] = "recv")
     /\ timeout' = timeout

\* mutant: the receive of the IDLE loop is given a wait instead of timeout
BlocksForWait(n) ==
  CASE pc'[n] \in {"recv", "coord"} -> Waits
    [] pc'[n] = "using" -> {PollSleep}
    [] pc'[n] = "top"   -> IF myState'[n] = "DEAD" THEN {DeadSleep} ELSE {0}

\* How long the step n takes makes it block: the timeout of the receive it
\* enters, or the sleep it ends in.
Blocks(n) ==
  CASE pc'[n] = "recv"  -> {timeout'[n]}
    [] pc'[n] = "coord" -> {RecvTimeout}
    [] pc'[n] = "using" -> {IF pc[n] = "using" THEN PollSleep ELSE 0}
    [] pc'[n] = "top"   -> IF myState'[n] = "DEAD" THEN {DeadSleep}
                           ELSE IF Receives(n, {"COORD_ALIVE", "RESOURCE_RESP_N"})
                             THEN Waits ELSE {0}

TimedStep(n) ==
  /\ Awake(n)
  /\ NodeStep(n)
  /\ SetTimeout(n)
  /\ \E d \in Blocks(n) : timer' = Set(timer, n, d)

\* aliveOrDead() came out false again: the dead node sleeps another round.
StayDead(n) ==
  /\ pc[n] = "top" /\ myState[n] = "DEAD" /\ timer[n] = 0
  /\ timer' = Set(timer, n, DeadSleep)
  /\ UNCHANGED <<vars, timeout>>

\* Time passes to the next expiry once nobody has anything to do.
Tick ==
  /\ \A n \in Node : ~Awake(n)
  /\ \E d \in {timer[n] : n \in Node} :
       /\ \A n \in Node : d <= timer[n]
       /\ timer' = [n \in Node |-> timer[n] - d]
  /\ UNCHANGED <<vars, timeout>>

TimedNext ==
  \/ \E n \in Node : TimedStep(n) \/ StayDead(n)
  \/ Tick

TimedSpec == TimedInit /\ [][TimedNext]_timedVars

\* Nodes run and time passes; and a dead node, whose every round draws
\* aliveOrDead() anew, is not dead for ever.
Fairness ==
  /\ WF_timedVars(Tick)
  /\ \A n \in Node : WF_timedVars(TimedStep(n))
  /\ \A n \in Node : SF_timedVars(myState[n] = "DEAD" /\ TimedStep(n))

-----------------------------------------------------------------------------
IsCoordinator(n) == myState[n] = "COORDINATOR"

\* What the comment on the takeover says: a node becomes coordinator in the
\* "case: the highest processes are down" (l. 532).
TakeoverOnlyIfHigherDown ==
  \A n \in Node : IsCoordinator(n) => \A k \in Above(n) : myState[k] = "DEAD"

\* A node suspects a coordinator for not answering a ping only if that node is
\* not serving: a serving coordinator answers within the first receive, even
\* to a node whose iterTolerance is still full of earlier waits.
PingSuspicionJustified ==
  [][\A n \in Node : PingFailed(n) /\ COORD_ID[n] # None => ~IsCoordinator(COORD_ID[n])]_timedVars

\* However elections, deaths and step-downs cross, a coordinator appears again.
CoordinatorAgain == []<>(\E n \in Node : IsCoordinator(n))

\* A coordinator does not count the resource as held by the same node for ever:
\* if the message that frees it is lost, or its user is dead or has forgotten
\* it, the alive check sets it free.
ResourceComesBack ==
  \A c \in Node : \A u \in Below(c) :
    (IsCoordinator(c) /\ resourceUser[c] = u) ~> (resourceUser[c] # u \/ ~IsCoordinator(c))
=============================================================================

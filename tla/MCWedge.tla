------------------------------- MODULE MCWedge -------------------------------
(***************************************************************************)
(* A behaviour of GenericClient that is too long to be come across: three  *)
(* nodes end up all waiting for a message.  A schedule says which node     *)
(* takes each step; what the step does is what the node's place in the     *)
(* loop and the head of its queue leave it to do, but for the two random   *)
(* draws, aliveOrDead() and checkResourceRequest(), which the schedule     *)
(* fixes as well.  The thresholds are the program's.                       *)
(***************************************************************************)
EXTENDS GenericClient

VARIABLE turn

Goes(n, k) == [i \in 1..k |-> [node |-> n, what |-> "goes"]]
Dies(n) == <<[node |-> n, what |-> "dies"]>>
Asks(n) == <<[node |-> n, what |-> "asks"]>>
Wins(n) == Goes(n, ITER_TH_TOLERANCE)   \* the empty receives of an election
Uses(n) == Goes(n, 1 + CHOOSE polls \in UsePolls : TRUE)   \* a grant, all polls

\* Two of the elections that node 0 convocates put node 2 through two terms, of
\* which nodes 0 and 1 keep more answers to pings than a single term gives.
Terms ==
  Goes(0, 2) \o Goes(1, 1) \o Goes(2, 2) \o Wins(2) \o Goes(0, 3) \o Goes(1, 3)
  \o Goes(2, 2)
  \o Dies(0) \o Goes(0, 1) \o Dies(0) \o Goes(0, 1) \o Goes(2, 4) \o Wins(2)
  \o Goes(1, 4) \o Goes(2, 6) \o Wins(2) \o Goes(1, 7) \o Goes(0, 8)

\* Node 1 gets the resource, and is given up when it does not answer an alive
\* check after its last poll.  Then 0 asks for the resource, 1 frees it and
\* asks again, and both give up waiting before 2 looks at any of this.
Requests ==
  Goes(2, 2) \o Asks(1) \o Goes(2, 1) \o Uses(1) \o Goes(2, 17)
  \o Goes(0, 2) \o Asks(0) \o Goes(1, 4) \o Asks(1) \o Goes(1, 3) \o Goes(0, 1)

\* 0 convocates and dies; 1 convocates, and once more for the election of 0.
\* Before it comes to the first election request 2 has granted both requests,
\* with the late release in between; it then steps down, acknowledges 1, and
\* wins.  1 uses the resource, drops all this, and takes over as well.
Doubts ==
  Goes(0, 1) \o Goes(1, 3) \o Dies(0) \o Goes(2, 11) \o Wins(2)
  \o Goes(1, 2) \o Uses(1) \o Goes(1, 2) \o Wins(1)

\* 0 is back and convocates: both coordinators step down without a word.  The
\* acknowledgment of 1 to its last election closes this one, and both
\* announcements are dropped while it uses the resource.
Return ==
  Goes(0, 2) \o Goes(1, 3) \o Goes(2, 5) \o Goes(0, 1) \o Uses(0) \o Goes(0, 2)

Schedule == Terms \o Requests \o Doubts \o Return

Step(n, what) ==
  \/ what = "dies" /\ Die(n)
  \/ what = "asks" /\ RecvCoordAlive(n) /\ pc'[n] = "recv"
  \/ /\ what = "goes"
     /\ NodeStep(n)
     /\ myState'[n] # "DEAD"
     /\ RecvCoordAlive(n) => pc'[n] = "top"

WedgeNext ==
  /\ turn <= Len(Schedule)
  /\ Step(Schedule[turn].node, Schedule[turn].what)
  /\ turn' = turn + 1

WedgeSpec == Init /\ turn = 1 /\ [][WedgeNext]_<<vars, turn>>
=============================================================================

------------------------------- MODULE MCTimed -------------------------------
(***************************************************************************)
(* GenericClientTimed with a budget of deaths and of resource requests.    *)
(* aliveOrDead() and checkResourceRequest() are random draws: a spent      *)
(* budget only means that the other outcome is drawn from then on.         *)
(***************************************************************************)
EXTENDS GenericClientTimed, FiniteSets

CONSTANTS MaxDeaths, MaxRequests

VARIABLES deaths, requests

mcVars == <<timedVars, deaths, requests>>

Died == {n \in Node : myState[n] # "DEAD" /\ myState'[n] = "DEAD"}
Requested == {n \in Node : Receives(n, {"COORD_ALIVE"}) /\ pc'[n] = "recv" /\ queue'[n] = Tail(queue[n])}

MCInit == TimedInit /\ deaths = 0 /\ requests = 0

MCNext ==
  /\ TimedNext
  /\ deaths' = deaths + Cardinality(Died)
  /\ requests' = requests + Cardinality(Requested)
  /\ deaths' <= MaxDeaths
  /\ requests' <= MaxRequests

MCSpec == MCInit /\ [][MCNext]_mcVars
MCFairSpec == MCSpec /\ Fairness
=============================================================================

--------------------------- MODULE MCGenericClient ---------------------------
(***************************************************************************)
(* GenericClient with a budget of upsets - deaths, and elections a node    *)
(* starts because an answer is late - and of resource requests, so that    *)
(* TLC's state space is finite.  The counters are no part of the program.  *)
(***************************************************************************)
EXTENDS GenericClient, FiniteSets

CONSTANTS MaxUpsets, MaxRequests

VARIABLES upsets, requests

mcVars == <<vars, upsets, requests>>

Upset == {n \in Node : myState[n] # myState'[n] /\ myState'[n] \in {"DEAD", "CANDIDATE"}}
Requested == {n \in Node : ~requested[n] /\ requested'[n]}

MCInit == Init /\ upsets = 0 /\ requests = 0

MCNext ==
  /\ Next
  /\ upsets' = upsets + Cardinality(Upset)
  /\ requests' = requests + Cardinality(Requested)
  /\ upsets' <= MaxUpsets
  /\ requests' <= MaxRequests

MCSpec == MCInit /\ [][MCNext]_mcVars
=============================================================================

------------------------------- MODULE Election -------------------------------
(***************************************************************************)
(* What the election of assignment 3 promises, without its messages: only  *)
(* a node that stands becomes coordinator, a node follows and doubts only  *)
(* nodes above it that have become coordinator, and nobody can talk the    *)
(* node with the highest id out of an election.                            *)
(*                                                                         *)
(* It does not promise that there is one coordinator at a time, nor that   *)
(* it is the highest node alive: a node may follow one that has long       *)
(* stepped down, and stand against one that serves.                        *)
(***************************************************************************)
EXTENDS Integers

CONSTANT Highest

Node == 0..Highest
Nobody == -1

VARIABLES
  role,
  leader,    \* leader[n]: the coordinator n follows
  standing,  \* the nodes with an election open
  served     \* the nodes that have become coordinator at some time

electionVars == <<role, leader, standing, served>>

Init ==
  /\ role = [n \in Node |-> IF n = 0 THEN "CANDIDATE" ELSE "IDLE"]
  /\ leader = [n \in Node |-> Nobody]
  /\ standing = {}
  /\ served = {}

ServedAbove(n) == {m \in served : m > n}

Become(n, r) == role' = [role EXCEPT ![n] = r]

\* On its own account, or because a node below it stands.
Stand(n) ==
  /\ role[n] # "COORDINATOR"
  /\ Become(n, "IDLE")
  /\ leader' = [leader EXCEPT ![n] = Nobody]
  /\ standing' = standing \cup {n}
  /\ UNCHANGED served

\* A node above n takes part.
Withdraw(n) ==
  /\ n # Highest
  /\ role[n] = "IDLE"
  /\ standing' = standing \ {n}
  /\ UNCHANGED <<role, leader, served>>

Win(n) ==
  /\ n \in standing
  /\ role[n] = "IDLE"
  /\ Become(n, "COORDINATOR")
  /\ standing' = standing \ {n}
  /\ served' = served \cup {n}
  /\ UNCHANGED leader

Follow(n) ==
  /\ role[n] = "IDLE"
  /\ \E m \in ServedAbove(n) : leader' = [leader EXCEPT ![n] = m]
  /\ UNCHANGED <<role, standing, served>>

\* The coordinator, or one n has asked before, does not answer.
Doubt(n) ==
  /\ role[n] = "IDLE"
  /\ ServedAbove(n) # {}
  /\ Become(n, "CANDIDATE")
  /\ UNCHANGED <<leader, standing, served>>

\* For a node below that stands, or for a coordinator above.
StepDown(n) ==
  /\ role[n] = "COORDINATOR"
  /\ n > 0 \/ ServedAbove(n) # {}
  /\ Become(n, "IDLE")
  /\ UNCHANGED <<leader, standing, served>>

\* The first candidate may not die before it has stood.
Die(n) ==
  /\ role[n] # "DEAD"
  /\ role[n] = "CANDIDATE" => leader[n] # Nobody
  /\ Become(n, "DEAD")
  /\ UNCHANGED <<leader, standing, served>>

Next ==
  \E n \in Node :
    Stand(n) \/ Withdraw(n) \/ Win(n) \/ Follow(n) \/ Doubt(n) \/ StepDown(n) \/ Die(n)

Spec == Init /\ [][Next]_electionVars
=============================================================================

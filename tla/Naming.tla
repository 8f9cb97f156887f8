-------------------------------- MODULE Naming --------------------------------
(***************************************************************************)
(* What the broker's id assignment promises: processes are named one at a  *)
(* time, each at most once, and no two by the same name.                   *)
(***************************************************************************)
CONSTANTS Process, Name, Unnamed

VARIABLE name

Init == name = [p \in Process |-> Unnamed]

Free(i) == \A p \in Process : name[p] # i

GiveName(p) ==
  /\ name[p] = Unnamed
  /\ \E i \in Name : Free(i) /\ name' = [name EXCEPT ![p] = i]

Next == \E p \in Process : GiveName(p)

Spec == Init /\ [][Next]_name
=============================================================================

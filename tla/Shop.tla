--------------------------------- MODULE Shop ---------------------------------
(***************************************************************************)
(* What assignments 1 and 2 both promise their clients: a client asks for  *)
(* an object at a time, every request is answered once, with a sale or a   *)
(* refusal, and the client leaves with exactly its quota of purchases.     *)
(***************************************************************************)
EXTENDS Naturals

CONSTANTS Client, QUOTA

VARIABLES
  purchases,   \* purchases[c]: objects c bought
  open,        \* the clients with an unanswered request
  finished     \* the clients that left

shopVars == <<purchases, open, finished>>

Init ==
  /\ purchases = [c \in Client |-> 0]
  /\ open = {}
  /\ finished = {}

Request(c) ==
  /\ c \notin open \cup finished
  /\ purchases[c] < QUOTA
  /\ open' = open \cup {c}
  /\ UNCHANGED <<purchases, finished>>

Sell(c) ==
  /\ c \in open
  /\ open' = open \ {c}
  /\ purchases' = [purchases EXCEPT ![c] = @ + 1]
  /\ UNCHANGED finished

Refuse(c) ==
  /\ c \in open
  /\ open' = open \ {c}
  /\ UNCHANGED <<purchases, finished>>

Finish(c) ==
  /\ c \notin open \cup finished
  /\ purchases[c] = QUOTA
  /\ finished' = finished \cup {c}
  /\ UNCHANGED <<purchases, open>>

Next == \E c \in Client : Request(c) \/ Sell(c) \/ Refuse(c) \/ Finish(c)

Spec == Init /\ [][Next]_shopVars
=============================================================================

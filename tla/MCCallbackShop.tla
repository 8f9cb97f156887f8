--------------------------- MODULE MCCallbackShop ---------------------------
(***************************************************************************)
(* CallbackShop with the clients numbered in the order they subscribe in.  *)
(* They run the same program, and every property says the same of each, so *)
(* that a behaviour that differs only by their names need not be explored. *)
(***************************************************************************)
EXTENDS CallbackShop

ASSUME NumberedAssumption == Client \subseteq Nat

InOrder ==
  \A c, d \in Client :
    c < d /\ cpc[d] = "new" /\ cpc'[d] # "new" => cpc[c] # "new"

MCFairSpec == Init /\ [][Next /\ InOrder]_vars /\ Fairness
=============================================================================

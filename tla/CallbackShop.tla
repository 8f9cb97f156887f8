----------------------------- MODULE CallbackShop -----------------------------
(***************************************************************************)
(* Assignment 1 (rmi/clientserver/assignment1): the server loop of         *)
(* CallbackServer, the loop of every CallbackClient, and between them one  *)
(* PriceWriterReaderImpl per client, which the client uses as a local      *)
(* object and the server through remote calls.  Nothing locks it: a step   *)
(* here is one access to such an object, or to the set of subscribers.     *)
(* A remote call on an object that is no longer exported, or whose client  *)
(* has died, throws, and the server goes on with a new round.              *)
(*                                                                         *)
(* The fields are not volatile, and the busy wait of the client does       *)
(* nothing but read one: a compiler may have it read only once.            *)
(***************************************************************************)
EXTENDS Naturals, Sequences, FiniteSets, SequencesExt

CONSTANTS
  Client,
  CONNECTEDCLIENTS,   \* subscribers the server waits for
  QUOTA,              \* purchases after which a client leaves: 10
  Amounts,            \* prices and offers: MIN to MAX - 1
  MaxDeaths           \* bound: clients that die while subscribed

ASSUME QuotaAssumption == QUOTA \in Nat \ {0}
ASSUME AmountsAssumption == Amounts \subseteq Nat \ {0}

VARIABLES
  spc,            \* where the server is in its round
  isStarted, currentPrice,
  todo,           \* what is left of the iterator's snapshot of clientList
  clientList,     \* the CopyOnWriteArraySet, in the order of subscription
  cpc,            \* where a client is in its loop
  offer,          \* the client's local variable; 0 when no longer used
  serverPrice, clientPrice, purchases, state   \* the PriceWriterReaderImpl

serverVars == <<spc, isStarted, currentPrice, todo>>
clientVars == <<cpc, offer>>
objectVars == <<serverPrice, clientPrice, purchases, state>>
vars == <<serverVars, clientList, clientVars, objectVars>>

Judging == {"offer?", "open?", "sell", "sold", "count", "low?", "stillOpen?", "refuse"}

\* Beyond types: nobody subscribes twice, and the server judges somebody.
TypeOK ==
  /\ spc \in {"top", "list", "put", "sleep", "exit", "exited"} \cup Judging
  /\ isStarted \in BOOLEAN
  /\ currentPrice \in Amounts \cup {0}
  /\ todo \in Seq(Client) /\ IsInjective(todo)
  /\ spc \in Judging => todo # <<>>
  /\ clientList \in Seq(Client) /\ IsInjective(clientList)
  /\ cpc \in [Client -> {"new", "draw", "price?", "setState", "putOffer", "wait",
                         "spin", "unexport", "gone", "dead"}]
  /\ offer \in [Client -> Amounts \cup {0}]
  /\ serverPrice \in [Client -> Amounts \cup {0}]
  /\ clientPrice \in [Client -> Amounts \cup {0}]
  /\ purchases \in [Client -> Nat]
  /\ state \in [Client -> {"failed", "open", "bought"}]

Init ==
  /\ spc = "top"
  /\ isStarted = FALSE
  /\ currentPrice = 0
  /\ todo = <<>>
  /\ clientList = <<>>
  /\ cpc = [c \in Client |-> "new"]
  /\ offer = [c \in Client |-> 0]
  /\ serverPrice = [c \in Client |-> 0]
  /\ clientPrice = [c \in Client |-> 0]
  /\ purchases = [c \in Client |-> 0]
  /\ state = [c \in Client |-> "failed"]

Set(f, c, v) == [f EXCEPT ![c] = v]

-----------------------------------------------------------------------------
(* The client *)

\* A client that comes after the server's exit finds no registry.
subscribe(c) ==
  /\ cpc[c] = "new"
  /\ spc # "exited"
  /\ clientList' = Append(clientList, c)
  /\ cpc' = Set(cpc, c, "draw")
  /\ UNCHANGED <<serverVars, offer, objectVars>>

\* mutant: counts one purchase too many
WantsAnother(c) == purchases[c] <= QUOTA

\* The condition of the client's loop.
Wants(c) == purchases[c] < QUOTA

\* The price is read twice: here to compare it with the offer, ...
DrawOffer(c) ==
  /\ cpc[c] = "draw"
  /\ Wants(c)
  /\ \E o \in Amounts : o > serverPrice[c] /\ offer' = Set(offer, c, o)
  /\ cpc' = Set(cpc, c, "price?")
  /\ UNCHANGED <<serverVars, clientList, objectVars>>

\* ... and here to see whether there is one.
CheckPrice(c) ==
  /\ cpc[c] = "price?"
  /\ \/ /\ serverPrice[c] > 0
        /\ cpc' = Set(cpc, c, "setState")
        /\ offer' = offer
     \/ /\ serverPrice[c] = 0
        /\ cpc' = Set(cpc, c, "draw")
        /\ offer' = Set(offer, c, 0)
  /\ UNCHANGED <<serverVars, clientList, objectVars>>

\* The request is opened before the offer is there.
OpenRequest(c) ==
  /\ cpc[c] = "setState"
  /\ state' = Set(state, c, "open")
  /\ cpc' = Set(cpc, c, "putOffer")
  /\ UNCHANGED <<serverVars, clientList, offer, serverPrice, clientPrice, purchases>>

putOffer(c) ==
  /\ cpc[c] = "putOffer"
  /\ clientPrice' = Set(clientPrice, c, offer[c])
  /\ offer' = Set(offer, c, 0)
  /\ cpc' = Set(cpc, c, "wait")
  /\ UNCHANGED <<serverVars, clientList, serverPrice, purchases, state>>

BusyWait(c) ==
  /\ cpc[c] = "wait"
  /\ state[c] # "open"
  /\ cpc' = Set(cpc, c, "draw")
  /\ UNCHANGED <<serverVars, clientList, offer, objectVars>>

\* mutant: leaves without a word
LeaveSilently(c) ==
  /\ cpc[c] = "draw"
  /\ ~Wants(c)
  /\ cpc' = Set(cpc, c, "unexport")
  /\ UNCHANGED <<serverVars, clientList, offer, objectVars>>

\* The compiled loop may have read the state just once, before the answer.
SpinForEver(c) ==
  /\ cpc[c] = "wait"
  /\ state[c] = "open"
  /\ cpc' = Set(cpc, c, "spin")
  /\ UNCHANGED <<serverVars, clientList, offer, objectVars>>

\* A client in its loop is in the set, once.
unsubscribe(c) ==
  /\ cpc[c] = "draw"
  /\ ~Wants(c)
  /\ \E i \in DOMAIN clientList : clientList[i] = c /\ clientList' = RemoveAt(clientList, i)
  /\ cpc' = Set(cpc, c, "unexport")
  /\ UNCHANGED <<serverVars, offer, objectVars>>

unexportObject(c) ==
  /\ cpc[c] = "unexport"
  /\ cpc' = Set(cpc, c, "gone")
  /\ UNCHANGED <<serverVars, clientList, offer, objectVars>>

Dead == {c \in Client : cpc[c] = "dead"}

\* The process of a subscriber ends, and its object with it: what it bought is
\* kept for the properties only.
Die(c) ==
  /\ c \in ToSet(clientList) \ Dead
  /\ Cardinality(Dead) < MaxDeaths
  /\ cpc' = Set(cpc, c, "dead")
  /\ offer' = Set(offer, c, 0)
  /\ serverPrice' = Set(serverPrice, c, 0)
  /\ clientPrice' = Set(clientPrice, c, 0)
  /\ state' = Set(state, c, "failed")
  /\ UNCHANGED <<serverVars, clientList, purchases>>

-----------------------------------------------------------------------------
(* The server *)

\* A round starts with a new price, and is the last when nobody is subscribed.
StartRound ==
  /\ spc = "top"
  /\ Len(clientList) >= CONNECTEDCLIENTS \/ isStarted
  /\ isStarted' = TRUE
  /\ currentPrice' \in Amounts
  /\ spc' = IF clientList = <<>> THEN "exit" ELSE "list"
  /\ UNCHANGED <<todo, clientList, clientVars, objectVars>>

\* Whoever subscribes between the look at the set and this is not noticed.
Exit ==
  /\ spc = "exit"
  /\ spc' = "exited"
  /\ UNCHANGED <<isStarted, currentPrice, todo, clientList, clientVars, objectVars>>

\* The loops iterate over the subscribers there are when they start.
StartPut ==
  /\ spc = "list"
  /\ todo' = clientList
  /\ spc' = "put"
  /\ UNCHANGED <<isStarted, currentPrice, clientList, clientVars, objectVars>>

\* Where an exception of a remote call leads: to the next round.
\* mutant: or only out of the loop that called
ToEvaluation == "sleep"
\* mutant: or out of the server
ToExit == "exit"
Aborted == "top"

Reachable(c) == cpc[c] \notin {"gone", "dead"}

\* A remote call of the server on the object of c: leads to step, with the
\* clients of rest still to come, when it returns; out of the round when it
\* throws.
Call(c, step, rest) ==
  IF Reachable(c) THEN spc' = step /\ todo' = rest
                  ELSE spc' = Aborted /\ todo' = <<>>

\* A field of the objects after such a call has set that of c to v.
Put(f, c, v) == IF Reachable(c) THEN Set(f, c, v) ELSE f

putPrice ==
  /\ spc = "put"
  /\ todo # <<>>
  /\ LET c == Head(todo)
     IN /\ Call(c, "put", Tail(todo))
        /\ serverPrice' = Put(serverPrice, c, currentPrice)
  /\ UNCHANGED <<isStarted, currentPrice, clientList, clientVars, clientPrice, purchases, state>>

PutDone ==
  /\ spc = "put"
  /\ todo = <<>>
  /\ spc' = "sleep"
  /\ UNCHANGED <<isStarted, currentPrice, todo, clientList, clientVars, objectVars>>

\* After the 3 seconds.
StartEvaluation ==
  /\ spc = "sleep"
  /\ todo' = clientList
  /\ spc' = IF clientList = <<>> THEN "top" ELSE "offer?"
  /\ UNCHANGED <<isStarted, currentPrice, clientList, clientVars, objectVars>>

\* mutant: takes the next client without looking whether there is one
ToNextUnchecked(rest) == "offer?"

\* The next client of the evaluation loop, or the next round.
ToNext(rest) == IF rest = <<>> THEN "top" ELSE "offer?"

\* A step of the evaluation, on the object of the client at hand.
At(step) == spc = step /\ UNCHANGED <<isStarted, currentPrice, clientList, clientVars,
                                      serverPrice, clientPrice>>

CompareOffer ==
  /\ At("offer?")
  /\ LET c == Head(todo)
     IN Call(c, IF clientPrice[c] > currentPrice THEN "open?" ELSE "low?", todo)
  /\ UNCHANGED <<purchases, state>>

CheckOpen ==
  /\ At("open?")
  /\ LET c == Head(todo)
     IN Call(c, IF state[c] = "open" THEN "sell" ELSE "low?", todo)
  /\ UNCHANGED <<purchases, state>>

clientHasPurchased ==
  /\ At("sell")
  /\ LET c == Head(todo)
     IN Call(c, "sold", todo) /\ purchases' = Put(purchases, c, purchases[c] + 1)
  /\ UNCHANGED state

AnswerSold ==
  /\ At("sold")
  /\ LET c == Head(todo)
     IN Call(c, "count", todo) /\ state' = Put(state, c, "bought")
  /\ UNCHANGED purchases

\* The last call reads the purchases for the log; by now the client may be gone.
LogPurchases ==
  /\ At("count")
  /\ Call(Head(todo), ToNext(Tail(todo)), Tail(todo))
  /\ UNCHANGED <<purchases, state>>

\* The else-if reads the offer and the state again.
CompareOfferAgain ==
  /\ At("low?")
  /\ LET c == Head(todo)
     IN IF clientPrice[c] <= currentPrice
          THEN Call(c, "stillOpen?", todo)
          ELSE Call(c, ToNext(Tail(todo)), Tail(todo))
  /\ UNCHANGED <<purchases, state>>

CheckStillOpen ==
  /\ At("stillOpen?")
  /\ LET c == Head(todo)
     IN IF state[c] = "open"
          THEN Call(c, "refuse", todo)
          ELSE Call(c, ToNext(Tail(todo)), Tail(todo))
  /\ UNCHANGED <<purchases, state>>

AnswerRefused ==
  /\ At("refuse")
  /\ LET c == Head(todo)
     IN Call(c, ToNext(Tail(todo)), Tail(todo)) /\ state' = Put(state, c, "failed")
  /\ UNCHANGED purchases

-----------------------------------------------------------------------------
ClientStep(c) ==
  \/ subscribe(c) \/ DrawOffer(c) \/ CheckPrice(c) \/ OpenRequest(c) \/ putOffer(c)
  \/ BusyWait(c) \/ SpinForEver(c) \/ unsubscribe(c) \/ unexportObject(c)

ServerStep ==
  \/ StartRound \/ Exit \/ StartPut \/ putPrice \/ PutDone \/ StartEvaluation
  \/ CompareOffer \/ CheckOpen \/ clientHasPurchased \/ AnswerSold \/ LogPurchases
  \/ CompareOfferAgain \/ CheckStillOpen \/ AnswerRefused

Next == ServerStep \/ \E c \in Client : ClientStep(c) \/ Die(c)

Spec == Init /\ [][Next]_vars

\* The server loops, and a client that subscribed keeps looping.
Fairness ==
  /\ WF_vars(ServerStep)
  /\ \A c \in Client : WF_vars(cpc[c] # "new" /\ ClientStep(c))

FairSpec == Spec /\ Fairness

-----------------------------------------------------------------------------
\* A client is judged by the price it was told: whoever subscribes, leaves or
\* makes a round fail in between, the price an open request is compared with
\* is the last one put to that client.
JudgedByToldPrice ==
  spc \in {"sell", "sold", "refuse"} /\ Head(todo) \notin Dead
    => serverPrice[Head(todo)] = currentPrice

\* What the comment of main says: "The server sells the object to the client if
\* its offer is greater than the current price" (l. 45).
SoldAbovePrice ==
  spc = "sold" => clientPrice[Head(todo)] > currentPrice

\* The server and the objects of its clients keep the promise of Shop: a
\* request is open from setState(0) to the purchase or to the refusal, and is
\* refused, in a way, when its client dies.
S == INSTANCE Shop WITH
  open <- {c \in Client : state[c] = "open" /\ ~(spc = "sold" /\ Head(todo) = c)},
  finished <- {c \in Client : cpc[c] \in {"unexport", "gone"}}
ImplementsShop == S!Spec

\* Every request is answered, though other clients join, leave and make rounds
\* fail, unless a subscriber has died.
RequestAnswered ==
  \A c \in Client : state[c] = "open" ~> state[c] # "open" \/ Dead # {}

\* The comment of main: the server "sends it to all clients" (l. 43-44).  That
\* is so for every subscriber that comes before the server has decided to exit
\* and has no dead one, itself included, ahead in the order of subscription.
ToldAPrice ==
  \A c \in Client :
    (isStarted /\ spc \notin {"exit", "exited"} /\ c \in ToSet(clientList))
      ~> \/ serverPrice[c] > 0
         \/ \E i, j \in DOMAIN clientList :
              i <= j /\ clientList[j] = c /\ clientList[i] \in Dead

\* What a dead subscriber costs: since no round gets past it, nobody's offer is
\* judged any more.
DeathEndsSales == Dead # {} ~> [](spc \notin Judging)

\* Nor is there one more round: once the server is back at the top of its loop,
\* the sales are over for good.
DeathBarsRounds == [](Dead # {} /\ spc = "top" => [](spc \notin Judging))

Nobody == \A c \in Client : cpc[c] \in {"new", "gone"}

\* "When all clients have completed their purchases, the server terminates the
\* application" (README, l. 16), unless another one joins.
ServerTerminates == (isStarted /\ Nobody) ~> (spc = "exited" \/ ~Nobody)
=============================================================================

-------------------------- MODULE CallbackShopProofs --------------------------
(***************************************************************************)
(* For any number of clients, prices and deaths: the types of assignment 1 *)
(* (nobody subscribes twice), that a client is judged by the price it was  *)
(* told, and that the shop implements Shop.                                *)
(***************************************************************************)
EXTENDS CallbackShop, DistinctSequences

\* Where a client is that takes no more part in the server's rounds.
Left == {c \in Client : cpc[c] \in {"unexport", "gone", "dead"}}

\* The clients in the set, and who can be in what is left of a snapshot of it.
Subscribed ==
  /\ \A c \in Client : c \in ToSet(clientList) <=> cpc[c] \notin {"new", "unexport", "gone"}
  /\ \A c \in ToSet(todo) : cpc[c] # "new"

\* From the loop of putPrice to the end of the evaluation, the clients that are
\* no longer, or never were, in the loop's snapshot know the current price, or
\* none because they came later.
Told ==
  /\ spc # "top" => currentPrice # 0
  /\ spc \in {"put", "sleep"} \cup Judging =>
       \A c \in Client \ (Left \cup IF spc = "put" THEN ToSet(todo) ELSE {}) :
         serverPrice[c] \in {0, currentPrice}
  /\ \A c \in Client :
       /\ cpc[c] = "new" => serverPrice[c] = 0
       /\ cpc[c] \in {"setState", "putOffer", "wait", "spin"} => serverPrice[c] # 0

\* A request is open only while its client waits for the answer, or is about to
\* put the offer; and the server, once it has found it open, answers it.
Asked ==
  /\ \A c \in Client : state[c] = "open" => cpc[c] \in {"putOffer", "wait", "spin"}
  /\ spc \in {"sell", "sold", "refuse"} /\ Head(todo) \notin Dead => state[Head(todo)] = "open"

\* The requests that are not yet answered by a purchase.
Pending == {c \in Client : state[c] = "open" /\ ~(spc = "sold" /\ Head(todo) = c)}

\* Who asks, or is about to, lacks a purchase; who leaves lacks none.
Counted ==
  /\ \A c \in Client : purchases[c] <= QUOTA
  /\ \A c \in Pending : purchases[c] < QUOTA
  /\ \A c \in Client : cpc[c] \in {"price?", "setState"} => purchases[c] < QUOTA
  /\ \A c \in Client : cpc[c] \in {"unexport", "gone"} => purchases[c] = QUOTA

IInv == TypeOK /\ Subscribed /\ Told /\ Asked /\ Counted
-----------------------------------------------------------------------------
\* The client at hand in a loop of the server, and those still to come.
LEMMA AtHand ==
  ASSUME TypeOK, todo # <<>>
  PROVE  /\ Head(todo) \in Client /\ Head(todo) \in ToSet(todo)
         /\ Tail(todo) \in Seq(Client) /\ IsInjective(Tail(todo))
         /\ ToSet(Tail(todo)) = ToSet(todo) \ {Head(todo)}
BY TailDistinct, HeadTailProperties DEF TypeOK

\* Only clients are in the lists.
LEMMA Listed ==
  ASSUME TypeOK
  PROVE  ToSet(clientList) \subseteq Client /\ ToSet(todo) \subseteq Client
BY ToSetOfSeq DEF TypeOK

\* What a step of the evaluation does besides its change to an object: it stays
\* with its client, goes on to the next, or gives the round up.
LEMMA EvaluationStep ==
  ASSUME TypeOK, ServerStep, spc \in Judging
  PROVE  /\ UNCHANGED <<isStarted, currentPrice, clientList, clientVars, serverPrice, clientPrice>>
         /\ \/ spc' \in Judging /\ todo' = todo
            \/ spc' = "offer?" /\ todo' = Tail(todo) /\ todo' # <<>>
            \/ spc' = "top" /\ todo' \in {Tail(todo), <<>>}
<1> USE DEF At, Call, ToNext, Aborted, Judging
<1>1. CASE CompareOffer \/ CheckOpen \/ clientHasPurchased \/ AnswerSold
  BY <1>1 DEF CompareOffer, CheckOpen, clientHasPurchased, AnswerSold
<1>2. CASE LogPurchases \/ CompareOfferAgain \/ CheckStillOpen \/ AnswerRefused
  BY <1>2 DEF LogPurchases, CompareOfferAgain, CheckStillOpen, AnswerRefused
<1>3. CASE StartRound \/ Exit \/ StartPut \/ putPrice \/ PutDone \/ StartEvaluation
  BY <1>3 DEF StartRound, Exit, StartPut, putPrice, PutDone, StartEvaluation
<1> QED
  BY <1>1, <1>2, <1>3 DEF ServerStep

\* What such a step does to the objects.
LEMMA EvaluationObjects ==
  ASSUME TypeOK, ServerStep, spc \in Judging
  PROVE  \/ /\ UNCHANGED <<purchases, state>>
            /\ spc' # "sold"
            /\ spc = "sold" => ~Reachable(Head(todo))
         \/ /\ spc = "sell" /\ spc' = "sold" /\ todo' = todo
            /\ Reachable(Head(todo))
            /\ purchases' = Set(purchases, Head(todo), purchases[Head(todo)] + 1)
            /\ UNCHANGED state
         \/ /\ spc = "sold" /\ Reachable(Head(todo))
            /\ spc' = "count" /\ todo' = todo
            /\ state' = Set(state, Head(todo), "bought")
            /\ UNCHANGED purchases
         \/ /\ spc = "refuse" /\ Reachable(Head(todo))
            /\ spc' \in {"top", "offer?"}
            /\ state' = Set(state, Head(todo), "failed")
            /\ UNCHANGED purchases
<1> USE DEF At, Call, Put, ToNext, Judging, Aborted
<1>1. CASE CompareOffer \/ CheckOpen \/ LogPurchases \/ CompareOfferAgain \/ CheckStillOpen
  BY <1>1 DEF CompareOffer, CheckOpen, LogPurchases, CompareOfferAgain, CheckStillOpen
<1>2. CASE clientHasPurchased
  BY <1>2 DEF clientHasPurchased
<1>3. CASE AnswerSold
  BY <1>3 DEF AnswerSold
<1>4. CASE AnswerRefused
  BY <1>4 DEF AnswerRefused
<1>5. CASE StartRound \/ Exit \/ StartPut \/ putPrice \/ PutDone \/ StartEvaluation
  BY <1>5 DEF StartRound, Exit, StartPut, putPrice, PutDone, StartEvaluation
<1> QED
  BY <1>1, <1>2, <1>3, <1>4, <1>5 DEF ServerStep

\* The set of subscribers loses the client that unsubscribes, and nobody else.
LEMMA UnsubscribeStep ==
  ASSUME TypeOK, NEW c \in Client, unsubscribe(c)
  PROVE  /\ clientList' \in Seq(Client) /\ IsInjective(clientList')
         /\ ToSet(clientList') = ToSet(clientList) \ {c}
BY RemoveDistinct DEF TypeOK, unsubscribe

\* The set of subscribers gains a client that was not in it.
LEMMA SubscribeStep ==
  ASSUME TypeOK, Subscribed, NEW c \in Client, subscribe(c)
  PROVE  /\ clientList' \in Seq(Client) /\ IsInjective(clientList')
         /\ ToSet(clientList') = ToSet(clientList) \cup {c}
BY AppendDistinct DEF TypeOK, Subscribed, subscribe

\* Every step keeps the types.
LEMMA TypeStep ==
  ASSUME TypeOK, Subscribed, [Next]_vars
  PROVE  TypeOK'
<1>1. CASE UNCHANGED vars
  BY <1>1 DEF vars, serverVars, clientVars, objectVars, TypeOK, Judging
<1>2. ASSUME NEW c \in Client, subscribe(c) PROVE TypeOK'
  BY <1>2, SubscribeStep DEF subscribe, TypeOK, Judging, Set, serverVars, objectVars
<1>3. ASSUME NEW c \in Client, unsubscribe(c) PROVE TypeOK'
  BY <1>3, UnsubscribeStep DEF unsubscribe, TypeOK, Judging, Set, serverVars, objectVars
<1>4. ASSUME NEW c \in Client, DrawOffer(c) \/ CheckPrice(c) \/ OpenRequest(c) \/ putOffer(c)
      PROVE  TypeOK'
  BY <1>4 DEF DrawOffer, CheckPrice, OpenRequest, putOffer, TypeOK, Judging, Set,
              serverVars, objectVars
<1>5. ASSUME NEW c \in Client, BusyWait(c) \/ SpinForEver(c) \/ unexportObject(c) \/ Die(c)
      PROVE  TypeOK'
  BY <1>5 DEF BusyWait, SpinForEver, unexportObject, Die, TypeOK, Judging, Set,
              serverVars, objectVars
<1>6. CASE ServerStep /\ spc \notin Judging
  <2>1. CASE StartRound \/ Exit \/ PutDone
    BY <1>6, <2>1 DEF StartRound, Exit, PutDone, TypeOK, Judging, clientVars, objectVars
  <2>2. CASE StartPut
    BY <1>6, <2>2 DEF StartPut, TypeOK, Judging, clientVars, objectVars
  <2>3. CASE putPrice
    BY <1>6, <2>3, AtHand, EmptyDistinct
    DEF putPrice, Call, Put, Set, Aborted, TypeOK, Judging, clientVars
  <2>4. CASE StartEvaluation
    BY <1>6, <2>4 DEF StartEvaluation, TypeOK, Judging, clientVars, objectVars
  <2> QED
    BY <1>6, <2>1, <2>2, <2>3, <2>4
    DEF ServerStep, At, Judging, CompareOffer, CheckOpen, clientHasPurchased, AnswerSold,
        LogPurchases, CompareOfferAgain, CheckStillOpen, AnswerRefused
<1>7. CASE ServerStep /\ spc \in Judging
  <2>1. todo # <<>>
    BY <1>7 DEF TypeOK
  <2>2. /\ UNCHANGED <<isStarted, currentPrice, clientList, clientVars, serverPrice, clientPrice>>
        /\ \/ spc' \in Judging /\ todo' = todo
           \/ spc' = "offer?" /\ todo' = Tail(todo) /\ todo' # <<>>
           \/ spc' = "top" /\ todo' \in {Tail(todo), <<>>}
    BY <1>7, EvaluationStep
  <2>3. /\ todo' \in Seq(Client) /\ IsInjective(todo')
        /\ spc' \in Judging => todo' # <<>>
        /\ spc' \in {"top"} \cup Judging
    BY <2>1, <2>2, AtHand, EmptyDistinct DEF TypeOK, Judging
  <2>4. purchases' \in [Client -> Nat] /\ state' \in [Client -> {"failed", "open", "bought"}]
    <3>1. Head(todo) \in Client /\ purchases[Head(todo)] + 1 \in Nat
      BY <2>1, AtHand DEF TypeOK
    <3> QED
      BY <1>7, <3>1, EvaluationObjects DEF TypeOK, Set
  <2> QED
    BY <2>2, <2>3, <2>4 DEF TypeOK, clientVars
<1> QED
  BY <1>1, <1>2, <1>3, <1>4, <1>5, <1>6, <1>7 DEF Next, ClientStep

\* Every step keeps the subscribers in the set, and the others out of it.
LEMMA SubscribedStep ==
  ASSUME TypeOK, Subscribed, [Next]_vars
  PROVE  Subscribed'
<1>1. CASE UNCHANGED vars
  BY <1>1 DEF vars, serverVars, clientVars, objectVars, Subscribed
<1>2. ASSUME NEW c \in Client, subscribe(c) PROVE Subscribed'
  BY <1>2, Listed, SubscribeStep
  DEF subscribe, TypeOK, Set, serverVars, objectVars, Subscribed
<1>3. ASSUME NEW c \in Client, unsubscribe(c) PROVE Subscribed'
  BY <1>3, Listed, UnsubscribeStep
  DEF unsubscribe, TypeOK, Set, serverVars, objectVars, Subscribed
<1>4. ASSUME NEW c \in Client, ClientStep(c) \/ Die(c), ~subscribe(c), ~unsubscribe(c)
      PROVE  Subscribed'
  <2>1. UNCHANGED <<clientList, todo>>
    BY <1>4 DEF ClientStep, DrawOffer, CheckPrice, OpenRequest, putOffer, BusyWait, SpinForEver,
                unexportObject, Die, serverVars
  <2>2. /\ \A d \in Client \ {c} : cpc'[d] = cpc[d]
        /\ cpc'[c] # "new"
        /\ cpc[c] \in {"new", "unexport", "gone"} <=> cpc'[c] \in {"new", "unexport", "gone"}
    <3>1. CASE Die(c)
      BY <3>1 DEF Die, TypeOK, Set, Subscribed
    <3> QED
      BY <1>4, <3>1 DEF ClientStep, DrawOffer, CheckPrice, OpenRequest, putOffer, BusyWait,
                        SpinForEver, unexportObject, TypeOK, Set
  <2> QED
    BY <2>1, <2>2, Listed DEF Subscribed
<1>5. CASE ServerStep
  <2>1. UNCHANGED <<clientList, cpc>>
    BY <1>5 DEF ServerStep, At, clientVars, StartRound, Exit, StartPut, putPrice, PutDone,
                StartEvaluation, CompareOffer, CheckOpen, clientHasPurchased, AnswerSold,
                LogPurchases, CompareOfferAgain, CheckStillOpen, AnswerRefused
  <2>2. ToSet(todo') \subseteq ToSet(todo) \cup ToSet(clientList)
    <3>1. CASE spc \in Judging
      BY <1>5, <3>1, AtHand, EvaluationStep, EmptyDistinct DEF TypeOK
    <3>2. CASE putPrice
      BY <3>2, AtHand, EmptyDistinct DEF putPrice, Call
    <3>3. CASE StartRound \/ Exit \/ StartPut \/ PutDone \/ StartEvaluation
      BY <3>3 DEF StartRound, Exit, StartPut, PutDone, StartEvaluation
    <3> QED
      BY <1>5, <3>1, <3>2, <3>3
      DEF ServerStep, At, Judging, CompareOffer, CheckOpen, clientHasPurchased, AnswerSold,
          LogPurchases, CompareOfferAgain, CheckStillOpen, AnswerRefused
  <2>3. \A c \in ToSet(clientList) : c \in Client
    BY ToSetOfSeq DEF TypeOK
  <2> QED
    BY <2>1, <2>2, <2>3 DEF Subscribed
<1> QED
  BY <1>1, <1>2, <1>3, <1>4, <1>5 DEF Next
\* What a step of a client can change of the others, and of what it was told.
LEMMA ClientStepLocal ==
  ASSUME TypeOK, NEW c \in Client, ClientStep(c) \/ Die(c)
  PROVE  /\ UNCHANGED serverVars
         /\ \A d \in Client \ {c} : UNCHANGED <<cpc[d], serverPrice[d], state[d]>>
         /\ UNCHANGED purchases
         /\ ClientStep(c) => UNCHANGED serverPrice
BY DEF ClientStep, subscribe, DrawOffer, CheckPrice, OpenRequest, putOffer, BusyWait,
       SpinForEver, unsubscribe, unexportObject, Die, objectVars, TypeOK, Set

\* Every step keeps the prices told.
LEMMA ToldStep ==
  ASSUME TypeOK, Subscribed, Told, [Next]_vars
  PROVE  Told'
<1>1. CASE UNCHANGED vars
  BY <1>1 DEF vars, serverVars, clientVars, objectVars, Told, Left, Judging
<1>2. ASSUME NEW c \in Client, ClientStep(c) \/ Die(c) PROVE Told'
  <2>1. /\ UNCHANGED <<spc, currentPrice, todo>>
        /\ \A d \in Client \ {c} : UNCHANGED <<cpc[d], serverPrice[d]>>
    BY <1>2, ClientStepLocal DEF serverVars
  <2>2. /\ cpc'[c] # "new"
        /\ cpc'[c] \in {"setState", "putOffer", "wait", "spin"} => serverPrice'[c] # 0
        /\ cpc[c] = "new" => serverPrice'[c] = 0
        /\ cpc[c] \in {"unexport", "gone", "dead"} => cpc'[c] \in {"unexport", "gone", "dead"}
        /\ cpc'[c] = "dead" \/ serverPrice'[c] = serverPrice[c]
    <3>1. CASE Die(c)
      BY <3>1 DEF Die, TypeOK, Set, Subscribed, Told
    <3>2. CASE CheckPrice(c)
      <4>1. serverPrice' = serverPrice /\ ~(0 > 0)
        BY <3>2 DEF CheckPrice, objectVars
      <4> QED
        BY <3>2, <4>1 DEF CheckPrice, TypeOK, Set
    <3>3. CASE ClientStep(c) /\ ~CheckPrice(c)
      <4>1. serverPrice' = serverPrice
        BY <3>3, ClientStepLocal
      <4> QED
        BY <3>3, <4>1
        DEF Told, ClientStep, subscribe, DrawOffer, OpenRequest, putOffer, BusyWait,
            SpinForEver, unsubscribe, unexportObject, TypeOK, Set
    <3> QED
      BY <1>2, <3>1, <3>2, <3>3
  <2>3. \A d \in Client : d \in Left => d \in Left'
    BY <2>1, <2>2 DEF Left
  <2>4. ASSUME NEW d \in Client \ Left', serverPrice[d] \in {0, currentPrice}
        PROVE  serverPrice'[d] \in {0, currentPrice}
    BY <2>1, <2>2, <2>4 DEF Left
  <2>5. \A d \in Client : /\ cpc'[d] = "new" => serverPrice'[d] = 0
                          /\ cpc'[d] \in {"setState", "putOffer", "wait", "spin"}
                               => serverPrice'[d] # 0
    BY <2>1, <2>2 DEF Told
  <2> QED
    BY <2>1, <2>3, <2>4, <2>5 DEF Told
<1>3. CASE ServerStep /\ spc \notin Judging
  <2>1. CASE StartRound \/ Exit
    BY <2>1, AmountsAssumption
    DEF StartRound, Exit, clientVars, objectVars, Told, Judging, Left
  <2>2. CASE StartPut
    <3>1. \A d \in Client : d \in ToSet(clientList) \/ cpc[d] = "new" \/ d \in Left
      BY DEF Subscribed, Left
    <3> QED
      BY <2>2, <3>1 DEF StartPut, clientVars, objectVars, Told, Judging, Left
  <2>3. CASE putPrice
    <3> DEFINE c == Head(todo)
    <3>1. c \in Client /\ cpc[c] # "new" /\ ToSet(Tail(todo)) = ToSet(todo) \ {c}
      BY <2>3, AtHand DEF putPrice, Subscribed
    <3>2. UNCHANGED <<currentPrice, cpc>> /\ currentPrice # 0
      BY <2>3 DEF putPrice, clientVars, Told
    <3>3. CASE Reachable(c)
      <4>1. spc' = "put" /\ todo' = Tail(todo) /\ serverPrice' = Set(serverPrice, c, currentPrice)
        BY <2>3, <3>3 DEF putPrice, Call, Put
      <4>2. /\ serverPrice'[c] = currentPrice
            /\ \A d \in Client \ {c} : serverPrice'[d] = serverPrice[d]
        BY <3>1, <4>1 DEF TypeOK, Set
      <4> QED
        BY <2>3, <3>1, <3>2, <4>1, <4>2 DEF putPrice, Told, Left, Judging
    <3>4. CASE ~Reachable(c)
      BY <2>3, <3>2, <3>4 DEF putPrice, Call, Put, Told, Left, Aborted, Judging
    <3> QED
      BY <3>3, <3>4
  <2>4. CASE PutDone
    BY <2>4, EmptyDistinct DEF PutDone, clientVars, objectVars, Told, Judging, Left
  <2>5. CASE StartEvaluation
    BY <2>5 DEF StartEvaluation, clientVars, objectVars, Told, Judging, Left
  <2> QED
    BY <1>3, <2>1, <2>2, <2>3, <2>4, <2>5
    DEF ServerStep, At, Judging, CompareOffer, CheckOpen, clientHasPurchased, AnswerSold,
        LogPurchases, CompareOfferAgain, CheckStillOpen, AnswerRefused
<1>4. CASE ServerStep /\ spc \in Judging
  <2>1. /\ UNCHANGED <<currentPrice, cpc, serverPrice>>
        /\ spc' = "top" \/ spc' \in Judging
    BY <1>4, EvaluationStep DEF clientVars, Judging
  <2> QED
    BY <1>4, <2>1 DEF Told, Left, Judging
<1> QED
  BY <1>1, <1>2, <1>3, <1>4 DEF Next

\* Every step keeps a request open while the client waits for its answer.
LEMMA AskedStep ==
  ASSUME TypeOK, Asked, [Next]_vars
  PROVE  Asked'
<1>1. CASE UNCHANGED vars
  BY <1>1 DEF vars, serverVars, clientVars, objectVars, Asked, Dead
<1>2. ASSUME NEW c \in Client, ClientStep(c) \/ Die(c) PROVE Asked'
  <2>1. /\ UNCHANGED <<spc, todo>>
        /\ \A d \in Client \ {c} : UNCHANGED <<cpc[d], state[d]>>
    BY <1>2, ClientStepLocal DEF serverVars
  <2>2. /\ state'[c] = "open" => cpc'[c] \in {"putOffer", "wait", "spin"}
        /\ state[c] = "open" => state'[c] = "open" \/ cpc'[c] = "dead"
        /\ cpc[c] = "dead" => cpc'[c] = "dead"
    <3>1. CASE Die(c)
      BY <3>1 DEF Die, TypeOK, Set
    <3> QED
      BY <1>2, <3>1
      DEF Asked, ClientStep, subscribe, DrawOffer, CheckPrice, OpenRequest, putOffer, BusyWait,
          SpinForEver, unsubscribe, unexportObject, objectVars, TypeOK, Set
  <2>3. spc \in {"sell", "sold", "refuse"} => Head(todo) \in Client
    BY AtHand DEF TypeOK, Judging
  <2> QED
    BY <2>1, <2>2, <2>3 DEF Asked, Dead
<1>3. CASE ServerStep /\ spc \notin Judging
  BY <1>3
  DEF ServerStep, StartRound, Exit, StartPut, putPrice, PutDone, StartEvaluation, Call, Aborted,
      At, Judging, CompareOffer, CheckOpen, clientHasPurchased, AnswerSold, LogPurchases,
      CompareOfferAgain, CheckStillOpen, AnswerRefused, Asked, clientVars, objectVars
<1>4. CASE ServerStep /\ spc \in Judging
  <2>1. Head(todo) \in Client /\ UNCHANGED cpc
    BY <1>4, AtHand, EvaluationStep DEF TypeOK, clientVars
  <2>2. \A d \in Client : state'[d] = "open" => state[d] = "open"
    BY <1>4, <2>1, EvaluationObjects DEF TypeOK, Set
  <2>3. spc' \in {"sell", "refuse"} => state'[Head(todo)'] = "open"
    BY <1>4, <2>1
    DEF ServerStep, StartRound, Exit, StartPut, putPrice, PutDone, StartEvaluation, Call, Aborted,
        At, Judging, CompareOffer, CheckOpen, clientHasPurchased, AnswerSold, LogPurchases,
        CompareOfferAgain, CheckStillOpen, AnswerRefused, ToNext
  <2>4. spc' = "sold" => spc = "sell" /\ UNCHANGED <<todo, state>>
    BY <1>4, <2>1
    DEF ServerStep, StartRound, Exit, StartPut, putPrice, PutDone, StartEvaluation, Call, Aborted,
        At, Judging, CompareOffer, CheckOpen, clientHasPurchased, AnswerSold, LogPurchases,
        CompareOfferAgain, CheckStillOpen, AnswerRefused, ToNext
  <2> QED
    BY <2>1, <2>2, <2>3, <2>4 DEF Asked, Dead
<1> QED
  BY <1>1, <1>2, <1>3, <1>4 DEF Next
\* Every step keeps the counts: who still asks has not got its quota.
LEMMA CountedStep ==
  ASSUME TypeOK, Asked, Counted, [Next]_vars
  PROVE  Counted'
<1> QUOTA \in Nat
  BY QuotaAssumption
<1>1. CASE UNCHANGED vars
  BY <1>1 DEF vars, serverVars, clientVars, objectVars, Counted, Pending
<1>2. ASSUME NEW c \in Client, ClientStep(c) \/ Die(c) PROVE Counted'
  <2>1. /\ UNCHANGED <<spc, todo, purchases>>
        /\ \A d \in Client \ {c} : UNCHANGED <<cpc[d], state[d]>>
    BY <1>2, ClientStepLocal DEF serverVars
  <2>2. /\ state'[c] = "open" /\ state[c] # "open" => purchases[c] < QUOTA
        /\ cpc'[c] \in {"price?", "setState"} => purchases[c] < QUOTA
        /\ cpc'[c] \in {"unexport", "gone"} => purchases[c] = QUOTA
    <3>1. purchases[c] \in Nat /\ purchases[c] <= QUOTA
      BY DEF TypeOK, Counted
    <3>2. CASE Die(c)
      BY <3>2 DEF Die, TypeOK, Set
    <3>3. CASE unsubscribe(c)
      BY <3>1, <3>3 DEF unsubscribe, Wants, objectVars, TypeOK, Set
    <3>4. CASE DrawOffer(c)
      BY <3>4 DEF DrawOffer, Wants, objectVars, TypeOK, Set
    <3> QED
      BY <1>2, <3>2, <3>3, <3>4
      DEF Counted, ClientStep, subscribe, CheckPrice, OpenRequest, putOffer, BusyWait,
          SpinForEver, unexportObject, objectVars, TypeOK, Set
  <2>3. \A d \in Pending' : d \in Pending \/ (d = c /\ state[c] # "open")
    BY <2>1 DEF Pending
  <2> QED
    BY <2>1, <2>2, <2>3 DEF Counted, Pending
<1>3. CASE ServerStep /\ spc \notin Judging
  <2>1. UNCHANGED <<cpc, purchases, state>> /\ spc # "sold" /\ spc' # "sold"
    BY <1>3
    DEF ServerStep, StartRound, Exit, StartPut, putPrice, PutDone, StartEvaluation, Call, Aborted,
        At, Judging, CompareOffer, CheckOpen, clientHasPurchased, AnswerSold, LogPurchases,
        CompareOfferAgain, CheckStillOpen, AnswerRefused, clientVars, objectVars
  <2> QED
    BY <2>1 DEF Counted, Pending
<1>4. CASE ServerStep /\ spc \in Judging
  <2> DEFINE c == Head(todo)
  <2>1. c \in Client /\ UNCHANGED cpc
    BY <1>4, AtHand, EvaluationStep DEF TypeOK, clientVars
  <2>2. CASE /\ UNCHANGED <<purchases, state>>
             /\ spc' # "sold"
             /\ spc = "sold" => ~Reachable(c)
    <3>1. spc = "sold" => state[c] # "open"
      BY <2>1, <2>2 DEF Reachable, Asked
    <3> QED
      BY <2>1, <2>2, <3>1 DEF Counted, Pending
  <2>3. CASE /\ spc = "sell" /\ spc' = "sold" /\ todo' = todo
             /\ Reachable(c)
             /\ purchases' = Set(purchases, c, purchases[c] + 1)
             /\ UNCHANGED state
    <3>1. c \in Pending /\ cpc[c] \in {"putOffer", "wait", "spin"}
      BY <2>1, <2>3 DEF Asked, Dead, Reachable, Pending
    <3>2. purchases[c] \in Nat /\ purchases[c] < QUOTA
      BY <2>1, <3>1 DEF TypeOK, Counted
    <3>3. /\ purchases'[c] <= QUOTA
          /\ \A d \in Client \ {c} : purchases'[d] = purchases[d]
      BY <2>1, <2>3, <3>2 DEF TypeOK, Set
    <3>4. \A d \in Pending' : d \in Pending \ {c}
      BY <2>3 DEF Pending
    <3> QED
      BY <2>1, <3>1, <3>3, <3>4 DEF Counted, Pending
  <2>4. CASE /\ spc = "sold" /\ spc' = "count" /\ todo' = todo
             /\ state' = Set(state, c, "bought")
             /\ UNCHANGED purchases
    <3>1. \A d \in Pending' : d \in Pending
      BY <2>1, <2>4 DEF Pending, TypeOK, Set
    <3> QED
      BY <2>1, <2>4, <3>1 DEF Counted
  <2>5. CASE /\ spc = "refuse" /\ spc' \in {"top", "offer?"}
             /\ state' = Set(state, c, "failed")
             /\ UNCHANGED purchases
    <3>1. \A d \in Pending' : d \in Pending
      BY <2>1, <2>5 DEF Pending, TypeOK, Set
    <3> QED
      BY <2>1, <2>5, <3>1 DEF Counted
  <2> QED
    BY <1>4, <2>2, <2>3, <2>4, <2>5, EvaluationObjects
<1> QED
  BY <1>1, <1>2, <1>3, <1>4 DEF Next

-----------------------------------------------------------------------------
\* The invariant the results follow from.
THEOREM InductiveInvariant == Spec => []IInv
<1>1. Init => IInv
  <2> SUFFICES ASSUME Init PROVE IInv
    OBVIOUS
  <2>1. <<>> \in Seq(Client) /\ IsInjective(<<>>) /\ ToSet(<<>>) = {}
    BY EmptyDistinct
  <2>2. TypeOK
    BY <2>1 DEF Init, TypeOK, Judging
  <2>3. Subscribed /\ Told /\ Asked
    BY <2>1 DEF Init, Subscribed, Told, Asked, Judging
  <2>4. Counted
    BY QuotaAssumption DEF Init, Counted, Pending
  <2> QED
    BY <2>2, <2>3, <2>4 DEF IInv
<1>2. IInv /\ [Next]_vars => IInv'
  BY TypeStep, SubscribedStep, ToldStep, AskedStep, CountedStep DEF IInv
<1> QED
  BY <1>1, <1>2, PTL DEF Spec

\* The types, in which nobody subscribes twice and the evaluation always has a
\* client at hand.
THEOREM TypeCorrect == Spec => []TypeOK
BY InductiveInvariant, PTL DEF IInv

\* Whatever clients come, leave and die while a round goes on: an open request
\* is judged by the price its client was told last.
THEOREM JudgedByToldPriceHolds == Spec => []JudgedByToldPrice
<1>1. IInv => JudgedByToldPrice
  <2> SUFFICES ASSUME IInv, spc \in {"sell", "sold", "refuse"}, Head(todo) \notin Dead
               PROVE  serverPrice[Head(todo)] = currentPrice
    BY DEF JudgedByToldPrice
  <2> DEFINE c == Head(todo)
  <2>1. c \in Client /\ state[c] = "open"
    BY AtHand DEF IInv, TypeOK, Judging, Asked
  <2>2. cpc[c] \in {"putOffer", "wait", "spin"}
    BY <2>1 DEF IInv, Asked
  <2>3. serverPrice[c] # 0 /\ serverPrice[c] \in {0, currentPrice}
    BY <2>1, <2>2 DEF IInv, Told, Left, Judging
  <2> QED
    BY <2>3
<1> QED
  BY <1>1, InductiveInvariant, PTL

\* Nobody buys more than its quota, though a stale offer may sell what the
\* client has not yet asked for.
THEOREM QuotaKept == Spec => [](\A c \in Client : purchases[c] <= QUOTA)
BY InductiveInvariant, PTL DEF IInv, Counted
-----------------------------------------------------------------------------
\* The clients that left, for Shop.
Gone == {c \in Client : cpc[c] \in {"unexport", "gone"}}

\* A step of a client asks for an object, leaves with the quota, gives a request
\* up by dying, or is none of Shop's business.
LEMMA ClientImplements ==
  ASSUME IInv, NEW c \in Client, ClientStep(c) \/ Die(c)
  PROVE  S!Next \/ UNCHANGED <<purchases, Pending, Gone>>
<1> USE DEF IInv
<1>1. /\ UNCHANGED <<spc, todo, purchases>>
      /\ \A d \in Client \ {c} : UNCHANGED <<cpc[d], state[d]>>
  BY ClientStepLocal DEF serverVars
<1>2. ASSUME state'[c] = state[c], c \in Gone <=> c \in Gone'
      PROVE  UNCHANGED <<purchases, Pending, Gone>>
  BY <1>1, <1>2 DEF Pending, Gone
<1>3. CASE OpenRequest(c)
  <2>1. /\ cpc[c] = "setState" /\ cpc'[c] = "putOffer"
        /\ state[c] # "open" /\ state'[c] = "open"
    BY <1>3 DEF OpenRequest, TypeOK, Set, Asked
  <2>2. ~(spc = "sold" /\ Head(todo) = c)
    BY <2>1 DEF Asked, Dead
  <2>3. Pending' = Pending \cup {c} /\ c \notin Pending \cup Gone /\ Gone' = Gone
    BY <1>1, <2>1, <2>2 DEF Pending, Gone
  <2>4. purchases[c] < QUOTA
    BY <2>1 DEF Counted
  <2> QED
    BY <1>1, <2>3, <2>4 DEF S!Next, S!Request, Pending, Gone
<1>4. CASE unsubscribe(c)
  <2>1. cpc[c] = "draw" /\ cpc'[c] = "unexport" /\ state' = state /\ purchases[c] >= QUOTA
    <3>1. purchases[c] \in Nat /\ QUOTA \in Nat
      BY QuotaAssumption DEF TypeOK
    <3> QED
      BY <1>4, <3>1 DEF unsubscribe, Wants, TypeOK, Set, objectVars
  <2>2. purchases[c] = QUOTA
    BY <2>1, QuotaAssumption DEF TypeOK, Counted
  <2>3. Pending' = Pending /\ c \notin Pending \cup Gone /\ Gone' = Gone \cup {c}
    BY <1>1, <2>1 DEF Pending, Gone, Asked
  <2> QED
    BY <1>1, <2>2, <2>3 DEF S!Next, S!Finish, Pending, Gone
<1>5. CASE Die(c)
  <2>1. /\ cpc[c] \notin {"unexport", "gone"} /\ cpc'[c] = "dead"
        /\ state'[c] = "failed"
    BY <1>5 DEF Die, TypeOK, Set, Subscribed
  <2>2. Gone' = Gone /\ Pending' = Pending \ {c}
    BY <1>1, <2>1 DEF Pending, Gone
  <2>3. CASE c \in Pending
    BY <1>1, <2>2, <2>3 DEF S!Next, S!Refuse, Pending, Gone
  <2>4. CASE c \notin Pending
    BY <1>1, <2>2, <2>4
  <2> QED
    BY <2>3, <2>4
<1>6. CASE ClientStep(c) /\ ~OpenRequest(c) /\ ~unsubscribe(c)
  <2>1. state'[c] = state[c]
    BY <1>6 DEF ClientStep, subscribe, DrawOffer, CheckPrice, putOffer, BusyWait, SpinForEver,
                unexportObject, objectVars
  <2>2. c \in Gone <=> c \in Gone'
    BY <1>6 DEF ClientStep, subscribe, DrawOffer, CheckPrice, putOffer, BusyWait, SpinForEver,
                unexportObject, TypeOK, Set, Gone
  <2> QED
    BY <1>2, <2>1, <2>2
<1> QED
  BY <1>3, <1>4, <1>5, <1>6

\* A step of the server sells, refuses, or changes no request.
LEMMA ServerImplements ==
  ASSUME IInv, ServerStep
  PROVE  S!Next \/ UNCHANGED <<purchases, Pending, Gone>>
<1> USE DEF IInv
<1>1. CASE spc \notin Judging
  <2>1. UNCHANGED <<cpc, purchases, state>> /\ spc # "sold" /\ spc' # "sold"
    BY <1>1
    DEF ServerStep, StartRound, Exit, StartPut, putPrice, PutDone, StartEvaluation, Call, Aborted,
        At, Judging, CompareOffer, CheckOpen, clientHasPurchased, AnswerSold, LogPurchases,
        CompareOfferAgain, CheckStillOpen, AnswerRefused, clientVars, objectVars
  <2> QED
    BY <2>1 DEF Pending, Gone
<1>2. CASE spc \in Judging
  <2> DEFINE c == Head(todo)
  <2>1. c \in Client /\ UNCHANGED cpc
    BY <1>2, AtHand, EvaluationStep DEF TypeOK, clientVars
  <2>2. Gone' = Gone
    BY <2>1 DEF Gone
  <2>3. Reachable(c) /\ spc \in {"sell", "sold", "refuse"} => state[c] = "open" /\ c \notin Gone
    BY <2>1 DEF Asked, Reachable, Dead, Gone
  <2>4. CASE /\ UNCHANGED <<purchases, state>>
             /\ spc' # "sold"
             /\ spc = "sold" => ~Reachable(c)
    <3>1. spc = "sold" => state[c] # "open"
      BY <2>1, <2>4 DEF Reachable, Asked
    <3>2. Pending' = Pending
      BY <2>1, <2>4, <3>1 DEF Pending
    <3> QED
      BY <2>2, <2>4, <3>2
  <2>5. CASE /\ spc = "sell" /\ spc' = "sold" /\ todo' = todo
             /\ Reachable(c)
             /\ purchases' = Set(purchases, c, purchases[c] + 1)
             /\ UNCHANGED state
    <3>1. c \in Pending /\ Pending' = Pending \ {c}
      BY <2>1, <2>3, <2>5 DEF Pending
    <3> QED
      BY <2>1, <2>2, <2>5, <3>1 DEF S!Next, S!Sell, Pending, Gone, Set
  <2>6. CASE /\ spc = "sold" /\ spc' = "count" /\ todo' = todo
             /\ state' = Set(state, c, "bought")
             /\ UNCHANGED purchases
    <3>1. Pending' = Pending
      BY <2>1, <2>6 DEF Pending, TypeOK, Set
    <3> QED
      BY <2>2, <2>6, <3>1
  <2>7. CASE /\ spc = "refuse" /\ spc' \in {"top", "offer?"}
             /\ Reachable(c)
             /\ state' = Set(state, c, "failed")
             /\ UNCHANGED purchases
    <3>1. c \in Pending /\ Pending' = Pending \ {c}
      BY <2>1, <2>3, <2>7 DEF Pending, TypeOK, Set
    <3> QED
      BY <2>1, <2>2, <2>7, <3>1 DEF S!Next, S!Refuse, Pending, Gone
  <2> QED
    BY <1>2, <2>4, <2>5, <2>6, <2>7, EvaluationObjects
<1> QED
  BY <1>1, <1>2

\* The shop over RMI implements Shop: it answers every request at most once, and
\* its clients leave with exactly their quota.
THEOREM ImplementsShopHolds == Spec => ImplementsShop
<1>1. Init => S!Init
  BY DEF Init, S!Init
<1>2. IInv /\ [Next]_vars => [S!Next]_(S!shopVars)
  <2> SUFFICES ASSUME IInv, [Next]_vars
               PROVE  S!Next \/ UNCHANGED <<purchases, Pending, Gone>>
    BY DEF S!shopVars, Pending, Gone
  <2>1. CASE UNCHANGED vars
    BY <2>1 DEF vars, serverVars, clientVars, objectVars, Pending, Gone
  <2> QED
    BY <2>1, ClientImplements, ServerImplements DEF Next
<1> QED
  BY <1>1, <1>2, InductiveInvariant, PTL DEF Spec, ImplementsShop, S!Spec

-----------------------------------------------------------------------------
\* A dead subscriber is in the way of every round: the loop that puts the prices
\* has still to come to it.
Barred ==
  /\ Dead # {}
  /\ \/ spc \in {"top", "list", "exit", "exited"}
     \/ spc = "put" /\ Dead \cap ToSet(todo) # {}

\* The dead stay in the set, and no loop gets past one.
LEMMA BarredStep ==
  ASSUME TypeOK, Subscribed, Barred, [Next]_vars
  PROVE  Barred'
<1>1. CASE UNCHANGED vars
  BY <1>1 DEF vars, serverVars, clientVars, Barred, Dead
<1>2. ASSUME NEW c \in Client, ClientStep(c) \/ Die(c) PROVE Barred'
  <2>1. cpc[c] # "dead"
    BY <1>2 DEF ClientStep, subscribe, DrawOffer, CheckPrice, OpenRequest, putOffer, BusyWait,
                SpinForEver, unsubscribe, unexportObject, Die, Dead
  <2>2. UNCHANGED <<spc, todo>> /\ \A d \in Client \ {c} : cpc'[d] = cpc[d]
    BY <1>2, ClientStepLocal DEF serverVars
  <2>3. Dead \subseteq Dead'
    BY <2>1, <2>2 DEF Dead
  <2> QED
    BY <2>2, <2>3 DEF Barred
<1>3. CASE ServerStep
  <2>1. spc \notin Judging /\ spc # "sleep"
    BY DEF Barred, Judging
  <2>2. cpc' = cpc /\ Dead' = Dead
    BY <1>3, <2>1
    DEF ServerStep, At, Judging, clientVars, Dead, StartRound, Exit, StartPut, putPrice, PutDone,
        StartEvaluation, CompareOffer, CheckOpen, clientHasPurchased, AnswerSold, LogPurchases,
        CompareOfferAgain, CheckStillOpen, AnswerRefused
  <2>3. Dead \subseteq ToSet(clientList)
    BY DEF Dead, Subscribed
  <2>4. CASE putPrice
    <3>1. spc = "put" /\ todo # <<>> /\ Call(Head(todo), "put", Tail(todo))
      BY <2>4 DEF putPrice
    <3>2. PICK d \in Dead : d \in ToSet(todo)
      BY <3>1 DEF Barred
    <3>3. CASE Head(todo) \in Dead
      BY <2>2, <3>1, <3>3 DEF Call, Reachable, Aborted, Dead, Barred
    <3>4. CASE Head(todo) \notin Dead
      <4>1. d \in ToSet(Tail(todo))
        BY <3>1, <3>2, <3>4, AtHand
      <4>2. (spc' = "put" /\ todo' = Tail(todo)) \/ spc' = "top"
        BY <3>1 DEF Call, Aborted
      <4> QED
        BY <2>2, <3>2, <4>1, <4>2 DEF Barred
    <3> QED
      BY <3>3, <3>4
  <2>5. CASE PutDone
    BY <2>5, EmptyDistinct DEF PutDone, Barred
  <2>6. CASE StartRound \/ Exit
    BY <2>2, <2>6 DEF StartRound, Exit, Barred
  <2>7. CASE StartPut
    BY <2>2, <2>3, <2>7 DEF StartPut, Barred
  <2> QED
    BY <1>3, <2>1, <2>4, <2>5, <2>6, <2>7
    DEF ServerStep, At, Judging, StartEvaluation, CompareOffer, CheckOpen, clientHasPurchased,
        AnswerSold, LogPurchases, CompareOfferAgain, CheckStillOpen, AnswerRefused
<1> QED
  BY <1>1, <1>2, <1>3 DEF Next

\* The safe half of DeathEndsSales: whoever subscribes, leaves or dies after a
\* death, no round that starts after it comes to a judgement.
THEOREM DeathBarsRoundsHolds == Spec => DeathBarsRounds
<1>1. TypeOK /\ Subscribed /\ Barred /\ [Next]_vars => Barred'
  BY BarredStep
<1>2. Dead # {} /\ spc = "top" => Barred
  BY DEF Barred
<1>3. Barred => spc \notin Judging
  BY DEF Barred, Judging
<1>4. Spec => [](TypeOK /\ Subscribed)
  BY InductiveInvariant, PTL DEF IInv
<1> QED
  BY <1>1, <1>2, <1>3, <1>4, PTL DEF Spec, DeathBarsRounds
=============================================================================

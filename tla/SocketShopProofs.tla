--------------------------- MODULE SocketShopProofs ---------------------------
(***************************************************************************)
(* For any number of clients and any size of the pool: the types of        *)
(* assignment 2 (the pool has a worker for every thread it runs), that the *)
(* two ends of a connection never lose step, and that the shop implements  *)
(* Shop.                                                                   *)
(***************************************************************************)
EXTENDS SocketShop, DistinctSequences

\* Where the connections are: a client is in one place at most, and once.
Placed ==
  /\ IsInjective(backlog) /\ IsInjective(clientSockets) /\ IsInjective(waiting)
  /\ \A c \in ToSet(backlog) : tpc[c] = "none" /\ cpc[c] # "new"
  /\ \A c \in Client : cpc[c] = "new" => tpc[c] = "none"
  /\ \A c \in Client : tpc[c] = "queued" <=> c \in ToSet(waiting)
  /\ main = "gather" =>
       /\ \A c \in Client : tpc[c] = "none"
       /\ \A c \in ToSet(clientSockets) : cpc[c] # "new" /\ c \notin ToSet(backlog)
       /\ workers = 0

\* After the exit there is no thread, and nothing to make one of.
Exited ==
  main = "exited" =>
    /\ \A c \in Client : tpc[c] \in {"none", "done"}
    /\ ~listening /\ backlog = <<>> /\ waiting = <<>> /\ workers = 0

PoolFinite == IsFiniteSet(Active) /\ IsFiniteSet(Spawned)

\* The acknowledgement that may still be on its way to a client: the sale it
\* waits for, or the refusal of an offer of 0, which it will drop.
Unread(c) == IF cpc[c] = "ack" THEN {<<Ack(TRUE)>>} ELSE {<<>>, <<Ack(FALSE)>>}

Talking(c) == cpc[c] \in {"loop", "ack"}

\* The client has answered the price of its thread with m, and waits
\* accordingly.
Answered(c, m) ==
  /\ toClient[c] = <<>>
  /\ \/ m \in Amounts /\ m > price[c] /\ cpc[c] = "ack"
     \/ m = NoOffer /\ cpc[c] = "loop"
     \/ m = Bye /\ cpc[c] = "done"

\* A client that is connected and has no ServerThread yet.
Pending(c) == \/ c \in ToSet(backlog)
              \/ main = "gather" /\ c \in ToSet(clientSockets)

\* What can be in the two streams of a connection, for each place its thread
\* can be at; and what can be in the client's when there is no thread any more.
Paired(c) ==
  /\ Pending(c) \/ tpc[c] \in {"queued", "spawned"} => cpc[c] = "loop"
  /\ tpc[c] \in {"none", "queued", "spawned"} =>
       cpc[c] \in {"new", "loop", "failed"} /\ toClient[c] = <<>> /\ toServer[c] = <<>>
  /\ tpc[c] = "price" =>
       Talking(c) /\ toServer[c] = <<>> /\ toClient[c] \in Unread(c)
  /\ tpc[c] = "read" =>
       \/ /\ Talking(c) /\ toServer[c] = <<>>
          /\ \E u \in Unread(c) : toClient[c] = Append(u, Price(price[c]))
       \/ \E m \in ToServer : toServer[c] = <<m>> /\ Answered(c, m)
  /\ tpc[c] = "judge" => toServer[c] = <<>> /\ Answered(c, got[c])
  /\ Talking(c) =>
       \/ toClient[c] \in Unread(c) \cup {<<>>}
       \/ \E u \in Unread(c), p \in Amounts : toClient[c] = Append(u, Price(p))
  /\ cpc[c] = "done" => toClient[c] = <<>>

InStep == \A c \in Client \ Dead : Paired(c)

\* Who asks lacks a purchase, who left lacks none.
Counted ==
  \A c \in Client : /\ cpc[c] = "ack" => purchases[c] < QUOTA
                    /\ cpc[c] = "done" => purchases[c] = QUOTA

IInv == TypeOK /\ Placed /\ Exited /\ PoolFinite /\ InStep /\ Counted
-----------------------------------------------------------------------------
\* Only clients are in the lists.
LEMMA Listed ==
  ASSUME TypeOK
  PROVE  ToSet(backlog) \subseteq Client /\ ToSet(waiting) \subseteq Client
         /\ ToSet(clientSockets) \subseteq Client
BY ToSetOfSeq DEF TypeOK

\* The connections nobody accepted, without one that is reset.
LEMMA BacklogReset ==
  ASSUME TypeOK, Placed, NEW i \in DOMAIN backlog
  PROVE  /\ RemoveAt(backlog, i) \in Seq(Client) /\ IsInjective(RemoveAt(backlog, i))
         /\ backlog[i] \in ToSet(backlog)
         /\ ToSet(RemoveAt(backlog, i)) = ToSet(backlog) \ {backlog[i]}
<1>1. backlog \in Seq(Client) /\ IsInjective(backlog)
  BY DEF TypeOK, Placed
<1>2. backlog[i] \in ToSet(backlog)
  BY DEF ToSet
<1> QED
  BY <1>1, <1>2, RemoveDistinct

\* What the pool does with the clients of a sequence that it has not seen yet:
\* each is spawned or queued, and the pool has the worker of each it spawns.
LEMMA ExecuteStep ==
  ASSUME TypeOK, Placed, PoolFinite,
         NEW cs \in Seq(Client), IsInjective(cs), \A c \in ToSet(cs) : tpc[c] = "none",
         execute(cs)
  PROVE  /\ waiting' \in Seq(Client) /\ IsInjective(waiting')
         /\ workers' \in 0..COREPOOL
         /\ waiting' # <<>> => workers' = COREPOOL
         /\ ToSet(waiting) \subseteq ToSet(waiting')
         /\ ToSet(waiting') \subseteq ToSet(waiting) \cup ToSet(cs)
         /\ tpc' = [c \in Client |->
                      IF c \notin ToSet(cs) THEN tpc[c]
                      ELSE IF c \in ToSet(waiting') THEN "queued" ELSE "spawned"]
         /\ PoolFinite' /\ Idle' = Idle
<1> DEFINE n == Len(cs)
           room == COREPOOL - workers
           new == {cs[i] : i \in {j \in 1..n : j <= room}}
           late == {cs[i] : i \in {j \in 1..n : j > room}}
           rest == SubSeq(cs, room + 1, n)
<1>1. /\ workers' = workers + Cardinality(new)
      /\ waiting' = IF n <= room THEN waiting ELSE waiting \o rest
      /\ tpc' = [c \in Client |-> IF c \in new THEN "spawned"
                                  ELSE IF c \in late THEN "queued" ELSE tpc[c]]
  BY DEF execute
<1>2. n \in Nat /\ DOMAIN cs = 1..n
  BY LenProperties
<1>3. COREPOOL \in Nat /\ workers \in Nat /\ room \in Nat
  BY PoolAssumption DEF TypeOK
<1>4. IsFiniteSet(new) /\ Cardinality(new) = IF n <= room THEN n ELSE room
  <2>1. \A m \in Nat :
          /\ IsFiniteSet({cs[i] : i \in {j \in 1..n : j <= m}})
          /\ Cardinality({cs[i] : i \in {j \in 1..n : j <= m}}) = IF n <= m THEN n ELSE m
    BY PrefixCardinality, Zenon
  <2> QED
    BY <1>3, <2>1, Zenon
<1>5. ToSet(cs) = new \cup late /\ new \cap late = {}
  <2>1. \A i \in 1..n : i <= room \/ i > room
    BY <1>2, <1>3
  <2>2. ToSet(cs) = new \cup late
    BY <1>2, <2>1 DEF ToSet
  <2>3. \A i, j \in 1..n : cs[i] = cs[j] => i = j
    BY <1>2 DEF IsInjective
  <2>4. \A i, j \in 1..n : i <= room /\ j > room => cs[i] # cs[j]
    BY <1>2, <1>3, <2>3
  <2> QED
    BY <2>2, <2>4
<1>6. ~(n <= room) => /\ rest \in Seq(Client) /\ IsInjective(rest) /\ ToSet(rest) = late
  <2>1. ~(n <= room) => room \in 0..Len(cs)
    BY <1>2, <1>3
  <2> HIDE DEF room
  <2> QED
    BY <2>1, SuffixDistinct
<1>7. n <= room => late = {}
  BY <1>2, <1>3
<1>8. workers' \in 0..COREPOOL
  BY <1>1, <1>2, <1>3, <1>4
<1> HIDE DEF n, new, late, rest
<1>9. ToSet(cs) \cap ToSet(waiting) = {} /\ ToSet(cs) \subseteq Client
  BY Listed, ToSetOfSeq DEF Placed
<1>10. /\ waiting' \in Seq(Client) /\ IsInjective(waiting')
       /\ ToSet(waiting') = ToSet(waiting) \cup late
  <2>1. CASE n <= room
    BY <1>1, <1>7, <2>1 DEF TypeOK, Placed
  <2>2. CASE ~(n <= room)
    <3>1. ToSet(waiting) \cap ToSet(rest) = {}
      BY <1>5, <1>6, <1>9, <2>2
    <3> QED
      BY <1>1, <1>6, <2>2, <3>1, ConcatDistinct DEF TypeOK, Placed
  <2> QED
    BY <2>1, <2>2
<1>11. waiting' # <<>> => workers' = COREPOOL
  BY <1>1, <1>2, <1>3, <1>4 DEF TypeOK
<1>12. tpc' = [c \in Client |->
                 IF c \notin ToSet(cs) THEN tpc[c]
                 ELSE IF c \in ToSet(waiting') THEN "queued" ELSE "spawned"]
  <2>1. \A c \in ToSet(cs) : (c \in ToSet(waiting') <=> c \notin new) /\ (c \in late <=> c \notin new)
    BY <1>5, <1>9, <1>10
  <2> QED
    BY <1>1, <1>5, <2>1
<1>13. PoolFinite' /\ Idle' = Idle
  <2>1. \A c \in new \cup late : c \in Client /\ tpc[c] = "none"
    BY <1>5, <1>9
  <2>2. Active' = Active /\ Spawned' = Spawned \cup new /\ Spawned \cap new = {}
    BY <1>1, <1>5, <2>1 DEF Active, Spawned
  <2>3. /\ IsFiniteSet(Spawned \cup new)
        /\ Cardinality(Spawned \cup new)
             = Cardinality(Spawned) + Cardinality(new) - Cardinality({})
    <3>1. IsFiniteSet(Spawned) /\ IsFiniteSet(new)
      BY <1>4 DEF PoolFinite
    <3>2. /\ IsFiniteSet(Spawned \cup new)
          /\ Cardinality(Spawned \cup new)
               = Cardinality(Spawned) + Cardinality(new) - Cardinality(Spawned \cap new)
      BY <3>1, FS_Union
    <3> QED
      BY <2>2, <3>2
  <2>4. /\ Cardinality(Spawned) \in Nat /\ Cardinality(Active) \in Nat
        /\ Cardinality(new) \in Nat /\ Cardinality({}) = 0
    BY <1>4, FS_CardinalityType, FS_EmptySet DEF PoolFinite
  <2> QED
    BY <1>1, <1>3, <2>2, <2>3, <2>4 DEF PoolFinite, Idle
<1> QED
  BY <1>5, <1>8, <1>10, <1>11, <1>12, <1>13

\* The main thread hands the pool the clients it has gathered, or the next one.
LEMMA AcceptExecutes ==
  ASSUME TypeOK, Placed, AcceptFirst \/ AcceptNext
  PROVE  /\ backlog # <<>> /\ Head(backlog) \in Client
         /\ cpc[Head(backlog)] # "new" /\ tpc[Head(backlog)] = "none"
         /\ backlog' = Tail(backlog) /\ backlog' \in Seq(Client) /\ IsInjective(backlog')
         /\ ToSet(backlog') = ToSet(backlog) \ {Head(backlog)}
         /\ UNCHANGED <<listening, price, got, clientVars, streams>>
         /\ clientSockets' \in Seq(Client) /\ IsInjective(clientSockets')
         /\ \/ /\ main' = main /\ main = "gather" /\ UNCHANGED <<poolVars, tpc>>
               /\ \A c \in ToSet(clientSockets') :
                    Pending(c) /\ cpc[c] # "new" /\ c \notin ToSet(backlog')
            \/ /\ main' = "accept"
               /\ \E cs \in Seq(Client) :
                    /\ IsInjective(cs)
                    /\ \A c \in ToSet(cs) : Pending(c) /\ tpc[c] = "none" /\ cpc[c] # "new"
                    /\ ToSet(cs) \cap ToSet(backlog') = {}
                    /\ execute(cs)
<1>1. /\ backlog # <<>> /\ backlog' = Tail(backlog)
      /\ UNCHANGED <<listening, price, got, clientVars, streams>>
  BY DEF AcceptFirst, AcceptNext
<1>2. /\ Head(backlog) \in ToSet(backlog)
      /\ backlog' \in Seq(Client) /\ IsInjective(backlog')
      /\ ToSet(backlog') = ToSet(backlog) \ {Head(backlog)}
  BY <1>1, TailDistinct DEF TypeOK, Placed
<1>3. /\ Head(backlog) \in Client
      /\ cpc[Head(backlog)] # "new" /\ tpc[Head(backlog)] = "none"
  BY <1>2, Listed DEF Placed
<1> DEFINE h == Head(backlog)
<1>4. CASE AcceptFirst
  <2> DEFINE cs == Append(clientSockets, h)
  <2>1. /\ \A c \in Client : tpc[c] = "none"
        /\ \A c \in ToSet(clientSockets) :
             c \in Client /\ Pending(c) /\ cpc[c] # "new" /\ c \notin ToSet(backlog)
    BY <1>4, Listed DEF AcceptFirst, Placed, Pending
  <2>2. /\ cs \in Seq(Client) /\ IsInjective(cs)
        /\ ToSet(cs) = ToSet(clientSockets) \cup {h}
    BY <1>2, <1>3, <2>1, AppendDistinct DEF TypeOK, Placed
  <2>3. /\ \A c \in ToSet(cs) : Pending(c) /\ tpc[c] = "none" /\ cpc[c] # "new"
        /\ ToSet(cs) \cap ToSet(backlog') = {}
    BY <1>2, <1>3, <2>1, <2>2 DEF Pending
  <2>4. /\ clientSockets' = cs
        /\ \/ main' = main /\ main = "gather" /\ UNCHANGED <<poolVars, tpc>>
           \/ main' = "accept" /\ execute(cs)
    BY <1>4 DEF AcceptFirst
  <2> HIDE DEF cs
  <2> QED
    BY <1>1, <1>2, <1>3, <2>2, <2>3, <2>4
<1>5. CASE AcceptNext
  <2>1. <<h>> \in Seq(Client) /\ IsInjective(<<h>>) /\ ToSet(<<h>>) = {h}
    BY <1>3, SingletonDistinct
  <2>2. /\ main' = "accept" /\ execute(<<h>>) /\ clientSockets' = clientSockets
    BY <1>5 DEF AcceptNext
  <2>3. /\ \A c \in ToSet(<<h>>) : Pending(c) /\ tpc[c] = "none" /\ cpc[c] # "new"
        /\ ToSet(<<h>>) \cap ToSet(backlog') = {}
    BY <1>2, <1>3, <2>1 DEF Pending
  <2> QED
    BY <1>1, <1>2, <1>3, <2>1, <2>2, <2>3 DEF TypeOK, Placed
<1> QED
  BY <1>4, <1>5

\* A ServerThread that goes on takes no worker but the one it has, unless it
\* comes from the queue.
LEMMA ThreadMoves ==
  ASSUME TypeOK, PoolFinite, NEW c \in Client, tpc[c] \notin {"none", "done"},
         NEW v \in {"header", "price", "read", "judge", "close", "done"},
         tpc' = Set(tpc, c, v), workers' = workers
  PROVE  /\ PoolFinite'
         /\ Idle' >= Idle - (IF tpc[c] = "queued" THEN 1 ELSE 0)
<1>1. tpc'[c] = v /\ \A d \in Client \ {c} : tpc'[d] = tpc[d]
  BY DEF TypeOK, Set
<1>2. Spawned' = Spawned \ {c}
  BY <1>1 DEF Spawned
<1>3. Active' = Active \cup {c} \/ Active' = Active \ {c}
  BY <1>1 DEF Active
<1>4. c \in Spawned <=> tpc[c] = "spawned"
  BY DEF Spawned
<1>5. c \in Active <=> tpc[c] \in {"header", "price", "read", "judge", "close"}
  BY DEF Active
<1>6. /\ Cardinality(Spawned) \in Nat /\ Cardinality(Active) \in Nat
      /\ workers \in Nat
  BY PoolAssumption, FS_CardinalityType DEF PoolFinite, TypeOK
<1>7. /\ IsFiniteSet(Spawned')
      /\ Cardinality(Spawned')
           = IF tpc[c] = "spawned" THEN Cardinality(Spawned) - 1 ELSE Cardinality(Spawned)
  BY <1>2, <1>4, FS_RemoveElement DEF PoolFinite
<1>8. /\ IsFiniteSet(Active') /\ Cardinality(Active') \in Nat
      /\ Cardinality(Active') <= IF c \in Active THEN Cardinality(Active)
                                                 ELSE Cardinality(Active) + 1
  <2>1. CASE Active' = Active \cup {c}
    <3>1. /\ IsFiniteSet(Active \cup {c})
          /\ Cardinality(Active \cup {c})
               = IF c \in Active THEN Cardinality(Active) ELSE Cardinality(Active) + 1
      BY FS_AddElement DEF PoolFinite
    <3> QED
      BY <1>6, <2>1, <3>1
  <2>2. CASE Active' = Active \ {c}
    <3>1. /\ IsFiniteSet(Active \ {c})
          /\ Cardinality(Active \ {c})
               = IF c \in Active THEN Cardinality(Active) - 1 ELSE Cardinality(Active)
      BY FS_RemoveElement DEF PoolFinite
    <3>2. Cardinality(Active \ {c}) \in Nat
      BY <3>1, FS_CardinalityType
    <3> QED
      BY <1>6, <2>2, <3>1, <3>2
  <2> QED
    BY <1>3, <2>1, <2>2
<1>9. tpc[c] \in {"queued", "spawned"} \/ c \in Active
  BY <1>5 DEF TypeOK
<1>10. PoolFinite'
  BY <1>7, <1>8 DEF PoolFinite
<1>11. Cardinality(Active)' + Cardinality(Spawned)'
         <= Cardinality(Active) + Cardinality(Spawned) + (IF tpc[c] = "queued" THEN 1 ELSE 0)
  <2>1. CASE tpc[c] = "spawned"
    BY <1>5, <1>6, <1>7, <1>8, <2>1
  <2>2. CASE tpc[c] = "queued"
    BY <1>5, <1>6, <1>7, <1>8, <2>2
  <2>3. CASE c \in Active
    BY <1>5, <1>6, <1>7, <1>8, <2>3
  <2> QED
    BY <1>9, <2>1, <2>2, <2>3
<1>12. Cardinality(Active)' \in Nat /\ Cardinality(Spawned)' \in Nat
  BY <1>7, <1>8, FS_CardinalityType
<1>13. Idle' >= Idle - (IF tpc[c] = "queued" THEN 1 ELSE 0)
  <2> DEFINE q == IF tpc[c] = "queued" THEN 1 ELSE 0
  <2>1. q \in Int
    OBVIOUS
  <2> HIDE DEF q
  <2>2. Cardinality(Active)' + Cardinality(Spawned)' <= Cardinality(Active) + Cardinality(Spawned) + q
    BY <1>11 DEF q
  <2>3. Idle' >= Idle - q
    BY <1>6, <1>12, <2>1, <2>2 DEF Idle
  <2> QED
    BY <2>3 DEF q
<1> QED
  BY <1>10, <1>13

\* What a step of a client leaves alone.
LEMMA ClientStepLocal ==
  ASSUME TypeOK, NEW c \in Client, ClientStep(c) \/ Die(c)
  PROVE  /\ UNCHANGED <<main, listening, clientSockets, poolVars, threadVars>>
         /\ \A d \in Client \ {c} :
              UNCHANGED <<cpc[d], purchases[d], toClient[d], toServer[d]>>
<1> USE DEF TypeOK, Set, Send, Drop, Receives, serverVars, clientVars, streams
<1>1. CASE Connect(c) \/ ConnectRefused(c) \/ ConnectionReset(c) \/ ConnectionLost(c) \/ Die(c)
  BY <1>1 DEF Connect, ConnectRefused, ConnectionReset, ConnectionLost, Die
<1>2. CASE MakeOffer(c) \/ SendNoOffer(c) \/ SendBye(c) \/ IgnoreAck(c) \/ ReadAnswer(c)
  BY <1>2 DEF MakeOffer, SendNoOffer, SendBye, IgnoreAck, ReadAnswer
<1> QED
  BY <1>1, <1>2 DEF ClientStep

\* What a step of a ServerThread leaves alone.
LEMMA ThreadStepLocal ==
  ASSUME TypeOK, NEW c \in Client, ThreadStep(c), ~ConnectionBreaks(c)
  PROVE  /\ UNCHANGED <<main, backlog, clientSockets, poolVars, clientVars>>
         /\ tpc[c] \in {"header", "price", "read", "judge", "close"}
         /\ \E v \in {"header", "price", "read", "judge", "close", "done"} : tpc' = Set(tpc, c, v)
         /\ \A d \in Client \ {c} : UNCHANGED <<tpc[d], price[d], got[d], toClient[d], toServer[d]>>
<1> USE DEF TypeOK, Set, Send, Drop, Deliver, serverVars, poolVars, clientVars, streams
<1>1. CASE (\E p \in Amounts : SendPrice(c, p)) \/ ReadOffer(c)
  BY <1>1 DEF SendPrice, ReadOffer
<1>2. CASE HeaderFails(c) \/ Answer(c) \/ CheckLast(c) \/ Return(c)
  BY <1>2 DEF HeaderFails, Answer, CheckLast, Return
<1> QED
  BY <1>1, <1>2 DEF ThreadStep

\* The head of the queue, and what is left of it.
LEMMA NextTask ==
  ASSUME TypeOK, Placed, waiting # <<>>
  PROVE  /\ Head(waiting) \in Client /\ tpc[Head(waiting)] = "queued"
         /\ Tail(waiting) \in Seq(Client) /\ IsInjective(Tail(waiting))
         /\ ToSet(Tail(waiting)) = ToSet(waiting) \ {Head(waiting)}
<1>1. /\ Head(waiting) \in ToSet(waiting)
      /\ Tail(waiting) \in Seq(Client) /\ IsInjective(Tail(waiting))
      /\ ToSet(Tail(waiting)) = ToSet(waiting) \ {Head(waiting)}
  BY TailDistinct DEF TypeOK, Placed
<1> QED
  BY <1>1, Listed DEF Placed

\* Every step keeps a worker for every thread that runs, and queues nothing
\* while there is room for another.
LEMMA PoolKept ==
  ASSUME TypeOK, Placed, PoolFinite, [Next]_vars
  PROVE  /\ PoolFinite' /\ workers' \in 0..COREPOOL /\ Idle' >= 0
         /\ waiting' # <<>> => workers' = COREPOOL
<1>0. /\ Cardinality(Spawned) \in Nat /\ Cardinality(Active) \in Nat
      /\ workers \in Nat /\ Idle \in Int /\ Idle >= 0
  BY PoolAssumption, FS_CardinalityType DEF PoolFinite, TypeOK, Idle
<1>1. ASSUME UNCHANGED <<poolVars, tpc>>
      PROVE  /\ PoolFinite' /\ workers' \in 0..COREPOOL /\ Idle' >= 0
             /\ waiting' # <<>> => workers' = COREPOOL
  BY <1>1 DEF poolVars, TypeOK, PoolFinite, Active, Spawned, Idle
<1>2. CASE AcceptFirst \/ AcceptNext
  BY <1>0, <1>1, <1>2, AcceptExecutes, ExecuteStep
<1>3. CASE UNCHANGED vars \/ AcceptFails
  BY <1>1, <1>3 DEF vars, AcceptFails, threadVars
<1>4. ASSUME NEW c \in Client, ClientStep(c) \/ Die(c) PROVE UNCHANGED <<poolVars, tpc>>
  BY <1>4, ClientStepLocal DEF threadVars
<1>5. ASSUME NEW c \in Client, RunFirst(c)
      PROVE  /\ PoolFinite' /\ workers' \in 0..COREPOOL /\ Idle' >= 0
             /\ waiting' # <<>> => workers' = COREPOOL
  <2>1. UNCHANGED poolVars /\ tpc[c] = "spawned" /\ tpc' = Set(tpc, c, Start(c))
    BY <1>5 DEF RunFirst
  <2>2. PoolFinite' /\ Idle' >= Idle - (IF tpc[c] = "queued" THEN 1 ELSE 0)
    BY <2>1, ThreadMoves DEF Start, poolVars
  <2>3. Idle' \in Int
    BY <1>0, <2>1, <2>2, FS_CardinalityType DEF PoolFinite, Idle, poolVars
  <2> QED
    BY <1>0, <2>1, <2>2, <2>3 DEF poolVars, TypeOK
<1>6. CASE TakeTask
  <2> DEFINE c == Head(waiting)
  <2>1. /\ waiting # <<>> /\ waiting' = Tail(waiting) /\ workers' = workers /\ Idle > 0
        /\ tpc' = Set(tpc, c, Start(c))
    BY <1>6 DEF TakeTask
  <2>2. c \in Client /\ tpc[c] = "queued"
    BY <2>1, NextTask
  <2> HIDE DEF c
  <2>3. PoolFinite' /\ Idle' >= Idle - (IF tpc[c] = "queued" THEN 1 ELSE 0)
    BY <2>1, <2>2, ThreadMoves DEF Start
  <2>4. Idle' \in Int
    BY <1>0, <2>1, <2>3, FS_CardinalityType DEF PoolFinite, Idle
  <2> QED
    BY <1>0, <2>1, <2>2, <2>3, <2>4 DEF TypeOK
<1>7. ASSUME NEW c \in Client, ThreadStep(c), ~ConnectionBreaks(c)
      PROVE  /\ PoolFinite' /\ workers' \in 0..COREPOOL /\ Idle' >= 0
             /\ waiting' # <<>> => workers' = COREPOOL
  <2>1. /\ UNCHANGED poolVars /\ tpc[c] \in {"header", "price", "read", "judge", "close"}
        /\ \E v \in {"header", "price", "read", "judge", "close", "done"} : tpc' = Set(tpc, c, v)
    BY <1>7, ThreadStepLocal
  <2>2. PoolFinite' /\ Idle' >= Idle - (IF tpc[c] = "queued" THEN 1 ELSE 0)
    BY <2>1, ThreadMoves DEF poolVars
  <2>3. Idle' \in Int
    BY <1>0, <2>1, <2>2, FS_CardinalityType DEF PoolFinite, Idle, poolVars
  <2> QED
    BY <1>0, <2>1, <2>2, <2>3 DEF poolVars, TypeOK
<1>8. ASSUME NEW c \in Client, ConnectionBreaks(c)
      PROVE  /\ PoolFinite' /\ workers' \in 0..COREPOOL /\ Idle' >= 0
             /\ waiting' # <<>> => workers' = COREPOOL
  <2>1. /\ workers' = 0 /\ waiting' = <<>>
        /\ tpc' = [d \in Client |-> IF tpc[d] = "none" THEN "none" ELSE "done"]
    BY <1>8 DEF ConnectionBreaks
  <2>2. Active' = {} /\ Spawned' = {}
    BY <2>1 DEF Active, Spawned
  <2> QED
    BY <2>1, <2>2, FS_EmptySet, PoolAssumption DEF PoolFinite, Idle
<1> QED
  BY <1>1, <1>2, <1>3, <1>4, <1>5, <1>6, <1>7, <1>8 DEF Next, MainStep, PoolStep

\* Every step keeps a client in one place at most.
LEMMA PlacedStep ==
  ASSUME TypeOK, Placed, Exited, PoolFinite, [Next]_vars
  PROVE  Placed'
<1>1. CASE UNCHANGED vars \/ AcceptFails
  BY <1>1 DEF vars, AcceptFails, serverVars, poolVars, threadVars, clientVars, Placed
<1>2. CASE AcceptFirst \/ AcceptNext
  <2> DEFINE h == Head(backlog)
  <2>1. /\ IsInjective(backlog') /\ IsInjective(clientSockets')
        /\ ToSet(backlog') = ToSet(backlog) \ {h}
        /\ UNCHANGED cpc
    BY <1>2, AcceptExecutes DEF clientVars
  <2>2. CASE /\ main' = main /\ main = "gather" /\ UNCHANGED <<poolVars, tpc>>
             /\ \A c \in ToSet(clientSockets') : cpc[c] # "new" /\ c \notin ToSet(backlog')
    BY <2>1, <2>2 DEF Placed, poolVars
  <2>3. ASSUME main' = "accept",
               NEW cs \in Seq(Client), IsInjective(cs),
               \A c \in ToSet(cs) : tpc[c] = "none" /\ cpc[c] # "new",
               ToSet(cs) \cap ToSet(backlog') = {},
               execute(cs)
        PROVE  Placed'
    <3>1. /\ IsInjective(waiting')
          /\ ToSet(waiting) \subseteq ToSet(waiting')
          /\ ToSet(waiting') \subseteq ToSet(waiting) \cup ToSet(cs)
          /\ tpc' = [c \in Client |->
                       IF c \notin ToSet(cs) THEN tpc[c]
                       ELSE IF c \in ToSet(waiting') THEN "queued" ELSE "spawned"]
      BY <2>3, ExecuteStep
    <3>2. \A c \in Client : tpc'[c] = "queued" <=> c \in ToSet(waiting')
      BY <2>3, <3>1 DEF Placed
    <3>3. \A c \in Client : cpc'[c] = "new" => tpc'[c] = "none"
      BY <2>1, <2>3, <3>1 DEF Placed
    <3>4. \A c \in ToSet(backlog') : tpc'[c] = "none" /\ cpc'[c] # "new"
      BY <2>1, <2>3, <3>1, Listed DEF Placed
    <3> QED
      BY <2>1, <2>3, <3>1, <3>2, <3>3, <3>4 DEF Placed
  <2> QED
    BY <1>2, <2>2, <2>3, AcceptExecutes
<1>3. ASSUME NEW c \in Client, RunFirst(c) \/ (ThreadStep(c) /\ ~ConnectionBreaks(c))
      PROVE  Placed'
  <2>1. /\ UNCHANGED <<main, backlog, clientSockets, poolVars, clientVars>>
        /\ tpc[c] \notin {"none", "queued"}
        /\ \E v \in {"header", "price", "read", "judge", "close", "done"} : tpc' = Set(tpc, c, v)
    BY <1>3, ThreadStepLocal DEF RunFirst, Start, serverVars
  <2>2. tpc'[c] \notin {"none", "queued"} /\ \A d \in Client \ {c} : tpc'[d] = tpc[d]
    BY <2>1 DEF TypeOK, Set
  <2> QED
    BY <2>1, <2>2, Listed DEF Placed, poolVars, clientVars
<1>4. CASE TakeTask
  <2> DEFINE c == Head(waiting)
  <2>1. /\ c \in Client /\ tpc[c] = "queued"
        /\ IsInjective(waiting') /\ ToSet(waiting') = ToSet(waiting) \ {c}
    BY <1>4, NextTask DEF TakeTask
  <2>2. tpc'[c] \notin {"none", "queued"} /\ \A d \in Client \ {c} : tpc'[d] = tpc[d]
    BY <1>4, <2>1 DEF TakeTask, TypeOK, Set, Start
  <2>3. UNCHANGED <<main, backlog, clientSockets, cpc, workers>>
    BY <1>4 DEF TakeTask, serverVars, clientVars
  <2> HIDE DEF c
  <2> QED
    BY <2>1, <2>2, <2>3, Listed DEF Placed
<1>5. ASSUME NEW c \in Client, ConnectionBreaks(c) PROVE Placed'
  BY <1>5, EmptyDistinct DEF ConnectionBreaks, Placed, clientVars
<1>6. ASSUME NEW c \in Client, ClientStep(c) \/ Die(c) PROVE Placed'
  <2>1. UNCHANGED <<main, clientSockets, waiting, workers, tpc>>
        /\ \A d \in Client \ {c} : cpc'[d] = cpc[d]
    BY <1>6, ClientStepLocal DEF poolVars, threadVars
  <2>2. CASE /\ backlog' = Append(backlog, c)
             /\ cpc[c] = "new" /\ cpc'[c] # "new"
    <3>1. c \notin ToSet(backlog)
      BY <2>2 DEF Placed
    <3>2. IsInjective(backlog') /\ ToSet(backlog') = ToSet(backlog) \cup {c}
      BY <2>2, <3>1, AppendDistinct DEF Placed, TypeOK
    <3>3. main = "gather" => c \notin ToSet(clientSockets)
      BY <2>2 DEF Placed
    <3> QED
      BY <2>1, <2>2, <3>2, <3>3, Listed DEF Placed
  <2>3. CASE /\ \E i \in DOMAIN backlog : backlog[i] = c /\ backlog' = RemoveAt(backlog, i)
             /\ cpc'[c] # "new"
    <3>1. IsInjective(backlog') /\ ToSet(backlog') = ToSet(backlog) \ {c}
      <4>1. PICK i \in DOMAIN backlog : backlog[i] = c /\ backlog' = RemoveAt(backlog, i)
        BY <2>3
      <4> QED
        BY <4>1, BacklogReset
    <3> QED
      BY <2>1, <2>3, <3>1, Listed DEF Placed
  <2>4. CASE backlog' = backlog /\ cpc'[c] # "new"
    BY <2>1, <2>4, Listed DEF Placed
  <2> QED
    BY <1>6, <2>2, <2>3, <2>4
    DEF ClientStep, Connect, ConnectRefused, ConnectionReset, ConnectionLost, MakeOffer,
        SendNoOffer, SendBye, IgnoreAck, ReadAnswer, Receives, Die, serverVars, clientVars,
        TypeOK, Set
<1> QED
  BY <1>1, <1>2, <1>3, <1>4, <1>5, <1>6 DEF Next, MainStep, PoolStep

\* Every step keeps the exit final.
LEMMA ExitedStep ==
  ASSUME TypeOK, Placed, Exited, [Next]_vars
  PROVE  Exited'
<1>1. CASE UNCHANGED vars
  BY <1>1 DEF vars, serverVars, poolVars, threadVars, clientVars, Exited
<1>2. CASE MainStep \/ TakeTask \/ \E c \in Client : RunFirst(c)
  BY <1>2, AcceptExecutes
  DEF MainStep, AcceptFirst, AcceptNext, AcceptFails, TakeTask, RunFirst, serverVars, Exited
<1>3. ASSUME NEW c \in Client, ThreadStep(c), ~ConnectionBreaks(c) PROVE Exited'
  BY <1>3, ThreadStepLocal DEF Exited
<1>4. ASSUME NEW c \in Client, ConnectionBreaks(c) PROVE Exited'
  BY <1>4 DEF ConnectionBreaks, Exited
<1>5. ASSUME NEW c \in Client, ClientStep(c) \/ Die(c), main = "exited" PROVE Exited'
  <2>1. UNCHANGED <<main, listening, waiting, workers, tpc>>
    BY <1>5, ClientStepLocal DEF poolVars, threadVars
  <2>2. ~listening /\ backlog = <<>>
    BY <1>5 DEF Exited
  <2>3. backlog' = backlog
    <3>1. DOMAIN backlog = {}
      BY <2>2
    <3> QED
      BY <1>5, <2>2, <3>1
      DEF ClientStep, Connect, ConnectRefused, ConnectionReset, ConnectionLost, MakeOffer,
          SendNoOffer, SendBye, IgnoreAck, ReadAnswer, Die, serverVars
  <2> QED
    BY <2>1, <2>3 DEF Exited
<1>6. ASSUME NEW c \in Client, ClientStep(c) \/ Die(c), main # "exited" PROVE Exited'
  BY <1>6, ClientStepLocal DEF Exited
<1> QED
  BY <1>1, <1>2, <1>3, <1>4, <1>5, <1>6 DEF Next, PoolStep

\* What is in a stream when its only message, or the first of two, is read.
LEMMA ShortStreams ==
  ASSUME NEW e, NEW f
  PROVE  /\ Append(<<>>, e) = <<e>> /\ <<e>> # <<>> /\ Append(<<e>>, f) = <<e, f>>
         /\ Head(<<e>>) = e /\ Tail(<<e>>) = <<>>
         /\ <<e, f>> # <<>> /\ Head(<<e, f>>) = e /\ Tail(<<e, f>>) = <<f>>
<1>1. Append(<<>>, e) = <<e>>
  OBVIOUS
<1>2. <<e>> # <<>>
  OBVIOUS
<1>3. Append(<<e>>, f) = <<e, f>>
  <2> DEFINE s == <<e>>
             t == Append(s, f)
             u == <<e, f>>
  <2>1. s \in Seq({e, f}) /\ Len(s) = 1 /\ s[1] = e
    OBVIOUS
  <2>2. u \in Seq({e, f}) /\ Len(u) = 2 /\ u[1] = e /\ u[2] = f
    OBVIOUS
  <2> HIDE DEF s, u
  <2>3. t \in Seq({e, f}) /\ Len(t) = 2 /\ t[1] = e /\ t[2] = f
    <3> DEFINE E == {e, f}
    <3>1. f \in E /\ s \in Seq(E)
      BY <2>1
    <3> HIDE DEF E
    <3>2. /\ t \in Seq(E) /\ Len(t) = Len(s) + 1
          /\ \A i \in 1..Len(s) : t[i] = s[i]
          /\ t[Len(s) + 1] = f
      BY <3>1, AppendProperties
    <3>3. 1 \in 1..Len(s) /\ Len(s) + 1 = 2
      BY <2>1
    <3>4. t[2] = f
      BY <3>2, <3>3
    <3> QED
      BY <2>1, <3>2, <3>3, <3>4 DEF E
  <2> HIDE DEF t
  <2>4. \A i \in 1..2 : t[i] = u[i]
    BY <2>2, <2>3
  <2>5. t = u
    BY <2>2, <2>3, <2>4, SeqEqual
  <2> QED
    BY <2>5 DEF s, t, u
<1>4. Head(<<e>>) = e
  OBVIOUS
<1>5. Tail(<<e>>) = <<>>
  OBVIOUS
<1>6. <<e, f>> # <<>>
  OBVIOUS
<1>7. Head(<<e, f>>) = e
  OBVIOUS
<1>8. Tail(<<e, f>>) = <<f>>
  OBVIOUS
<1> QED
  BY <1>1, <1>2, <1>3, <1>4, <1>5, <1>6, <1>7, <1>8

\* Every step keeps the types.
LEMMA TypeStep ==
  ASSUME TypeOK, Placed, Exited, PoolFinite, Counted, [Next]_vars
  PROVE  TypeOK'
<1>0. /\ workers' \in 0..COREPOOL /\ Idle' >= 0
      /\ waiting' # <<>> => workers' = COREPOOL
  BY PoolKept
<1>1. CASE UNCHANGED vars \/ AcceptFails
  BY <1>0, <1>1 DEF vars, AcceptFails, serverVars, poolVars, threadVars, clientVars, streams, TypeOK
<1>2. CASE AcceptFirst \/ AcceptNext
  <2>1. /\ backlog' \in Seq(Client) /\ clientSockets' \in Seq(Client)
        /\ main' \in {"gather", "accept"}
        /\ UNCHANGED <<listening, price, got, clientVars, streams>>
    BY <1>2, AcceptExecutes
  <2>2. /\ waiting' \in Seq(Client)
        /\ tpc' \in [Client -> {"none", "queued", "spawned", "header", "price", "read", "judge",
                                "close", "done"}]
    <3>1. CASE UNCHANGED <<poolVars, tpc>>
      BY <3>1 DEF poolVars, TypeOK
    <3>2. ASSUME NEW cs \in Seq(Client), IsInjective(cs), execute(cs),
                 \A c \in ToSet(cs) : tpc[c] = "none"
          PROVE  /\ waiting' \in Seq(Client)
                 /\ tpc' \in [Client -> {"none", "queued", "spawned", "header", "price", "read", "judge",
                                         "close", "done"}]
      BY <3>2, ExecuteStep DEF TypeOK
    <3> QED
      BY <1>2, <3>1, <3>2, AcceptExecutes
  <2> QED
    BY <1>0, <2>1, <2>2 DEF TypeOK, clientVars, streams
<1>3. CASE TakeTask \/ \E c \in Client : RunFirst(c)
  BY <1>0, <1>3, NextTask
  DEF TakeTask, RunFirst, Start, Set, serverVars, poolVars, clientVars, streams, TypeOK
<1>4. ASSUME NEW c \in Client, ThreadStep(c) PROVE TypeOK'
  <2>1. ASSUME NEW p \in Amounts, SendPrice(c, p) PROVE TypeOK'
    <3>1. toClient[c] \in Seq(ToClient) /\ Price(p) \in ToClient
      BY DEF ToClient, TypeOK
    <3>2. toClient' \in [Client -> Seq(ToClient)]
      BY <2>1, <3>1 DEF SendPrice, Deliver, Send, TypeOK
    <3>3. price' \in [Client -> Amounts \cup {0}]
      BY <2>1 DEF SendPrice, Set, TypeOK
    <3> QED
      BY <1>0, <2>1, <3>2, <3>3 DEF SendPrice, Set, serverVars, poolVars, clientVars, TypeOK
  <2>2. CASE ReadOffer(c)
    <3>1. Head(toServer[c]) \in ToServer /\ Tail(toServer[c]) \in Seq(ToServer)
      BY <2>2 DEF ReadOffer, TypeOK
    <3> QED
      BY <1>0, <2>2, <3>1
      DEF ReadOffer, Set, Drop, serverVars, poolVars, clientVars, TypeOK
  <2>3. CASE Answer(c)
    <3>1. toClient[c] \in Seq(ToClient) /\ Ack(got[c] > price[c]) \in ToClient
      <4>1. Ack(got[c] > price[c]) \in {Ack(TRUE), Ack(FALSE)}
        BY DEF Ack
      <4> QED
        BY <4>1 DEF ToClient, TypeOK
    <3>2. toClient' \in [Client -> Seq(ToClient)]
      BY <2>3, <3>1 DEF Answer, Deliver, Send, TypeOK
    <3>3. NoOffer \in ToServer
      BY DEF ToServer
    <3> QED
      BY <1>0, <2>3, <3>2, <3>3 DEF Answer, Set, serverVars, poolVars, clientVars, TypeOK
  <2>4. CASE CheckLast(c)
    <3>1. NoOffer \in ToServer
      BY DEF ToServer
    <3>2. listening' \in BOOLEAN
      BY <2>4 DEF CheckLast, TypeOK
    <3> QED
      BY <1>0, <2>4, <3>1, <3>2
      DEF CheckLast, Set, poolVars, clientVars, streams, TypeOK
  <2>6. CASE HeaderFails(c) \/ Return(c)
    BY <1>0, <2>6 DEF HeaderFails, Return, Set, serverVars, poolVars, clientVars, streams, TypeOK
  <2>5. CASE ConnectionBreaks(c)
    <3>1. NoOffer \in ToServer /\ <<>> \in Seq(Client)
      BY EmptyDistinct DEF ToServer
    <3> QED
      BY <1>0, <2>5, <3>1 DEF ConnectionBreaks, clientVars, streams, TypeOK
  <2> QED
    BY <1>4, <2>1, <2>2, <2>3, <2>4, <2>5, <2>6 DEF ThreadStep
<1>5. ASSUME NEW c \in Client, ClientStep(c) \/ Die(c) PROVE TypeOK'
  <2>1. UNCHANGED <<main, listening, clientSockets, poolVars, threadVars>>
    BY <1>5, ClientStepLocal
  <2>2. backlog' \in Seq(Client)
    <3>1. backlog \in Seq(Client) /\ Append(backlog, c) \in Seq(Client)
      BY DEF TypeOK
    <3>2. \A i \in DOMAIN backlog : RemoveAt(backlog, i) \in Seq(Client)
      BY BacklogReset
    <3>3. CASE ClientStep(c)
      BY <3>1, <3>2, <3>3
      DEF ClientStep, Connect, ConnectRefused, ConnectionReset, ConnectionLost, MakeOffer,
          SendNoOffer, SendBye, IgnoreAck, ReadAnswer, serverVars
    <3>4. CASE Die(c)
      BY <3>1, <3>4 DEF Die
    <3> QED
      BY <1>5, <3>3, <3>4
  <2>3. cpc' \in [Client -> {"new", "loop", "ack", "done", "failed", "mute", "dead"}]
    BY <1>5
    DEF ClientStep, Connect, ConnectRefused, ConnectionReset, ConnectionLost, MakeOffer,
        SendNoOffer, SendBye, IgnoreAck, ReadAnswer, Die, clientVars, Set, TypeOK
  <2>4. purchases' \in [Client -> 0..QUOTA]
    <3>1. CASE ReadAnswer(c)
      <4>1. purchases[c] \in 0..QUOTA /\ purchases[c] < QUOTA
        BY <3>1 DEF ReadAnswer, Counted, TypeOK
      <4>2. purchases[c] + 1 \in 0..QUOTA
        BY <4>1, QuotaAssumption
      <4> QED
        BY <3>1, <4>2 DEF ReadAnswer, TypeOK
    <3> QED
      BY <1>5, <3>1
      DEF ClientStep, Connect, ConnectRefused, ConnectionReset, ConnectionLost, MakeOffer,
          SendNoOffer, SendBye, IgnoreAck, Die, clientVars, TypeOK
  <2>5. toClient' \in [Client -> Seq(ToClient)]
    <3>1. <<>> \in Seq(ToClient) /\ (toClient[c] # <<>> => Tail(toClient[c]) \in Seq(ToClient))
      BY DEF TypeOK
    <3> QED
      BY <1>5, <3>1
      DEF ClientStep, Connect, ConnectRefused, ConnectionReset, ConnectionLost, MakeOffer,
          SendNoOffer, SendBye, IgnoreAck, ReadAnswer, Receives, Die, streams, Set, Drop, TypeOK
  <2>6. toServer' \in [Client -> Seq(ToServer)]
    <3>1. /\ <<>> \in Seq(ToServer)
          /\ \A m \in ToServer : Append(toServer[c], m) \in Seq(ToServer)
          /\ Amounts \subseteq ToServer /\ NoOffer \in ToServer /\ Bye \in ToServer
      BY DEF TypeOK, ToServer
    <3>2. CASE MakeOffer(c) \/ SendNoOffer(c) \/ SendBye(c)
      <4>1. PICK m \in ToServer : toServer' = Send(toServer, c, m)
        BY <3>1, <3>2 DEF MakeOffer, SendNoOffer, SendBye
      <4> QED
        BY <3>1, <4>1 DEF Send, TypeOK
    <3>3. CASE ConnectionLost(c)
      BY <3>1, <3>3 DEF ConnectionLost, Set, TypeOK
    <3>4. CASE UNCHANGED toServer
      BY <3>4 DEF TypeOK
    <3> QED
      BY <1>5, <3>2, <3>3, <3>4
      DEF ClientStep, Connect, ConnectRefused, ConnectionReset, IgnoreAck, ReadAnswer, Die, streams
  <2> QED
    BY <1>0, <2>1, <2>2, <2>3, <2>4, <2>5, <2>6 DEF threadVars, poolVars, TypeOK
<1> QED
  BY <1>1, <1>2, <1>3, <1>4, <1>5 DEF Next, MainStep, PoolStep

\* Every step keeps the counts of the purchases.
LEMMA CountedStep ==
  ASSUME TypeOK, Counted, [Next]_vars
  PROVE  Counted'
<1>1. CASE UNCHANGED clientVars
  BY <1>1 DEF clientVars, Counted
<1>2. ASSUME NEW c \in Client, ClientStep(c) \/ Die(c) PROVE Counted'
  <2>1. \A d \in Client \ {c} : UNCHANGED <<cpc[d], purchases[d]>>
    BY <1>2, ClientStepLocal
  <2>2. purchases[c] \in 0..QUOTA /\ QUOTA \in Nat
    BY QuotaAssumption DEF TypeOK
  <2>3. /\ cpc'[c] = "ack" => purchases'[c] < QUOTA
        /\ cpc'[c] = "done" => purchases'[c] = QUOTA
    <3>1. CASE MakeOffer(c)
      BY <3>1 DEF MakeOffer, Wants, Set, TypeOK
    <3>2. CASE SendBye(c)
      BY <2>2, <3>2 DEF SendBye, Wants, Set, TypeOK
    <3> QED
      BY <1>2, <3>1, <3>2
      DEF ClientStep, Connect, ConnectRefused, ConnectionReset, ConnectionLost, SendNoOffer,
          IgnoreAck, ReadAnswer, Receives, Die, clientVars, Set, Counted, TypeOK
  <2> QED
    BY <2>1, <2>3 DEF Counted
<1>3. ASSUME NEW c \in Client, ThreadStep(c) PROVE UNCHANGED clientVars
  BY <1>3 DEF ThreadStep, HeaderFails, SendPrice, ReadOffer, Answer, CheckLast, Return,
              ConnectionBreaks
<1> QED
  BY <1>1, <1>2, <1>3
  DEF Next, MainStep, PoolStep, AcceptFirst, AcceptNext, AcceptFails, TakeTask, RunFirst, vars

\* Messages of different kinds differ, and so do those of different values.
LEMMA Messages ==
  /\ \A p : Price(p).type = "PRICE" /\ Price(p).value = p
  /\ \A b \in BOOLEAN : Ack(b).type = "ACK"
  /\ \A p, q : Price(p) = Price(q) => p = q
  /\ \A p : Price(p) \notin {Ack(TRUE), Ack(FALSE)}
  /\ Ack(TRUE) # Ack(FALSE)
BY DEF Price, Ack

\* A client that has something to read is being served: it reads the
\* acknowledgement it waits for or will drop, which a price may follow, or the
\* current price of its thread.
LEMMA Received ==
  ASSUME TypeOK, Placed, NEW c \in Client, Paired(c), Talking(c), toClient[c] # <<>>
  PROVE  /\ ~Pending(c) /\ tpc[c] \notin {"none", "queued", "spawned", "judge"}
         /\ tpc[c] \in {"price", "read"} => toServer[c] = <<>>
         /\ \/ /\ Head(toClient[c]) = Ack(cpc[c] = "ack")
               /\ Tail(toClient[c]) = <<>> /\ tpc[c] # "read"
            \/ /\ Head(toClient[c]) = Ack(cpc[c] = "ack")
               /\ \E p \in Amounts : /\ Tail(toClient[c]) = <<Price(p)>>
                                     /\ tpc[c] = "read" => p = price[c]
               /\ tpc[c] # "price"
            \/ /\ cpc[c] = "loop" /\ tpc[c] # "price"
               /\ \E p \in Amounts : /\ Head(toClient[c]) = Price(p)
                                     /\ tpc[c] = "read" => p = price[c]
               /\ Tail(toClient[c]) = <<>>
<1> DEFINE a == Ack(cpc[c] = "ack")
<1>1. /\ a \in {Ack(TRUE), Ack(FALSE)}
      /\ \A u \in Unread(c) : u = <<a>> \/ (u = <<>> /\ cpc[c] = "loop")
  BY DEF Unread, Talking
<1>2. tpc[c] \notin {"none", "queued", "spawned", "judge"}
  BY DEF Paired, Answered
<1>3. ~Pending(c)
  BY <1>2 DEF Pending, Placed
<1>4. tpc[c] = "read" =>
        toServer[c] = <<>> /\ \E u \in Unread(c) : toClient[c] = Append(u, Price(price[c]))
  BY DEF Paired, Answered
<1>5. tpc[c] = "price" => toServer[c] = <<>> /\ toClient[c] \in Unread(c)
  BY DEF Paired
<1> HIDE DEF a
<1>6. CASE toClient[c] = <<a>>
  <2>1. Head(toClient[c]) = a /\ Tail(toClient[c]) = <<>>
    BY <1>6, ShortStreams
  <2>2. \A q, u : u \in Unread(c) => Append(u, Price(q)) # <<a>>
    <3> SUFFICES ASSUME NEW q, NEW u \in Unread(c), Append(u, Price(q)) = <<a>> PROVE FALSE
      OBVIOUS
    <3>1. CASE u = <<a>>
      <4>1. Tail(<<a>>) = <<Price(q)>> /\ Tail(<<a>>) = <<>> /\ <<Price(q)>> # <<>>
        BY <3>1, ShortStreams
      <4> QED
        BY <4>1
    <3>2. CASE u = <<>>
      <4>1. Head(<<a>>) = Price(q) /\ Head(<<a>>) = a
        BY <3>2, ShortStreams
      <4> QED
        BY <1>1, <4>1, Messages
    <3> QED
      BY <1>1, <3>1, <3>2
  <2>3. tpc[c] # "read"
    BY <1>4, <1>6, <2>2
  <2> QED
    BY <1>2, <1>3, <1>5, <2>1, <2>3 DEF a
<1>7. ASSUME NEW p \in Amounts, toClient[c] = <<a, Price(p)>>
      PROVE  /\ Head(toClient[c]) = a
             /\ Tail(toClient[c]) = <<Price(p)>> /\ (tpc[c] = "read" => p = price[c])
             /\ tpc[c] # "price"
  <2>1. Head(toClient[c]) = a /\ Tail(toClient[c]) = <<Price(p)>> /\ <<Price(p)>> # <<>>
    BY <1>7, ShortStreams
  <2>2. tpc[c] # "price"
    <3>1. Tail(<<a>>) = <<>>
      BY ShortStreams
    <3> QED
      BY <1>1, <1>5, <2>1, <3>1
  <2>3. ASSUME tpc[c] = "read" PROVE p = price[c]
    <3>1. PICK u \in Unread(c) : toClient[c] = Append(u, Price(price[c]))
      BY <1>4, <2>3
    <3>2. CASE u = <<a>>
      <4>1. toClient[c] = <<a, Price(price[c])>>
        BY <3>1, <3>2, ShortStreams
      <4>2. Tail(<<a, Price(price[c])>>) = <<Price(price[c])>>
        BY ShortStreams
      <4>3. <<Price(p)>> = <<Price(price[c])>>
        BY <2>1, <4>1, <4>2
      <4>4. Head(<<Price(p)>>) = Price(p) /\ Head(<<Price(price[c])>>) = Price(price[c])
        BY ShortStreams
      <4> QED
        BY <4>3, <4>4, Messages
    <3>3. CASE u = <<>>
      <4>1. Head(toClient[c]) = Price(price[c])
        BY <3>1, <3>3, ShortStreams
      <4> QED
        BY <1>1, <2>1, <4>1, Messages
    <3> QED
      BY <1>1, <3>2, <3>3
  <2> QED
    BY <2>1, <2>2, <2>3
<1>8. ASSUME NEW p \in Amounts, toClient[c] = <<Price(p)>>, cpc[c] = "loop"
      PROVE  /\ Head(toClient[c]) = Price(p) /\ (tpc[c] = "read" => p = price[c])
             /\ Tail(toClient[c]) = <<>> /\ tpc[c] # "price"
  <2>1. Head(toClient[c]) = Price(p) /\ Tail(toClient[c]) = <<>>
    BY <1>8, ShortStreams
  <2>2. tpc[c] # "price"
    <3>1. Head(<<a>>) = a
      BY ShortStreams
    <3> QED
      BY <1>1, <1>5, <2>1, <3>1, Messages
  <2>3. ASSUME tpc[c] = "read" PROVE p = price[c]
    <3>1. PICK u \in Unread(c) : toClient[c] = Append(u, Price(price[c]))
      BY <1>4, <2>3
    <3>2. CASE u = <<a>>
      <4>1. Head(toClient[c]) = a
        BY <3>1, <3>2, ShortStreams
      <4> QED
        BY <1>1, <2>1, <4>1, Messages
    <3>3. CASE u = <<>>
      <4>1. Head(toClient[c]) = Price(price[c])
        BY <3>1, <3>3, ShortStreams
      <4> QED
        BY <2>1, <4>1, Messages
    <3> QED
      BY <1>1, <3>2, <3>3
  <2> QED
    BY <2>1, <2>2, <2>3
<1>9. \/ toClient[c] = <<a>>
      \/ \E p \in Amounts : toClient[c] = <<a, Price(p)>>
      \/ cpc[c] = "loop" /\ \E p \in Amounts : toClient[c] = <<Price(p)>>
  <2>1. CASE toClient[c] \in Unread(c) \cup {<<>>}
    BY <1>1, <2>1
  <2>2. ASSUME NEW u \in Unread(c), NEW p \in Amounts, toClient[c] = Append(u, Price(p))
        PROVE  \/ toClient[c] = <<a, Price(p)>>
               \/ cpc[c] = "loop" /\ toClient[c] = <<Price(p)>>
    <3>1. Append(<<>>, Price(p)) = <<Price(p)>> /\ Append(<<a>>, Price(p)) = <<a, Price(p)>>
      BY ShortStreams
    <3> QED
      BY <1>1, <2>2, <3>1
  <2> QED
    BY <2>1, <2>2 DEF Paired
<1> QED
  BY <1>2, <1>3, <1>4, <1>5, <1>6, <1>7, <1>8, <1>9 DEF a

\* What a connection's pairing depends on.
LEMMA PairedStays ==
  ASSUME NEW c \in Client, Paired(c), Pending(c)' => Pending(c),
         UNCHANGED <<tpc[c], price[c], got[c], cpc[c], toClient[c], toServer[c]>>
  PROVE  Paired(c)'
BY DEF Paired, Unread, Answered, Talking

\* A step of the main thread or the pool starts threads for connected clients
\* that have not been sent anything.
LEMMA InStepMain ==
  ASSUME TypeOK, Placed, PoolFinite, InStep, MainStep \/ PoolStep
  PROVE  InStep'
<1>0. UNCHANGED <<clientVars, streams, price, got>>
  BY AcceptExecutes
  DEF MainStep, PoolStep, AcceptFails, TakeTask, RunFirst, threadVars, clientVars, streams
<1> SUFFICES ASSUME NEW c \in Client \ Dead PROVE Paired(c)'
  BY <1>0 DEF InStep, Dead, clientVars
<1>1. Paired(c) /\ cpc[c] \notin {"mute", "dead"}
  BY DEF InStep, Dead
<1>2. CASE AcceptFails
  BY <1>1, <1>2, PairedStays
  DEF AcceptFails, Pending, threadVars, clientVars, streams
<1>3. CASE AcceptFirst \/ AcceptNext
  <2>1. /\ Pending(c)' => Pending(c)
        /\ \/ tpc'[c] = tpc[c]
           \/ Pending(c) /\ tpc[c] = "none" /\ tpc'[c] \in {"queued", "spawned"}
    <3>1. ToSet(backlog') \subseteq ToSet(backlog)
      BY <1>3, AcceptExecutes
    <3>2. CASE /\ main' = main /\ main = "gather" /\ UNCHANGED <<poolVars, tpc>>
               /\ \A d \in ToSet(clientSockets') :
                    Pending(d) /\ cpc[d] # "new" /\ d \notin ToSet(backlog')
      BY <3>1, <3>2 DEF Pending
    <3>3. ASSUME main' = "accept", NEW cs \in Seq(Client), IsInjective(cs), execute(cs),
                 \A d \in ToSet(cs) : Pending(d) /\ tpc[d] = "none" /\ cpc[d] # "new"
          PROVE  /\ Pending(c)' => Pending(c)
                 /\ \/ tpc'[c] = tpc[c]
                    \/ Pending(c) /\ tpc[c] = "none" /\ tpc'[c] \in {"queued", "spawned"}
      <4>1. tpc' = [d \in Client |->
                      IF d \notin ToSet(cs) THEN tpc[d]
                      ELSE IF d \in ToSet(waiting') THEN "queued" ELSE "spawned"]
        BY <3>3, ExecuteStep
      <4> QED
        BY <3>1, <3>3, <4>1 DEF Pending
    <3> QED
      BY <1>3, <3>2, <3>3, AcceptExecutes
  <2>2. CASE tpc'[c] = tpc[c]
    BY <1>0, <1>1, <2>1, <2>2, PairedStays DEF clientVars, streams
  <2>3. CASE Pending(c) /\ tpc[c] = "none" /\ tpc'[c] \in {"queued", "spawned"}
    BY <1>0, <1>1, <2>3 DEF Paired, Unread, Answered, Talking, clientVars, streams
  <2> QED
    BY <2>1, <2>2, <2>3
<1>4. CASE PoolStep
  <2>1. PICK d \in Client :
          tpc[d] \in {"queued", "spawned"} /\ tpc' = Set(tpc, d, Start(d))
    BY <1>4, NextTask DEF PoolStep, TakeTask, RunFirst
  <2>2. Pending(c)' => Pending(c)
    BY <1>4 DEF PoolStep, TakeTask, RunFirst, Pending, serverVars
  <2>3. CASE d = c
    <3>1. tpc'[c] = "price"
      BY <1>1, <2>1, <2>3 DEF Set, Start, TypeOK
    <3>2. cpc[c] = "loop" /\ toClient[c] = <<>> /\ toServer[c] = <<>>
      BY <1>1, <2>1, <2>3 DEF Paired
    <3> QED
      BY <1>0, <3>1, <3>2 DEF Paired, Unread, Talking, clientVars, streams
  <2>4. CASE d # c
    <3>1. tpc'[c] = tpc[c]
      BY <2>1, <2>4 DEF Set, TypeOK
    <3> QED
      BY <1>0, <1>1, <2>2, <3>1, PairedStays DEF clientVars, streams
  <2> QED
    BY <2>3, <2>4
<1> QED
  BY <1>2, <1>3, <1>4 DEF MainStep

\* A ServerThread sends a price, reads the answer to it and acknowledges that.
LEMMA InStepThread ==
  ASSUME TypeOK, Placed, InStep, NEW d \in Client, ThreadStep(d)
  PROVE  InStep'
<1>0. UNCHANGED clientVars
  BY DEF ThreadStep, HeaderFails, SendPrice, ReadOffer, Answer, CheckLast, Return, ConnectionBreaks
<1> SUFFICES ASSUME NEW c \in Client \ Dead PROVE Paired(c)'
  BY <1>0 DEF InStep, Dead, clientVars
<1>1. Paired(c) /\ cpc[c] \notin {"mute", "dead"} /\ cpc' = cpc
  BY <1>0 DEF InStep, Dead, clientVars
<1>2. CASE ConnectionBreaks(d)
  <2>1. /\ main' = "exited" /\ backlog' = <<>> /\ UNCHANGED streams
        /\ tpc' = [e \in Client |-> IF tpc[e] = "none" THEN "none" ELSE "done"]
    BY <1>2 DEF ConnectionBreaks
  <2>2. ~Pending(c)'
    BY <2>1, EmptyDistinct DEF Pending
  <2> QED
    BY <1>1, <2>1, <2>2 DEF Paired, Unread, Talking, streams
<1>3. CASE ~ConnectionBreaks(d)
  <2>1. /\ Pending(c)' => Pending(c)
        /\ tpc[d] \in {"header", "price", "read", "judge", "close"}
        /\ d # c => UNCHANGED <<tpc[c], price[c], got[c], toClient[c], toServer[c]>>
    BY <1>3, ThreadStepLocal DEF Pending
  <2>2. ~Pending(c) \/ d # c
    BY <2>1 DEF Pending, Placed
  <2>3. CASE d # c
    BY <1>1, <2>1, <2>3, PairedStays
  <2>4. CASE d = c
    <3>1. ASSUME NEW p \in Amounts, SendPrice(c, p) PROVE Paired(c)'
      <4>1. /\ tpc[c] = "price" /\ tpc'[c] = "read" /\ price'[c] = p
            /\ toClient'[c] = Append(toClient[c], Price(p)) /\ toServer'[c] = toServer[c]
        BY <3>1 DEF SendPrice, Deliver, Send, Set, TypeOK
      <4>2. Talking(c) /\ toServer[c] = <<>> /\ toClient[c] \in Unread(c)
        BY <1>1, <4>1 DEF Paired
      <4> QED
        BY <1>1, <2>1, <2>2, <2>4, <4>1, <4>2 DEF Paired, Unread, Talking
    <3>2. CASE ReadOffer(c)
      <4>1. /\ tpc[c] = "read" /\ tpc'[c] = "judge" /\ toServer[c] # <<>>
            /\ got'[c] = Head(toServer[c]) /\ toServer'[c] = Tail(toServer[c])
            /\ UNCHANGED <<toClient, price>>
        BY <3>2 DEF ReadOffer, Drop, Set, TypeOK
      <4>2. PICK m \in ToServer : toServer[c] = <<m>> /\ Answered(c, m)
        BY <1>1, <4>1 DEF Paired
      <4>3. got'[c] = m /\ toServer'[c] = <<>>
        BY <4>1, <4>2, ShortStreams
      <4> QED
        BY <1>1, <2>1, <2>2, <2>4, <4>1, <4>2, <4>3 DEF Paired, Unread, Talking, Answered
    <3>3. CASE Answer(c)
      <4>1. /\ tpc[c] = "judge" /\ tpc'[c] = "price" /\ got[c] # Bye
            /\ toClient'[c] = Append(toClient[c], Ack(got[c] > price[c]))
            /\ UNCHANGED toServer
        BY <1>1, <3>3 DEF Answer, Deliver, Send, Set, TypeOK, Dead
      <4>2. toServer[c] = <<>> /\ Answered(c, got[c])
        BY <1>1, <4>1 DEF Paired
      <4>3. toClient'[c] = <<Ack(got[c] > price[c])>>
        BY <4>1, <4>2, ShortStreams DEF Answered
      <4>4. CASE got[c] \in Amounts /\ got[c] > price[c] /\ cpc[c] = "ack"
        <5>1. toClient'[c] = <<Ack(TRUE)>>
          BY <4>3, <4>4 DEF Ack
        <5> QED
          BY <1>1, <2>1, <2>2, <2>4, <4>1, <4>2, <4>4, <5>1 DEF Paired, Unread, Talking
      <4>5. CASE got[c] = NoOffer /\ cpc[c] = "loop"
        <5>1. ~(got[c] > price[c])
          <6>1. price[c] \in Amounts \cup {0}
            BY DEF TypeOK
          <6>2. price[c] \in Nat
            <7>1. \A p \in Amounts : p \in Nat
              BY AmountsAssumption
            <7>2. 0 \in Nat
              OBVIOUS
            <7> QED
              BY <6>1, <7>1, <7>2, Zenon
          <6>3. got[c] = 0
            BY <4>5 DEF NoOffer
          <6> QED
            BY <6>2, <6>3
        <5>2. toClient'[c] = <<Ack(FALSE)>>
          BY <4>3, <5>1 DEF Ack
        <5> QED
          BY <1>1, <2>1, <2>2, <2>4, <4>1, <4>2, <4>5, <5>2 DEF Paired, Unread, Talking
      <4> QED
        BY <4>1, <4>2, <4>4, <4>5 DEF Answered
    <3>4. CASE CheckLast(c)
      <4>1. /\ tpc[c] = "judge" /\ tpc'[c] = "close" /\ UNCHANGED streams
        BY <3>4 DEF CheckLast, Set, TypeOK
      <4> QED
        BY <1>1, <2>1, <2>2, <2>4, <4>1 DEF Paired, Unread, Talking, streams
    <3>5. CASE HeaderFails(c) \/ Return(c)
      <4>1. /\ tpc[c] \in {"header", "close"} /\ tpc'[c] = "done" /\ UNCHANGED streams
        BY <3>5 DEF HeaderFails, Return, Set, TypeOK
      <4> QED
        BY <1>1, <2>1, <2>2, <2>4, <4>1 DEF Paired, Unread, Talking, streams
    <3> QED
      BY <1>3, <2>4, <3>1, <3>2, <3>3, <3>4, <3>5 DEF ThreadStep
  <2> QED
    BY <2>3, <2>4
<1> QED
  BY <1>2, <1>3

\* A client answers a price, waits for the acknowledgement of an offer, and
\* drops what acknowledges an offer of 0.
LEMMA InStepClient ==
  ASSUME TypeOK, Placed, Exited, InStep, NEW d \in Client, ClientStep(d) \/ Die(d)
  PROVE  InStep'
<1>1. /\ UNCHANGED <<main, listening, clientSockets, poolVars, threadVars>>
      /\ \A e \in Client \ {d} : UNCHANGED <<cpc[e], purchases[e], toClient[e], toServer[e]>>
  BY ClientStepLocal
<1>2. /\ cpc[d] \notin {"mute", "dead"}
      /\ \/ backlog' = backlog
         \/ backlog' = Append(backlog, d) /\ cpc[d] = "new"
         \/ \E i \in DOMAIN backlog : backlog' = RemoveAt(backlog, i)
  <2>1. CASE Die(d)
    BY <2>1 DEF Die
  <2>2. CASE ClientStep(d)
    BY <2>2 DEF ClientStep, Connect, ConnectRefused, ConnectionReset, ConnectionLost, MakeOffer,
                SendNoOffer, SendBye, IgnoreAck, ReadAnswer, Receives, serverVars
  <2> QED
    BY <2>1, <2>2
<1>3. \A e \in Client \ {d} : Pending(e)' => Pending(e)
  <2>1. CASE backlog' = backlog
    BY <1>1, <2>1 DEF Pending
  <2>2. CASE backlog' = Append(backlog, d) /\ cpc[d] = "new"
    <3>1. ToSet(backlog') = ToSet(backlog) \cup {d}
      <4>1. d \notin ToSet(backlog)
        BY <2>2 DEF Placed
      <4> QED
        BY <2>2, <4>1, AppendDistinct DEF TypeOK, Placed
    <3> QED
      BY <1>1, <3>1 DEF Pending
  <2>3. ASSUME NEW i \in DOMAIN backlog, backlog' = RemoveAt(backlog, i)
        PROVE  \A e \in Client \ {d} : Pending(e)' => Pending(e)
    <3>1. ToSet(RemoveAt(backlog, i)) = ToSet(backlog) \ {backlog[i]}
      BY BacklogReset
    <3> QED
      BY <1>1, <2>3, <3>1 DEF Pending
  <2> QED
    BY <1>2, <2>1, <2>2, <2>3
<1>4. ASSUME NEW e \in Client \ Dead', e # d PROVE Paired(e)'
  <2>1. Paired(e)
    BY <1>1, <1>4 DEF InStep, Dead
  <2> QED
    BY <1>1, <1>3, <1>4, <2>1, PairedStays DEF threadVars
<1>5. ASSUME d \notin Dead' PROVE Paired(d)'
  <2>1. Paired(d)
    BY <1>2 DEF InStep, Dead
  <2>2. ~Die(d)
    BY <1>5 DEF Die, Dead, Set, TypeOK
  <2>3. CASE Connect(d)
    <3>1. cpc[d] = "new" /\ cpc'[d] = "loop" /\ UNCHANGED streams
      BY <2>3 DEF Connect, Set, TypeOK
    <3>2. tpc[d] = "none"
      BY <3>1 DEF Placed
    <3> QED
      BY <1>1, <2>1, <3>1, <3>2 DEF Paired, Unread, Talking, streams, threadVars
  <2>4. CASE ConnectRefused(d)
    <3>1. cpc[d] = "new" /\ cpc'[d] = "failed" /\ UNCHANGED <<backlog, streams>>
      BY <2>4 DEF ConnectRefused, serverVars, Set, TypeOK
    <3>2. tpc[d] = "none" /\ ~Pending(d)'
      BY <1>1, <3>1 DEF Placed, Pending
    <3> QED
      BY <1>1, <2>1, <3>1, <3>2 DEF Paired, Unread, Talking, streams, threadVars
  <2>5. CASE ConnectionReset(d)
    <3>1. cpc'[d] = "failed" /\ UNCHANGED streams
      BY <2>5 DEF ConnectionReset, Set, TypeOK
    <3>2. PICK i \in DOMAIN backlog : backlog[i] = d /\ backlog' = RemoveAt(backlog, i)
      BY <2>5 DEF ConnectionReset
    <3>3. d \in ToSet(backlog) /\ ToSet(RemoveAt(backlog, i)) = ToSet(backlog) \ {backlog[i]}
      BY <3>2, BacklogReset
    <3>4. tpc[d] = "none" /\ ~Pending(d)'
      BY <1>1, <3>2, <3>3 DEF Placed, Pending
    <3> QED
      BY <1>1, <2>1, <3>1, <3>4 DEF Paired, Unread, Talking, streams, threadVars
  <2>6. CASE ConnectionLost(d)
    <3>1. /\ main = "exited" /\ cpc'[d] = "failed" /\ UNCHANGED backlog
          /\ toClient'[d] = <<>> /\ toServer'[d] = <<>>
      BY <2>6 DEF ConnectionLost, serverVars, Set, TypeOK
    <3>2. tpc[d] \in {"none", "done"} /\ backlog = <<>> /\ ToSet(<<>>) = {}
      BY <3>1, EmptyDistinct DEF Exited
    <3>3. ~Pending(d)'
      BY <1>1, <3>1, <3>2 DEF Pending
    <3> QED
      BY <1>1, <3>1, <3>2, <3>3 DEF Paired, Unread, Talking, threadVars
  <2>7. CASE MakeOffer(d) \/ SendNoOffer(d) \/ SendBye(d)
    <3>1. /\ cpc[d] = "loop" /\ toClient[d] # <<>> /\ Head(toClient[d]).type = "PRICE"
          /\ toClient'[d] = Tail(toClient[d]) /\ UNCHANGED backlog
      BY <2>7 DEF MakeOffer, SendNoOffer, SendBye, Receives, Drop, serverVars, TypeOK
    <3>2. /\ ~Pending(d) /\ tpc[d] \notin {"none", "queued", "spawned", "judge", "price"}
          /\ tpc[d] = "read" => toServer[d] = <<>>
          /\ toClient'[d] = <<>>
          /\ \E p \in Amounts : /\ Head(toClient[d]) = Price(p)
                                /\ tpc[d] = "read" => p = price[d]
      BY <2>1, <3>1, Received, Messages DEF Talking
    <3>3. PICK p \in Amounts : Head(toClient[d]).value = p /\ (tpc[d] = "read" => p = price[d])
      BY <3>2, Messages
    <3>4. \E m \in ToServer :
            /\ toServer'[d] = Append(toServer[d], m)
            /\ \/ m \in Amounts /\ m > p /\ cpc'[d] = "ack"
               \/ m = NoOffer /\ cpc'[d] = "loop"
               \/ m = Bye /\ cpc'[d] = "done"
      <4>1. CASE MakeOffer(d)
        <5>1. PICK o \in Amounts : Affords(o, Head(toClient[d]).value)
                                   /\ toServer' = Send(toServer, d, o)
          BY <4>1 DEF MakeOffer
        <5> QED
          BY <3>3, <4>1, <5>1 DEF MakeOffer, Affords, Send, Set, ToServer, TypeOK
      <4>2. CASE SendNoOffer(d) \/ SendBye(d)
        BY <3>1, <4>2 DEF SendNoOffer, SendBye, Send, Set, ToServer, clientVars, TypeOK
      <4> QED
        BY <2>7, <4>1, <4>2
    <3>5. PICK m \in ToServer :
            /\ toServer'[d] = Append(toServer[d], m)
            /\ \/ m \in Amounts /\ m > p /\ cpc'[d] = "ack"
               \/ m = NoOffer /\ cpc'[d] = "loop"
               \/ m = Bye /\ cpc'[d] = "done"
      BY <3>4
    <3>6. ~Pending(d)' /\ UNCHANGED <<tpc, price>>
      BY <1>1, <3>1, <3>2 DEF Pending, threadVars
    <3>7. tpc[d] = "read" => /\ toServer'[d] = <<m>>
                             /\ Answered(d, m)'
      BY <3>2, <3>3, <3>5, <3>6, ShortStreams DEF Answered
    <3> QED
      BY <3>2, <3>5, <3>6, <3>7 DEF Paired, Unread, Talking
  <2>8. CASE IgnoreAck(d) \/ ReadAnswer(d)
    <3>1. /\ Talking(d) /\ cpc'[d] = "loop" /\ toClient[d] # <<>>
          /\ toClient'[d] = Tail(toClient[d]) /\ UNCHANGED <<backlog, toServer>>
          /\ cpc[d] = "loop" => Head(toClient[d]).type = "ACK"
      BY <2>8 DEF IgnoreAck, ReadAnswer, Receives, Talking, Drop, Set, serverVars, clientVars, TypeOK
    <3>2. /\ ~Pending(d) /\ tpc[d] \notin {"none", "queued", "spawned", "judge"}
          /\ tpc[d] \in {"price", "read"} => toServer[d] = <<>>
          /\ \/ toClient'[d] = <<>> /\ tpc[d] # "read"
             \/ /\ \E p \in Amounts : /\ toClient'[d] = <<Price(p)>>
                                      /\ tpc[d] = "read" => p = price[d]
                /\ tpc[d] # "price"
      BY <2>1, <3>1, Received, Messages
    <3>3. ~Pending(d)' /\ UNCHANGED <<tpc, price>>
      BY <1>1, <3>1, <3>2 DEF Pending, threadVars
    <3>4. CASE toClient'[d] = <<>> /\ tpc[d] # "read"
      BY <3>1, <3>2, <3>3, <3>4 DEF Paired, Unread, Talking
    <3>5. ASSUME NEW p \in Amounts, toClient'[d] = <<Price(p)>>,
                 tpc[d] = "read" => p = price[d], tpc[d] # "price"
          PROVE  Paired(d)'
      <4>1. toClient'[d] = Append(<<>>, Price(p)) /\ <<>> \in Unread(d)'
        BY <3>1, <3>5, ShortStreams DEF Unread
      <4>2. Talking(d)' /\ cpc'[d] # "done"
        BY <3>1 DEF Talking
      <4> QED
        BY <3>1, <3>2, <3>3, <3>5, <4>1, <4>2 DEF Paired
    <3> QED
      BY <3>2, <3>4, <3>5
  <2> QED
    BY <2>2, <2>3, <2>4, <2>5, <2>6, <2>7, <2>8 DEF ClientStep
<1> QED
  BY <1>4, <1>5 DEF InStep

-----------------------------------------------------------------------------
\* The invariant the results follow from.
THEOREM InductiveInvariant == Spec => []IInv
<1>1. Init => IInv
  <2> SUFFICES ASSUME Init PROVE IInv
    OBVIOUS
  <2>1. <<>> \in Seq(Client) /\ IsInjective(<<>>) /\ ToSet(<<>>) = {}
    BY EmptyDistinct
  <2>2. Active = {} /\ Spawned = {}
    BY DEF Init, Active, Spawned
  <2>3. PoolFinite /\ Idle = 0
    BY <2>2, FS_EmptySet DEF Init, PoolFinite, Idle
  <2>4. TypeOK
    BY <2>1, <2>3, PoolAssumption, QuotaAssumption DEF Init, TypeOK, ToServer
  <2>5. Placed /\ Exited
    BY <2>1 DEF Init, Placed, Exited
  <2>6. InStep /\ Counted
    BY <2>1 DEF Init, InStep, Paired, Pending, Unread, Talking, Counted
  <2> QED
    BY <2>3, <2>4, <2>5, <2>6 DEF IInv
<1>2. ASSUME IInv, UNCHANGED vars PROVE InStep'
  <2>1. \A c \in Client : Pending(c)' = Pending(c)
    BY <1>2 DEF vars, serverVars, Pending
  <2> QED
    BY <1>2, <2>1, PairedStays
    DEF vars, threadVars, clientVars, streams, IInv, InStep, Dead
<1>3. IInv /\ [Next]_vars => IInv'
  <2> SUFFICES ASSUME IInv, [Next]_vars PROVE IInv'
    OBVIOUS
  <2>1. InStep'
    BY <1>2, InStepMain, InStepThread, InStepClient DEF IInv, Next
  <2>2. PoolFinite'
    BY PoolKept DEF IInv
  <2> QED
    BY <2>1, <2>2, TypeStep, PlacedStep, ExitedStep, CountedStep DEF IInv
<1> QED
  BY <1>1, <1>3, PTL DEF Spec

\* The types, in which the pool has a worker for every thread that runs.
THEOREM TypeCorrect == Spec => []TypeOK
BY InductiveInvariant, PTL DEF IInv

\* A client that waits has at the head of its stream the acknowledgement of the
\* sale it waits for, never of another.
LEMMA AwaitedIsSale ==
  ASSUME TypeOK, Placed, InStep, NEW c \in Client, cpc[c] = "ack", toClient[c] # <<>>
  PROVE  Head(toClient[c]) = Ack(TRUE)
<1>1. Paired(c) /\ Talking(c)
  BY DEF InStep, Dead, Talking
<1>2. Head(toClient[c]) = Ack(cpc[c] = "ack")
  BY <1>1, Received
<1> QED
  BY <1>2 DEF Ack

\* However far a server's acknowledgements of nothing and its prices run ahead
\* of a client: what it reads for an answer is the answer to its last offer.
THEOREM AwaitedAnswerIsSaleHolds == Spec => []AwaitedAnswerIsSale
<1>1. IInv => AwaitedAnswerIsSale
  BY AwaitedIsSale DEF IInv, AwaitedAnswerIsSale
<1> QED
  BY <1>1, InductiveInvariant, PTL

\* Nothing is on its way to a client that died or gave up.
Silent == \A c \in Client : cpc[c] \in {"mute", "dead", "failed"} => toClient[c] = <<>>

\* What is written to the dead is lost, and nobody writes to one that gave up.
LEMMA SilentStep ==
  ASSUME TypeOK, Placed, InStep, Silent, [Next]_vars
  PROVE  Silent'
<1>1. CASE UNCHANGED <<cpc, toClient>>
  BY <1>1 DEF Silent
<1>2. ASSUME NEW c \in Client, ClientStep(c) \/ Die(c) PROVE Silent'
  <2>1. \A d \in Client \ {c} : UNCHANGED <<cpc[d], toClient[d]>>
    BY <1>2, ClientStepLocal
  <2>2. CASE Die(c) \/ ConnectionLost(c)
    <3>1. toClient'[c] = <<>>
      BY <2>2 DEF Die, ConnectionLost, Set, TypeOK
    <3> QED
      BY <2>1, <3>1 DEF Silent
  <2>3. CASE ConnectRefused(c) \/ ConnectionReset(c)
    <3>1. tpc[c] = "none"
      BY <2>3 DEF ConnectRefused, ConnectionReset, Placed, ToSet
    <3>2. Paired(c) /\ toClient' = toClient
      BY <2>3 DEF ConnectRefused, ConnectionReset, InStep, Dead, streams
    <3> QED
      BY <2>1, <3>1, <3>2 DEF Silent, Paired
  <2>4. CASE ~(Die(c) \/ ConnectionLost(c) \/ ConnectRefused(c) \/ ConnectionReset(c))
    <3>1. cpc'[c] \in {"loop", "ack", "done"}
      BY <1>2, <2>4
      DEF ClientStep, Connect, MakeOffer, SendNoOffer, SendBye, IgnoreAck, ReadAnswer, Receives,
          Set, clientVars, TypeOK
    <3> QED
      BY <2>1, <3>1 DEF Silent
  <2> QED
    BY <2>2, <2>3, <2>4
<1>3. ASSUME NEW c \in Client, ThreadStep(c) PROVE Silent'
  <2>1. CASE (\E p \in Amounts : SendPrice(c, p)) \/ Answer(c)
    <3>1. UNCHANGED cpc /\ \E m : toClient' = Deliver(c, m)
      BY <2>1 DEF SendPrice, Answer, clientVars
    <3>2. c \in Dead \/ cpc[c] # "failed"
      BY <2>1 DEF SendPrice, Answer, InStep, Paired, Talking, Answered
    <3> QED
      BY <3>1, <3>2 DEF Silent, Deliver, Send, Dead, TypeOK
  <2>2. CASE ~((\E p \in Amounts : SendPrice(c, p)) \/ Answer(c))
    BY <1>1, <1>3, <2>2
    DEF ThreadStep, HeaderFails, ReadOffer, CheckLast, Return, ConnectionBreaks, clientVars, streams
  <2> QED
    BY <2>1, <2>2
<1>4. CASE MainStep \/ PoolStep
  BY <1>1, <1>4, AcceptExecutes
  DEF MainStep, PoolStep, AcceptFails, TakeTask, RunFirst, clientVars, streams
<1> QED
  BY <1>1, <1>2, <1>3, <1>4 DEF Next, vars, clientVars, streams

\* What is at the places of a stream of none, one or two messages.
LEMMA ShortPlaces ==
  ASSUME NEW e, NEW f
  PROVE  /\ \A i \in DOMAIN <<>> : FALSE
         /\ \A i \in DOMAIN <<e>> : i = 1 /\ <<e>>[i] = e
         /\ \A i \in DOMAIN <<e, f>> : (i = 1 /\ <<e, f>>[i] = e) \/ (i = 2 /\ <<e, f>>[i] = f)
<1>1. \A i \in DOMAIN <<>> : FALSE
  OBVIOUS
<1>2. \A i \in DOMAIN <<e>> : i = 1 /\ <<e>>[i] = e
  OBVIOUS
<1>3. \A i \in DOMAIN <<e, f>> : (i = 1 /\ <<e, f>>[i] = e) \/ (i = 2 /\ <<e, f>>[i] = f)
  OBVIOUS
<1> QED
  BY <1>1, <1>2, <1>3

\* The stream of a living client has a yes only at its head, and only for one that
\* waits: behind it there is room for a price, before it for nothing.
LEMMA SaleAtHead ==
  ASSUME TypeOK, NEW c \in Client, Paired(c), Talking(c),
         NEW i \in DOMAIN toClient[c], toClient[c][i] = Ack(TRUE)
  PROVE  i = 1 /\ cpc[c] = "ack"
<1> DEFINE a == Ack(cpc[c] = "ack")
<1>1. a = Ack(TRUE) => cpc[c] = "ack"
  BY Messages
<1>2. \A u \in Unread(c) : u \in {<<>>, <<a>>}
  BY DEF Unread
<1> HIDE DEF a
<1>3. CASE toClient[c] = <<>> \/ toClient[c] = <<a>>
  <2>1. CASE toClient[c] = <<>>
    BY <2>1, ShortPlaces
  <2>2. CASE toClient[c] = <<a>>
    <3>1. i = 1 /\ toClient[c][i] = a
      BY <2>2, ShortPlaces
    <3> QED
      BY <1>1, <3>1
  <2> QED
    BY <1>3, <2>1, <2>2
<1>4. ASSUME NEW p \in Amounts, toClient[c] = Append(<<>>, Price(p)) PROVE FALSE
  <2>1. toClient[c] = <<Price(p)>>
    BY <1>4, ShortStreams
  <2>2. toClient[c][i] = Price(p)
    BY <2>1, ShortPlaces
  <2> QED
    BY <2>2, Messages
<1>5. ASSUME NEW p \in Amounts, toClient[c] = Append(<<a>>, Price(p))
      PROVE  i = 1 /\ cpc[c] = "ack"
  <2>1. toClient[c] = <<a, Price(p)>>
    BY <1>5, ShortStreams
  <2>2. (i = 1 /\ toClient[c][i] = a) \/ toClient[c][i] = Price(p)
    BY <2>1, ShortPlaces
  <2> QED
    BY <1>1, <2>2, Messages
<1> QED
  BY <1>2, <1>3, <1>4, <1>5 DEF Paired

\* No sale of the server is skipped by its client, or exceeds its quota, for any
\* number of clients and purchases, whoever dies and whenever the server exits.
THEOREM SaleIsAwaitedHolds == Spec => []SaleIsAwaited
<1>1. Init => Silent
  BY DEF Init, Silent
<1>2. IInv /\ Silent /\ [Next]_vars => Silent'
  BY SilentStep DEF IInv
<1>3. IInv /\ Silent => SaleIsAwaited
  <2> SUFFICES ASSUME IInv, Silent, NEW c \in Client, NEW i \in DOMAIN toClient[c],
                      toClient[c][i] = Ack(TRUE)
               PROVE  i = 1 /\ cpc[c] = "ack" /\ purchases[c] < QUOTA
    BY DEF SaleIsAwaited
  <2>1. toClient[c] # <<>>
    OBVIOUS
  <2>2. cpc[c] \notin {"mute", "dead", "failed"} /\ Paired(c)
    BY <2>1 DEF Silent, IInv, InStep, Dead
  <2>3. cpc[c] # "new" /\ cpc[c] # "done"
    BY <2>1, <2>2 DEF Paired, IInv, Placed
  <2>4. Talking(c)
    BY <2>2, <2>3 DEF Talking, IInv, TypeOK
  <2> QED
    BY <2>2, <2>4, SaleAtHead DEF IInv, Counted
<1> QED
  BY <1>1, <1>2, <1>3, InductiveInvariant, PTL DEF Spec

\* The clients with an unanswered offer, and those that left, for Shop.
Open == {c \in Client : cpc[c] = "ack"}
Finished == {c \in Client : cpc[c] = "done"}

\* A step of a client makes a request, reads its answer, gives it up by dying or
\* losing its connection, leaves with the quota, or is none of Shop's business.
LEMMA ClientImplements ==
  ASSUME IInv, NEW c \in Client, ClientStep(c) \/ Die(c)
  PROVE  S!Next \/ UNCHANGED <<purchases, Open, Finished>>
<1> USE DEF IInv
<1>1. \A d \in Client \ {c} : UNCHANGED <<cpc[d], purchases[d]>>
  BY ClientStepLocal
<1>2. CASE MakeOffer(c)
  <2>1. cpc[c] = "loop" /\ cpc'[c] = "ack" /\ purchases' = purchases /\ purchases[c] < QUOTA
    BY <1>2 DEF MakeOffer, Receives, Wants, Set, TypeOK
  <2>2. c \notin Open \cup Finished /\ Open' = Open \cup {c} /\ Finished' = Finished
    BY <1>1, <2>1 DEF Open, Finished
  <2> QED
    BY <2>1, <2>2 DEF S!Next, S!Request, Open, Finished
<1>3. CASE ReadAnswer(c)
  <2>1. /\ cpc[c] = "ack" /\ cpc'[c] = "loop"
        /\ purchases' = [purchases EXCEPT ![c] = @ + 1]
    BY <1>3, AwaitedIsSale DEF ReadAnswer, Set, TypeOK
  <2>2. c \in Open /\ Open' = Open \ {c} /\ Finished' = Finished
    BY <1>1, <2>1 DEF Open, Finished
  <2> QED
    BY <2>1, <2>2 DEF S!Next, S!Sell, Open, Finished
<1>4. CASE SendBye(c)
  <2>1. /\ cpc[c] = "loop" /\ cpc'[c] = "done" /\ purchases' = purchases
        /\ ~Wants(c)
    BY <1>4 DEF SendBye, Receives, Set, TypeOK
  <2>2. purchases[c] = QUOTA
    BY <2>1, QuotaAssumption DEF Wants, TypeOK
  <2>3. c \notin Open \cup Finished /\ Open' = Open /\ Finished' = Finished \cup {c}
    BY <1>1, <2>1 DEF Open, Finished
  <2> QED
    BY <2>1, <2>2, <2>3 DEF S!Next, S!Finish, Open, Finished
<1>5. CASE ConnectionLost(c) \/ Die(c)
  <2>1. /\ cpc[c] # "done" /\ cpc'[c] \in {"failed", "mute", "dead"}
        /\ purchases' = purchases
    BY <1>5 DEF ConnectionLost, Die, Set, TypeOK
  <2>2. Open' = Open \ {c} /\ Finished' = Finished
    BY <1>1, <2>1 DEF Open, Finished
  <2>3. CASE c \in Open
    BY <2>1, <2>2, <2>3 DEF S!Next, S!Refuse, Open, Finished
  <2> QED
    BY <2>1, <2>2, <2>3
<1>6. CASE \/ Connect(c) \/ ConnectRefused(c) \/ ConnectionReset(c)
           \/ SendNoOffer(c) \/ IgnoreAck(c)
  <2>1. /\ cpc[c] \notin {"ack", "done"} /\ cpc'[c] \notin {"ack", "done"}
        /\ purchases' = purchases
    BY <1>6 DEF Connect, ConnectRefused, ConnectionReset, SendNoOffer, IgnoreAck, Receives,
                clientVars, Set, TypeOK
  <2>2. Open' = Open /\ Finished' = Finished
    BY <1>1, <2>1 DEF Open, Finished
  <2> QED
    BY <2>1, <2>2
<1> QED
  BY <1>2, <1>3, <1>4, <1>5, <1>6 DEF ClientStep

\* The shop over sockets implements Shop: it answers every request at most once,
\* and its clients leave with exactly their quota.
THEOREM ImplementsShopHolds == Spec => ImplementsShop
<1>1. Init => S!Init
  BY DEF Init, S!Init
<1>2. IInv /\ [Next]_vars => [S!Next]_(S!shopVars)
  <2> SUFFICES ASSUME IInv, [Next]_vars
               PROVE  S!Next \/ UNCHANGED <<purchases, Open, Finished>>
    BY DEF S!shopVars, Open, Finished
  <2>1. CASE UNCHANGED vars
    BY <2>1 DEF vars, clientVars, Open, Finished
  <2>2. CASE MainStep \/ PoolStep
    <3>1. UNCHANGED clientVars
      BY <2>2 DEF MainStep, PoolStep, AcceptFirst, AcceptNext, AcceptFails, TakeTask, RunFirst
    <3> QED
      BY <3>1 DEF clientVars, Open, Finished
  <2>3. ASSUME NEW c \in Client, ThreadStep(c) PROVE UNCHANGED <<purchases, Open, Finished>>
    <3>1. UNCHANGED clientVars
      BY <2>3 DEF ThreadStep, HeaderFails, SendPrice, ReadOffer, Answer, CheckLast, Return,
                  ConnectionBreaks
    <3> QED
      BY <3>1 DEF clientVars, Open, Finished
  <2> QED
    BY <2>1, <2>2, <2>3, ClientImplements DEF Next
<1> QED
  BY <1>1, <1>2, InductiveInvariant, PTL DEF Spec, ImplementsShop, S!Spec

-----------------------------------------------------------------------------
\* Goodbye is on its way only from a client that left, and a ServerThread closes
\* its socket only after it.
Goodbyes ==
  \A c \in Client :
    /\ cpc[c] # "done" => got[c] # Bye /\ \A i \in DOMAIN toServer[c] : toServer[c][i] # Bye
    /\ main # "exited" /\ tpc[c] = "close" => cpc[c] = "done"
    /\ main # "exited" /\ tpc[c] = "done" => cpc[c] \in {"done", "mute"}

\* What a client writes after or reads before its goodbye is none.
LEMMA GoodbyesClient ==
  ASSUME TypeOK, Goodbyes, NEW c \in Client, ClientStep(c) \/ Die(c)
  PROVE  Goodbyes'
<1>1. /\ UNCHANGED <<main, tpc, got>>
      /\ \A d \in Client \ {c} : UNCHANGED <<cpc[d], toServer[d]>>
  BY ClientStepLocal DEF threadVars
<1>2. cpc[c] = "mute" => FALSE
  BY DEF ClientStep, Die, Connect, ConnectRefused, ConnectionReset, ConnectionLost, MakeOffer,
         SendNoOffer, SendBye, IgnoreAck, ReadAnswer, Receives
<1>3. cpc[c] # "done"
  BY DEF ClientStep, Die, Connect, ConnectRefused, ConnectionReset, ConnectionLost, MakeOffer,
         SendNoOffer, SendBye, IgnoreAck, ReadAnswer, Receives
<1>4. \A i \in DOMAIN toServer[c] : toServer[c][i] # Bye
  BY <1>3 DEF Goodbyes
<1>5. ASSUME cpc'[c] # "done" PROVE \A i \in DOMAIN toServer'[c] : toServer'[c][i] # Bye
  <2>1. CASE toServer'[c] = toServer[c]
    BY <1>4, <2>1
  <2>2. CASE toServer'[c] = <<>>
    BY <2>2
  <2>3. ASSUME NEW m \in ToServer \ {Bye}, toServer' = Send(toServer, c, m)
        PROVE  \A i \in DOMAIN toServer'[c] : toServer'[c][i] # Bye
    <3>1. toServer[c] \in Seq(ToServer) /\ toServer'[c] = Append(toServer[c], m)
      BY <2>3 DEF TypeOK, Send
    <3> QED
      BY <1>4, <3>1, AppendProperties
  <2>4. NoOffer \in ToServer \ {Bye} /\ Amounts \subseteq ToServer \ {Bye}
    BY AmountsAssumption DEF NoOffer, Bye, ToServer
  <2>5. CASE MakeOffer(c) \/ SendNoOffer(c)
    BY <2>3, <2>4, <2>5 DEF MakeOffer, SendNoOffer
  <2>6. CASE ConnectionLost(c)
    BY <2>2, <2>6 DEF ConnectionLost, Set, TypeOK
  <2>7. CASE SendBye(c)
    BY <1>5, <2>7 DEF SendBye, Set, TypeOK
  <2> QED
    BY <2>1, <2>5, <2>6, <2>7
    DEF ClientStep, Die, Connect, ConnectRefused, ConnectionReset, IgnoreAck, ReadAnswer, streams
<1>6. main' # "exited" => tpc'[c] \notin {"close", "done"}
  BY <1>1, <1>2, <1>3 DEF Goodbyes
<1> QED
  BY <1>1, <1>3, <1>5, <1>6 DEF Goodbyes

\* A ServerThread comes to its end by reading goodbye, or by the header of a
\* mute client.
LEMMA GoodbyesServer ==
  ASSUME TypeOK, Placed, Goodbyes,
         MainStep \/ PoolStep \/ \E c \in Client : ThreadStep(c)
  PROVE  Goodbyes'
<1>1. CASE MainStep
  <2>1. /\ UNCHANGED <<got, cpc, toServer>> /\ (main = "exited" => main' = "exited")
        /\ \A c \in Client : tpc'[c] \in {"close", "done"} => tpc'[c] = tpc[c]
    BY <1>1
    DEF MainStep, AcceptFirst, AcceptNext, AcceptFails, execute, threadVars, clientVars, streams
  <2> QED
    BY <2>1 DEF Goodbyes
<1>2. ASSUME NEW c \in Client, UNCHANGED <<main, got, cpc, toServer>>, tpc' = Set(tpc, c, Start(c))
      PROVE  Goodbyes'
  BY <1>2 DEF Goodbyes, Start, Set, TypeOK
<1>3. CASE PoolStep
  BY <1>2, <1>3, NextTask DEF PoolStep, TakeTask, RunFirst, serverVars, clientVars, streams
<1>4. ASSUME NEW c \in Client, ConnectionBreaks(c) PROVE Goodbyes'
  BY <1>4 DEF ConnectionBreaks, Goodbyes, clientVars, streams, NoOffer, Bye
<1>5. ASSUME NEW c \in Client, ThreadStep(c), ~ConnectionBreaks(c) PROVE Goodbyes'
  <2>1. /\ UNCHANGED <<main, clientVars>>
        /\ \A d \in Client \ {c} : UNCHANGED <<tpc[d], got[d], toServer[d]>>
    BY <1>5, ThreadStepLocal
  <2>2. ASSUME ReadOffer(c), cpc[c] # "done"
        PROVE  got'[c] # Bye /\ \A i \in DOMAIN toServer'[c] : toServer'[c][i] # Bye
    <3>1. /\ toServer[c] \in Seq(ToServer) /\ toServer[c] # <<>>
          /\ got'[c] = Head(toServer[c]) /\ toServer'[c] = Tail(toServer[c])
      BY <2>2 DEF ReadOffer, TypeOK, Set, Drop
    <3>2. /\ got'[c] = toServer[c][1] /\ 1 \in DOMAIN toServer[c]
          /\ \A i \in DOMAIN toServer'[c] :
               i + 1 \in DOMAIN toServer[c] /\ toServer'[c][i] = toServer[c][i + 1]
      BY <3>1, HeadTailProperties
    <3> QED
      BY <2>2, <3>2 DEF Goodbyes
  <2>3. cpc[c] # "done" => got'[c] # Bye /\ \A i \in DOMAIN toServer'[c] : toServer'[c][i] # Bye
    <3>1. NoOffer # Bye
      BY DEF NoOffer, Bye
    <3>2. CASE ~ReadOffer(c)
      <4>1. toServer' = toServer /\ got'[c] \in {got[c], NoOffer}
        BY <1>5, <3>2
        DEF ThreadStep, HeaderFails, SendPrice, Answer, CheckLast, Return, Set, TypeOK, streams
      <4> QED
        BY <3>1, <4>1 DEF Goodbyes
    <3> QED
      BY <2>2, <3>2
  <2>4. main # "exited" => /\ tpc'[c] = "close" => cpc[c] = "done"
                           /\ tpc'[c] = "done" => cpc[c] \in {"done", "mute"}
    BY <1>5 DEF ThreadStep, HeaderFails, SendPrice, ReadOffer, Answer, CheckLast, Return,
                Goodbyes, Set, TypeOK
  <2> QED
    BY <2>1, <2>3, <2>4 DEF Goodbyes, clientVars
<1> QED
  BY <1>1, <1>3, <1>4, <1>5

\* The safe half of AcceptedIsServed, for any number of clients, any pool and any
\* deaths: a thread that returns has served its client to the end.
THEOREM ReturnsServedHolds == Spec => []ReturnsServed
<1>1. Init => Goodbyes
  BY DEF Init, Goodbyes, NoOffer, Bye
<1>2. IInv /\ Goodbyes /\ [Next]_vars => Goodbyes'
  <2> SUFFICES ASSUME IInv, Goodbyes, [Next]_vars PROVE Goodbyes'
    OBVIOUS
  <2>1. CASE UNCHANGED vars
    BY <2>1 DEF vars, serverVars, threadVars, clientVars, streams, Goodbyes
  <2> QED
    BY <2>1, GoodbyesClient, GoodbyesServer DEF Next, IInv
<1>3. IInv /\ Goodbyes => ReturnsServed
  BY DEF IInv, Counted, Goodbyes, ReturnsServed
<1> QED
  BY <1>1, <1>2, <1>3, InductiveInvariant, PTL DEF Spec
=============================================================================

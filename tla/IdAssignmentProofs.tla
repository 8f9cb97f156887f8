-------------------------- MODULE IdAssignmentProofs --------------------------
(***************************************************************************)
(* For any number of ids and any set of clients, the broker's assignment   *)
(* gives no id twice, leaves none out, and implements Naming.              *)
(*                                                                         *)
(* The inductive invariant says where a client can be: not having asked,   *)
(* in the broker's queue exactly once and with nothing received, or past   *)
(* it with one id, on its temporary queue or taken.                        *)
(***************************************************************************)
EXTENDS IdAssignment, SequenceTheorems, TLAPS

\* A client that waits in the broker's queue, or has not asked, has no id.
Idless(c) == tempQueue[c] = <<>> /\ CLIENT_ID[c] = None

\* Nobody asks twice, and only who asked gets an id, and only one.
AskedOnce ==
  /\ \A k \in 1..Len(serverQueue) : serverQueue[k] \in asked /\ Idless(serverQueue[k])
  /\ \A j, k \in 1..Len(serverQueue) : serverQueue[j] = serverQueue[k] => j = k
  /\ \A c \in Client \ asked : Idless(c)
  /\ \A c \in Client : tempQueue[c] = <<>> \/ (Len(tempQueue[c]) = 1 /\ CLIENT_ID[c] = None)

\* The ids given are exactly those below INCR_ID.
GivenInOrder ==
  /\ \A c \in Client : idOf(c) # None => idOf(c) < INCR_ID
  /\ \A i \in 1..(INCR_ID - 1) : \E c \in Client : idOf(c) = i
  /\ serving => INCR_ID = N_CONNECTED + 1

IInv == TypeOK /\ AskedOnce /\ GivenInOrder /\ UniqueIds

\* Nothing is left of a sequence of one.
LEMMA TailOfOne ==
  ASSUME NEW S, NEW s \in Seq(S), s # <<>>, Len(s) = 1
  PROVE  Tail(s) = <<>>
<1>1. Tail(s) \in Seq(S) /\ Len(Tail(s)) = 0
  BY HeadTailProperties
<1> QED
  BY <1>1, EmptySeq

\* The id of a client, on its way or read, is an id or none.
LEMMA IdOfType ==
  ASSUME TypeOK, NEW c \in Client
  PROVE  idOf(c) \in Id \cup {None}
BY HeadTailProperties DEF TypeOK, idOf

\* The assignment gives INCR_ID to the head of the queue, who had none, and
\* touches nobody else.
LEMMA AssignmentNames ==
  ASSUME IInv, idAssignment
  PROVE  /\ Head(serverQueue) \in Client
         /\ Idless(Head(serverQueue))
         /\ tempQueue'[Head(serverQueue)] = <<INCR_ID>>
         /\ INCR_ID \in Id
         /\ \A d \in Client \ {Head(serverQueue)} : tempQueue'[d] = tempQueue[d]
         /\ \A d \in Client : idOf(d)' = IF d = Head(serverQueue) THEN INCR_ID ELSE idOf(d)
<1> DEFINE c == Head(serverQueue)
<1>1. serverQueue \in Seq(Client) /\ serverQueue # <<>>
  BY DEF IInv, TypeOK, idAssignment
<1>2. c = serverQueue[1] /\ c \in Client /\ 1 \in 1..Len(serverQueue)
  BY <1>1, HeadTailProperties, EmptySeq
<1>3. Idless(c)
  BY <1>2 DEF IInv, AskedOnce
<1>4. INCR_ID \in Id
  BY NodesAssumption DEF IInv, TypeOK, idAssignment, AllAssigned, Id
<1>5. tempQueue' = [tempQueue EXCEPT ![c] = Append(@, INCR_ID)] /\ CLIENT_ID' = CLIENT_ID
  BY DEF idAssignment
<1>6. tempQueue'[c] = <<INCR_ID>>
  BY <1>2, <1>3, <1>5 DEF IInv, TypeOK, Idless
<1>7. \A d \in Client \ {c} : tempQueue'[d] = tempQueue[d]
  BY <1>5 DEF IInv, TypeOK
<1>8. ASSUME NEW d \in Client PROVE idOf(d)' = IF d = c THEN INCR_ID ELSE idOf(d)
  <2>1. CASE d = c
    BY <1>6, <2>1 DEF idOf
  <2>2. CASE d # c
    BY <1>5, <1>7, <2>2 DEF idOf
  <2> QED
    BY <2>1, <2>2
<1> QED
  BY <1>2, <1>3, <1>4, <1>6, <1>7, <1>8

\* Every other step leaves everybody the id he had.
LEMMA OtherStepsName ==
  ASSUME IInv,
         \/ StartService \/ LateRequest
         \/ \E c \in Client : sendIdRequest(c) \/ ReceiveId(c)
         \/ UNCHANGED vars
  PROVE  \A d \in Client : idOf(d)' = idOf(d)
<1>1. CASE UNCHANGED <<tempQueue, CLIENT_ID>>
  BY <1>1 DEF idOf
<1>2. ASSUME NEW c \in Client, ReceiveId(c), NEW d \in Client PROVE idOf(d)' = idOf(d)
  <2>1. CASE d # c
    BY <1>2, <2>1 DEF ReceiveId, idOf, IInv, TypeOK
  <2>2. CASE d = c
    <3>1. tempQueue[c] \in Seq(Id) /\ Len(tempQueue[c]) = 1 /\ tempQueue[c] # <<>>
      BY <1>2 DEF IInv, TypeOK, AskedOnce, ReceiveId
    <3>2. Tail(tempQueue[c]) = <<>>
      BY <3>1, TailOfOne
    <3>3. tempQueue'[c] = <<>> /\ CLIENT_ID'[c] = Head(tempQueue[c])
      BY <1>2, <3>2 DEF ReceiveId, IInv, TypeOK
    <3> QED
      BY <1>2, <2>2, <3>3 DEF idOf, ReceiveId
  <2> QED
    BY <2>1, <2>2
<1> QED
  BY <1>1, <1>2 DEF StartService, LateRequest, sendIdRequest, vars

\* Every step keeps the types.
LEMMA TypeStep ==
  ASSUME IInv, [Next]_vars
  PROVE  TypeOK'
<1> USE DEF TypeOK
<1>1. CASE UNCHANGED vars
  BY <1>1 DEF IInv, vars
<1>2. CASE idAssignment
  <2>1. INCR_ID' \in 1..(N_CONNECTED + 1)
    BY <1>2, NodesAssumption DEF IInv, idAssignment, AllAssigned, Incremented
  <2>2. serverQueue' \in Seq(Client)
    BY <1>2, HeadTailProperties DEF IInv, idAssignment
  <2>3. tempQueue' \in [Client -> Seq(Id)]
    <3>1. <<INCR_ID>> \in Seq(Id) /\ tempQueue \in [Client -> Seq(Id)]
      BY <1>2, AssignmentNames DEF IInv
    <3>2. \A d \in Client : tempQueue'[d] \in Seq(Id)
      BY <1>2, <3>1, AssignmentNames
    <3>3. tempQueue' = [d \in Client |-> tempQueue'[d]]
      BY <1>2, <3>1 DEF idAssignment
    <3> QED
      BY <3>2, <3>3
  <2> QED
    BY <1>2, <2>1, <2>2, <2>3 DEF IInv, idAssignment
<1>3. CASE StartService
  BY <1>3 DEF IInv, StartService
<1>4. CASE LateRequest
  BY <1>4, HeadTailProperties DEF IInv, LateRequest
<1>5. ASSUME NEW c \in Client, sendIdRequest(c) PROVE TypeOK'
  BY <1>5, AppendProperties DEF IInv, sendIdRequest
<1>6. ASSUME NEW c \in Client, ReceiveId(c) PROVE TypeOK'
  BY <1>6, HeadTailProperties DEF IInv, ReceiveId
<1> QED
  BY <1>1, <1>2, <1>3, <1>4, <1>5, <1>6 DEF Next, Broker

\* Without its head the queue still holds each of its clients once.
LEMMA TailOnce ==
  ASSUME IInv, serverQueue # <<>>, serverQueue' = Tail(serverQueue)
  PROVE  /\ \A k \in 1..Len(serverQueue') :
              /\ serverQueue'[k] \in asked \cap Client
              /\ Idless(serverQueue'[k])
              /\ serverQueue'[k] # Head(serverQueue)
         /\ \A j, k \in 1..Len(serverQueue') : serverQueue'[j] = serverQueue'[k] => j = k
<1>1. serverQueue \in Seq(Client) /\ Len(serverQueue) \in Nat \ {0}
  BY EmptySeq DEF IInv, TypeOK
<1>2. /\ Len(serverQueue') = Len(serverQueue) - 1
      /\ \A k \in 1..Len(serverQueue') : serverQueue'[k] = serverQueue[k + 1]
      /\ serverQueue' \in Seq(Client)
      /\ Head(serverQueue) = serverQueue[1]
  BY <1>1, HeadTailProperties
<1>3. \A k \in 1..Len(serverQueue') : k + 1 \in 1..Len(serverQueue) /\ k + 1 # 1
  BY <1>1, <1>2
<1>4. \A k \in 1..Len(serverQueue') : serverQueue'[k] \in Client
  BY <1>2, ElementOfSeq
<1>5. 1 \in 1..Len(serverQueue)
  BY <1>1
<1>6. ASSUME NEW j \in 1..Len(serverQueue'), NEW k \in 1..Len(serverQueue'),
             serverQueue'[j] = serverQueue'[k]
      PROVE  j = k
  <2>1. j + 1 = k + 1
    BY <1>2, <1>3, <1>6 DEF IInv, AskedOnce
  <2>2. j \in Nat /\ k \in Nat
    OBVIOUS
  <2> QED
    BY <2>1, <2>2
<1>7. ASSUME NEW k \in 1..Len(serverQueue')
      PROVE  /\ serverQueue'[k] \in asked /\ Idless(serverQueue'[k])
             /\ serverQueue'[k] # Head(serverQueue)
  BY <1>2, <1>3, <1>5 DEF IInv, AskedOnce
<1> QED
  BY <1>4, <1>6, <1>7

\* Every step keeps each client in the queue at most once, and no client there
\* with an id.
LEMMA AskedStep ==
  ASSUME IInv, [Next]_vars
  PROVE  AskedOnce'
<1> USE DEF AskedOnce, Idless
<1>1. CASE UNCHANGED vars \/ StartService
  BY <1>1 DEF IInv, vars, StartService
<1>2. CASE LateRequest
  BY <1>2, TailOnce DEF IInv, LateRequest
<1>3. CASE idAssignment
  <2> DEFINE c == Head(serverQueue)
  <2>1. /\ serverQueue # <<>> /\ serverQueue' = Tail(serverQueue)
        /\ UNCHANGED <<asked, CLIENT_ID>>
    BY <1>3 DEF idAssignment
  <2>2. /\ c \in Client /\ CLIENT_ID[c] = None
        /\ Len(tempQueue'[c]) = 1
        /\ \A d \in Client \ {c} : tempQueue'[d] = tempQueue[d]
    BY <1>3, AssignmentNames
  <2>3. c \in asked
    <3>1. serverQueue \in Seq(Client)
      BY DEF IInv, TypeOK
    <3>2. c = serverQueue[1] /\ 1 \in 1..Len(serverQueue)
      BY <2>1, <3>1, EmptySeq, HeadTailProperties
    <3> QED
      BY <3>2 DEF IInv
  <2>4. \A k \in 1..Len(serverQueue') :
          /\ serverQueue'[k] \in asked'
          /\ tempQueue'[serverQueue'[k]] = <<>> /\ CLIENT_ID'[serverQueue'[k]] = None
    BY <2>1, <2>2, TailOnce
  <2>5. \A j, k \in 1..Len(serverQueue') : serverQueue'[j] = serverQueue'[k] => j = k
    BY <2>1, TailOnce
  <2>6. \A d \in Client \ asked' : Idless(d)'
    BY <2>1, <2>2, <2>3 DEF IInv
  <2>7. \A d \in Client : tempQueue'[d] = <<>> \/ (Len(tempQueue'[d]) = 1 /\ CLIENT_ID'[d] = None)
    BY <2>1, <2>2 DEF IInv
  <2> QED
    BY <2>4, <2>5, <2>6, <2>7
<1>4. ASSUME NEW c \in Client, sendIdRequest(c) PROVE AskedOnce'
  <2>1. /\ c \notin asked /\ asked' = asked \cup {c}
        /\ serverQueue' = Append(serverQueue, c)
        /\ UNCHANGED <<tempQueue, CLIENT_ID>>
    BY <1>4 DEF sendIdRequest
  <2>2. serverQueue \in Seq(Client) /\ Len(serverQueue) \in Nat
    BY EmptySeq, LenProperties DEF IInv, TypeOK
  <2>3. /\ Len(serverQueue') = Len(serverQueue) + 1
        /\ \A k \in 1..Len(serverQueue) : serverQueue'[k] = serverQueue[k]
        /\ serverQueue'[Len(serverQueue) + 1] = c
    BY <2>1, <2>2, AppendProperties
  <2>4. \A k \in 1..Len(serverQueue') : k \in 1..Len(serverQueue) \/ k = Len(serverQueue) + 1
    BY <2>2, <2>3
  <2>5. \A k \in 1..Len(serverQueue) : serverQueue[k] # c
    BY <2>1 DEF IInv
  <2>6. Idless(c)
    BY <2>1 DEF IInv
  <2>7. \A k \in 1..Len(serverQueue') :
          /\ serverQueue'[k] \in asked'
          /\ tempQueue'[serverQueue'[k]] = <<>> /\ CLIENT_ID'[serverQueue'[k]] = None
    BY <2>1, <2>3, <2>4, <2>6 DEF IInv
  <2>8. \A j, k \in 1..Len(serverQueue') : serverQueue'[j] = serverQueue'[k] => j = k
    BY <2>3, <2>4, <2>5 DEF IInv
  <2> QED
    BY <2>1, <2>7, <2>8 DEF IInv
<1>5. ASSUME NEW c \in Client, ReceiveId(c) PROVE AskedOnce'
  <2>1. tempQueue[c] \in Seq(Id) /\ Len(tempQueue[c]) = 1 /\ tempQueue[c] # <<>>
    BY <1>5 DEF IInv, TypeOK, ReceiveId
  <2>2. Tail(tempQueue[c]) = <<>>
    BY <2>1, TailOfOne
  <2>3. tempQueue'[c] = <<>> /\ \A d \in Client \ {c} : UNCHANGED <<tempQueue[d], CLIENT_ID[d]>>
    BY <1>5, <2>2 DEF ReceiveId, IInv, TypeOK
  <2>4. c \in asked /\ \A k \in 1..Len(serverQueue) : serverQueue[k] # c
    BY <2>1 DEF IInv
  <2>5. \A k \in 1..Len(serverQueue) : serverQueue[k] \in Client
    BY ElementOfSeq DEF IInv, TypeOK
  <2>6. UNCHANGED <<serverQueue, asked>>
    BY <1>5 DEF ReceiveId
  <2>7. \A k \in 1..Len(serverQueue') :
          /\ serverQueue'[k] \in asked'
          /\ tempQueue'[serverQueue'[k]] = <<>> /\ CLIENT_ID'[serverQueue'[k]] = None
    BY <2>3, <2>4, <2>5, <2>6 DEF IInv
  <2>8. \A d \in Client \ asked' : Idless(d)'
    BY <2>3, <2>4, <2>6 DEF IInv
  <2>9. \A d \in Client : tempQueue'[d] = <<>> \/ (Len(tempQueue'[d]) = 1 /\ CLIENT_ID'[d] = None)
    BY <2>3 DEF IInv
  <2> QED
    BY <2>6, <2>7, <2>8, <2>9 DEF IInv
<1> QED
  BY <1>1, <1>2, <1>3, <1>4, <1>5 DEF Next, Broker

\* The ids in use are those below INCR_ID, each of one client, before and after
\* every step.
LEMMA NamesStep ==
  ASSUME IInv, [Next]_vars
  PROVE  GivenInOrder' /\ UniqueIds'
<1>1. CASE idAssignment
  <2> DEFINE c == Head(serverQueue)
  <2>1. /\ c \in Client /\ INCR_ID \in Id
        /\ \A d \in Client : idOf(d)' = IF d = c THEN INCR_ID ELSE idOf(d)
        /\ INCR_ID' = INCR_ID + 1
    BY <1>1, AssignmentNames DEF idAssignment, Incremented
  <2>2. \A d \in Client : idOf(d) # None => idOf(d) < INCR_ID /\ idOf(d) \in Id
    BY IdOfType DEF IInv, GivenInOrder
  <2>3. idOf(c) = None /\ INCR_ID # None
    BY <1>1, <2>1, AssignmentNames DEF Idless, idOf, Id, None
  <2>4. UniqueIds'
    BY <2>1, <2>2, <2>3 DEF UniqueIds, IInv, Id
  <2>5. \A d \in Client : idOf(d)' # None => idOf(d)' < INCR_ID'
    BY <2>1, <2>2 DEF Id
  <2>6. ASSUME NEW i \in 1..(INCR_ID' - 1) PROVE \E d \in Client : idOf(d)' = i
    <3>1. CASE i = INCR_ID
      BY <2>1, <3>1
    <3>2. CASE i # INCR_ID
      <4>1. i \in 1..(INCR_ID - 1)
        BY <2>1, <3>2 DEF Id
      <4>2. PICK d \in Client : idOf(d) = i
        BY <4>1 DEF IInv, GivenInOrder
      <4>3. d # c
        BY <2>3, <4>1, <4>2 DEF None
      <4> QED
        BY <2>1, <4>2, <4>3
    <3> QED
      BY <3>1, <3>2
  <2>7. serving' => INCR_ID' = N_CONNECTED + 1
    BY <1>1, NodesAssumption DEF idAssignment, AllAssigned, IInv, TypeOK, GivenInOrder
  <2> QED
    BY <2>4, <2>5, <2>6, <2>7 DEF GivenInOrder
<1>2. CASE ~idAssignment
  <2>1. \A d \in Client : idOf(d)' = idOf(d)
    BY <1>2, OtherStepsName DEF Next, Broker
  <2>2. INCR_ID' = INCR_ID /\ (serving' => serving \/ AllAssigned)
    BY <1>2 DEF Next, Broker, vars, StartService, LateRequest, sendIdRequest, ReceiveId
  <2>3. serving' => INCR_ID' = N_CONNECTED + 1
    BY <2>2, NodesAssumption DEF AllAssigned, IInv, TypeOK, GivenInOrder
  <2>4. UniqueIds'
    BY <2>1 DEF UniqueIds, IInv
  <2> QED
    BY <2>1, <2>2, <2>3, <2>4 DEF IInv, GivenInOrder
<1> QED
  BY <1>1, <1>2

\* The invariant the other results follow from: a client asks once, is in the
\* queue until it has an id, and the ids given are those below INCR_ID.
THEOREM InductiveInvariant == Spec => []IInv
<1>1. Init => IInv
  <2> SUFFICES ASSUME Init PROVE IInv
    OBVIOUS
  <2>1. TypeOK
    <3>1. 1 \in 1..(N_CONNECTED + 1)
      BY NodesAssumption
    <3>2. <<>> \in Seq(Client) /\ <<>> \in Seq(Id)
      BY EmptySeq
    <3> QED
      BY <3>1, <3>2 DEF Init, TypeOK
  <2>2. \A c \in Client : idOf(c) = None
    BY DEF Init, idOf
  <2>3. AskedOnce
    BY EmptySeq DEF Init, AskedOnce, Idless
  <2> QED
    BY <2>1, <2>2, <2>3 DEF Init, IInv, GivenInOrder, UniqueIds
<1>2. IInv /\ [Next]_vars => IInv'
  BY TypeStep, AskedStep, NamesStep DEF IInv
<1> QED
  BY <1>1, <1>2, PTL DEF Spec

\* The types, in which INCR_ID never passes the number of clients awaited.
THEOREM TypeCorrect == Spec => []TypeOK
BY InductiveInvariant, PTL DEF IInv

\* No two clients ever get the same id, and every id is an id.
THEOREM UniqueIdsHolds == Spec => [](TypeOK /\ UniqueIds)
BY InductiveInvariant, PTL DEF IInv

\* When the first election is convocated every id is somebody's.
THEOREM ElectionReachesNodesHolds == Spec => []ElectionReachesNodes
<1>1. IInv => ElectionReachesNodes
  BY NodesAssumption DEF IInv, GivenInOrder, ElectionReachesNodes, Id
<1> QED
  BY <1>1, InductiveInvariant, PTL

\* The assignment implements Naming: a step of the broker gives a free name to
\* one client that has none, and no other step changes a name.
THEOREM ImplementsNaming == Spec => AssignsNames
<1>1. Init => N!Init
  BY DEF Init, N!Init, idOf
<1>2. IInv /\ [Next]_vars => [N!Next]_[c \in Client |-> idOf(c)]
  <2> SUFFICES ASSUME IInv, [Next]_vars
               PROVE  N!Next \/ UNCHANGED [c \in Client |-> idOf(c)]
    OBVIOUS
  <2>1. CASE idAssignment
    <3> DEFINE c == Head(serverQueue)
    <3>1. /\ c \in Client /\ INCR_ID \in Id
          /\ \A d \in Client : idOf(d)' = IF d = c THEN INCR_ID ELSE idOf(d)
      BY <2>1, AssignmentNames
    <3>2. idOf(c) = None
      BY <2>1, AssignmentNames DEF Idless, idOf
    <3>3. \A d \in Client : idOf(d) # INCR_ID
      BY <3>1 DEF IInv, GivenInOrder, Id, None
    <3>4. [d \in Client |-> idOf(d)]' = [[d \in Client |-> idOf(d)] EXCEPT ![c] = INCR_ID]
      BY <3>1
    <3> QED
      BY <3>1, <3>2, <3>3, <3>4 DEF N!Next, N!GiveName, N!Free
  <2>2. CASE ~idAssignment
    <3>1. \A d \in Client : idOf(d)' = idOf(d)
      BY <2>2, OtherStepsName DEF Next, Broker
    <3> QED
      BY <3>1
  <2> QED
    BY <2>1, <2>2
<1> QED
  BY <1>1, <1>2, InductiveInvariant, PTL DEF Spec, AssignsNames, N!Spec
=============================================================================

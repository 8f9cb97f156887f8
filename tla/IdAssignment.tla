----------------------------- MODULE IdAssignment -----------------------------
(***************************************************************************)
(* How the nodes of assignment 3 get their ids: the first part of          *)
(* ClientBroker.body and of GenericClient.clientOperations.  The broker's  *)
(* node takes id 0 itself and hands out 1, 2, ... to the clients that ask  *)
(* on its queue "0", each over the client's own temporary queue.  When the *)
(* last id is out the broker enters clientOperations and convocates the    *)
(* first election; from then on a request for an id is consumed unanswered *)
(* by its receive loops.                                                   *)
(*                                                                         *)
(* A client asks once: it would ask again if its very first aliveOrDead()  *)
(* were false, but the draws are seeded with the id, and the first id      *)
(* whose seed begins that way is 18.                                       *)
(***************************************************************************)
EXTENDS Integers, Sequences

CONSTANTS
  Client,        \* the clients started
  N_CONNECTED    \* the ids there are to give

ASSUME NodesAssumption == N_CONNECTED \in Nat \ {0}

Id == 1..N_CONNECTED
None == -1

VARIABLES
  serverQueue,   \* the JMS queue "0": the clients whose ID_REQUEST waits there
  INCR_ID,
  serving,       \* the broker's node is in clientOperations
  asked,         \* the clients that sent their request
  tempQueue,     \* tempQueue[c]: the temporary queue of c
  CLIENT_ID

vars == <<serverQueue, INCR_ID, serving, asked, tempQueue, CLIENT_ID>>

\* Beyond types: the broker never gets past the id after the last.
TypeOK ==
  /\ serverQueue \in Seq(Client)
  /\ INCR_ID \in 1..(N_CONNECTED + 1)
  /\ serving \in BOOLEAN
  /\ asked \in SUBSET Client
  /\ tempQueue \in [Client -> Seq(Id)]
  /\ CLIENT_ID \in [Client -> Id \cup {None}]

Init ==
  /\ serverQueue = <<>>
  /\ INCR_ID = 1
  /\ serving = FALSE
  /\ asked = {}
  /\ tempQueue = [c \in Client |-> <<>>]
  /\ CLIENT_ID = [c \in Client |-> None]

sendIdRequest(c) ==
  /\ c \notin asked
  /\ asked' = asked \cup {c}
  /\ serverQueue' = Append(serverQueue, c)
  /\ UNCHANGED <<INCR_ID, serving, tempQueue, CLIENT_ID>>

\* mutant: the id is handed out again
NotIncremented == INCR_ID

\* setINCR_ID()
Incremented == INCR_ID + 1

\* mutants: one client too early, one client too late
AllButOneAssigned == INCR_ID >= N_CONNECTED
OneMoreAssigned == INCR_ID > N_CONNECTED + 1

\* The broker's loop ends.
AllAssigned == INCR_ID > N_CONNECTED

\* The response is sent before the next request is received.
idAssignment ==
  /\ ~AllAssigned
  /\ serverQueue # <<>>
  /\ LET c == Head(serverQueue)
     IN tempQueue' = [tempQueue EXCEPT ![c] = Append(@, INCR_ID)]
  /\ serverQueue' = Tail(serverQueue)
  /\ INCR_ID' = Incremented
  /\ UNCHANGED <<serving, asked, CLIENT_ID>>

StartService ==
  /\ ~serving
  /\ AllAssigned
  /\ serving' = TRUE
  /\ UNCHANGED <<serverQueue, INCR_ID, asked, tempQueue, CLIENT_ID>>

\* clientOperations has no branch for an ID_REQUEST.
LateRequest ==
  /\ serving
  /\ serverQueue # <<>>
  /\ serverQueue' = Tail(serverQueue)
  /\ UNCHANGED <<INCR_ID, serving, asked, tempQueue, CLIENT_ID>>

ReceiveId(c) ==
  /\ CLIENT_ID[c] = None
  /\ tempQueue[c] # <<>>
  /\ CLIENT_ID' = [CLIENT_ID EXCEPT ![c] = Head(tempQueue[c])]
  /\ tempQueue' = [tempQueue EXCEPT ![c] = Tail(@)]
  /\ UNCHANGED <<serverQueue, INCR_ID, serving, asked>>

Broker == idAssignment \/ StartService \/ LateRequest
Next == Broker \/ \E c \in Client : sendIdRequest(c) \/ ReceiveId(c)

Spec == Init /\ [][Next]_vars

\* Every process keeps running; nothing here is dropped or times out.
Fairness ==
  /\ WF_vars(Broker)
  /\ \A c \in Client : WF_vars(sendIdRequest(c) \/ ReceiveId(c))

FairSpec == Spec /\ Fairness

-----------------------------------------------------------------------------
\* The id c has, or will have once it reads its temporary queue.
idOf(c) == IF tempQueue[c] # <<>> THEN Head(tempQueue[c]) ELSE CLIENT_ID[c]

\* No two clients share an id, which is the name of their queue: they would
\* steal each other's messages.
UniqueIds ==
  \A c, d \in Client : idOf(c) = idOf(d) /\ idOf(c) # None => c = d

\* When the broker's node convocates the first election, every id it writes to
\* is, or will be, somebody's.
ElectionReachesNodes ==
  serving => \A i \in Id : \E c \in Client : idOf(c) = i

\* If enough clients are started the service starts, and every id is then taken
\* by a client in the loop, however many other clients ask.
ServiceStarts ==
  <>[](serving /\ \A i \in Id : \E c \in Client : CLIENT_ID[c] = i)

\* The assignment names the clients, in the sense of Naming.
N == INSTANCE Naming WITH Process <- Client, Name <- Id, Unnamed <- None,
                          name <- [c \in Client |-> idOf(c)]
AssignsNames == N!Spec
=============================================================================

----------------------------- MODULE Server_proofs -----------------------------
(***************************************************************************)
(* The accept loop keeps its children bounded and drops no connection, for *)
(* every set of clients, backlog and process limit.                        *)
(***************************************************************************)
EXTENDS Server, FiniteSetTheorems, TLAPS

\* Handlers never outnumber their recorded peak, which never exceeds the number
\* of clients.
PeakInv ==
    /\ Cardinality(handler) <= peak
    /\ peak <= Cardinality(Clients)

\* Where the parent stands between two selects, and what it holds there.
ParentInv ==
    /\ mpc \in {"fork", "close"} => cur \in Clients /\ conn[cur] = "open"
    /\ mpc \in {"select", "reap"} => cur = NoClient
    /\ Roomy /\ mpc = "close" => cur \in served

IInv == TypeOK /\ PeakInv /\ ReapingKeepsUp /\ ChildrenBounded
             /\ ParentInv /\ NoConnectionDropped

-------------------------------------------------------------------------------

\* Cardinality facts about the set of running handlers.
LEMMA HandlerSets ==
    ASSUME NEW H \in SUBSET Clients
    PROVE  /\ IsFiniteSet(H)
           /\ Cardinality(H) \in Nat
           /\ Cardinality(H) <= Cardinality(Clients)
           /\ \A c : c \in H => Cardinality(H \ {c}) = Cardinality(H) - 1
           /\ \A c : Cardinality(H \cup {c}) \in {Cardinality(H), Cardinality(H) + 1}
<1>1. IsFiniteSet(H) /\ Cardinality(H) <= Cardinality(Clients)
  BY ServerAssumption, FS_Subset
<1>2. Cardinality(H) \in Nat
  BY <1>1, FS_CardinalityType
<1>3. \A c : c \in H => Cardinality(H \ {c}) = Cardinality(H) - 1
  BY <1>1, FS_RemoveElement
<1>4. \A c : Cardinality(H \cup {c}) \in {Cardinality(H), Cardinality(H) + 1}
  BY <1>1, FS_AddElement
<1> QED BY <1>1, <1>2, <1>3, <1>4

LEMMA InitInv == Init => IInv
<1> SUFFICES ASSUME Init PROVE IInv
  OBVIOUS
<1>1. Cardinality(handler) = 0
  BY FS_EmptySet DEF Init
<1>2. Cardinality(Clients) \in Nat
  BY ServerAssumption, FS_CardinalityType
<1> QED
  BY <1>1, <1>2 DEF Init, IInv, TypeOK, PeakInv, ReapingKeepsUp, ChildrenBounded,
                    ParentInv, NoConnectionDropped, Roomy, Unreaped

\* Type correctness of a step.
LEMMA NextType == IInv /\ [Next]_vars => TypeOK'
<1> SUFFICES ASSUME IInv, [Next]_vars PROVE TypeOK'
  OBVIOUS
<1> USE DEF TypeOK
<1>1. ASSUME NEW c \in Clients, Connect(c) PROVE TypeOK'
  BY <1>1 DEF IInv, Connect
<1>2. CASE Accept
  <2>1. Head(queue) \in Clients /\ Tail(queue) \in Seq(Clients)
    BY <1>2 DEF IInv, Accept
  <2> QED BY <1>2, <2>1 DEF IInv, Accept
<1>3. CASE ForkHandler
  <2>1. cur \in Clients
    BY <1>3 DEF IInv, ForkHandler, ParentInv
  <2>2. handler' \in SUBSET Clients
    BY <1>3, <2>1 DEF IInv, ForkHandler
  <2>3. peak' \in Nat
    BY <1>3, <2>2, HandlerSets DEF IInv, ForkHandler
  <2> QED BY <1>3, <2>1, <2>2, <2>3 DEF IInv, ForkHandler
<1>4. CASE ForkFails
  BY <1>4 DEF IInv, ForkFails
<1>5. CASE CloseClient
  BY <1>5 DEF IInv, CloseClient
<1>6. CASE Reap
  BY <1>6 DEF IInv, Reap
<1>7. ASSUME NEW c \in Clients, HandlerExit(c) PROVE TypeOK'
  BY <1>7 DEF IInv, HandlerExit
<1>8. ASSUME NEW c \in Clients, ClientEOF(c) PROVE TypeOK'
  BY <1>8 DEF IInv, ClientEOF
<1>9. CASE UNCHANGED vars
  BY <1>9 DEF IInv, vars
<1> QED BY <1>1, <1>2, <1>3, <1>4, <1>5, <1>6, <1>7, <1>8, <1>9 DEF Next, Main

\* The child count: a fork adds one child, an exit turns a handler into a
\* zombie, and the waitpid of every round makes up for its fork.
LEMMA NextCount ==
    IInv /\ [Next]_vars => (PeakInv /\ ReapingKeepsUp /\ ChildrenBounded)'
<1> SUFFICES ASSUME IInv, [Next]_vars
             PROVE  (PeakInv /\ ReapingKeepsUp /\ ChildrenBounded)'
  OBVIOUS
<1>0. /\ Cardinality(handler) \in Nat /\ Cardinality(Clients) \in Nat
      /\ zombies \in Nat /\ peak \in Nat /\ handler \in SUBSET Clients
      /\ mpc \in {"select", "fork", "close", "reap"}
  BY HandlerSets, ServerAssumption, FS_CardinalityType DEF IInv, TypeOK
<1> USE DEF PeakInv, ReapingKeepsUp, ChildrenBounded, Unreaped
<1>1. ASSUME NEW c \in Clients, Connect(c) PROVE (PeakInv /\ ReapingKeepsUp /\ ChildrenBounded)'
  BY <1>0, <1>1 DEF IInv, Connect
<1>2. CASE Accept
  BY <1>0, <1>2 DEF IInv, Accept
<1>3. CASE ForkHandler
  <2>1. handler' \in SUBSET Clients
    BY <1>0, <1>3 DEF IInv, ParentInv, ForkHandler
  <2>2. /\ Cardinality(handler') \in Nat
        /\ Cardinality(handler') <= Cardinality(Clients)
        /\ Cardinality(handler') <= Cardinality(handler) + 1
    <3>1. Cardinality(handler') \in Nat /\ Cardinality(handler') <= Cardinality(Clients)
      BY <2>1, HandlerSets
    <3>2. Cardinality(handler \cup {cur}) \in {Cardinality(handler), Cardinality(handler) + 1}
      BY <1>0, HandlerSets
    <3>3. handler' = handler \cup {cur}
      BY <1>3 DEF ForkHandler
    <3> QED BY <1>0, <3>1, <3>2, <3>3
  <2>3. Cardinality(handler) + zombies <= peak
    BY <1>3 DEF IInv, ForkHandler
  <2> QED BY <1>0, <1>3, <2>2, <2>3 DEF IInv, ForkHandler
<1>4. CASE ForkFails
  BY <1>0, <1>4 DEF IInv, ForkFails
<1>5. CASE CloseClient
  BY <1>0, <1>5 DEF IInv, CloseClient
<1>6. CASE Reap
  BY <1>0, <1>6 DEF IInv, Reap
<1>7. ASSUME NEW c \in Clients, HandlerExit(c) PROVE (PeakInv /\ ReapingKeepsUp /\ ChildrenBounded)'
  <2>1. Cardinality(handler') = Cardinality(handler) - 1
    BY <1>0, <1>7, HandlerSets DEF HandlerExit
  <2> QED BY <1>0, <1>7, <2>1 DEF IInv, HandlerExit
<1>8. ASSUME NEW c \in Clients, ClientEOF(c) PROVE (PeakInv /\ ReapingKeepsUp /\ ChildrenBounded)'
  BY <1>0, <1>8 DEF IInv, ClientEOF
<1>9. CASE UNCHANGED vars
  BY <1>0, <1>9 DEF IInv, vars
<1> QED BY <1>1, <1>2, <1>3, <1>4, <1>5, <1>6, <1>7, <1>8, <1>9 DEF Next, Main

\* No connection is dropped: the child count leaves a place for the fork.
LEMMA NextServed == IInv /\ [Next]_vars => (ParentInv /\ NoConnectionDropped)'
<1> SUFFICES ASSUME IInv, [Next]_vars PROVE (ParentInv /\ NoConnectionDropped)'
  OBVIOUS
<1>0. /\ TypeOK /\ ParentInv /\ NoConnectionDropped
      /\ Cardinality(Clients) \in Nat /\ Cardinality(handler) \in Nat
  BY HandlerSets, ServerAssumption, FS_CardinalityType DEF IInv, TypeOK
<1> USE DEF TypeOK, ParentInv, NoConnectionDropped, Roomy
<1>1. ASSUME NEW c \in Clients, Connect(c) PROVE (ParentInv /\ NoConnectionDropped)'
  <2>1. mpc \in {"fork", "close"} => cur # c
    BY <1>0, <1>1 DEF Connect
  <2> QED BY <1>0, <1>1, <2>1 DEF Connect
<1>2. CASE Accept
  <2>1. Head(queue) \in Clients
    BY <1>0, <1>2 DEF Accept
  <2>2. cur = NoClient
    BY <1>0, <1>2 DEF Accept
  <2> QED BY <1>0, <1>2, <2>1, <2>2, ServerAssumption DEF Accept
<1>3. CASE ForkHandler
  BY <1>0, <1>3 DEF ForkHandler
<1>4. CASE ForkFails
  <2>1. ~ Roomy
    BY <1>0, <1>4, ServerAssumption DEF IInv, PeakInv, ReapingKeepsUp, Unreaped, ForkFails
  <2> QED BY <1>0, <1>4, <2>1 DEF ForkFails
<1>5. CASE CloseClient
  BY <1>0, <1>5 DEF CloseClient
<1>6. CASE Reap
  BY <1>0, <1>6 DEF Reap
<1>7. ASSUME NEW c \in Clients, HandlerExit(c) PROVE (ParentInv /\ NoConnectionDropped)'
  BY <1>0, <1>7 DEF HandlerExit
<1>8. ASSUME NEW c \in Clients, ClientEOF(c) PROVE (ParentInv /\ NoConnectionDropped)'
  BY <1>0, <1>8 DEF ClientEOF
<1>9. CASE UNCHANGED vars
  BY <1>0, <1>9 DEF vars
<1> QED BY <1>1, <1>2, <1>3, <1>4, <1>5, <1>6, <1>7, <1>8, <1>9 DEF Next, Main

LEMMA Inductive == Spec => []IInv
<1>1. IInv /\ [Next]_vars => IInv'
  BY NextType, NextCount, NextServed DEF IInv
<1> QED BY InitInv, <1>1, PTL DEF Spec

-------------------------------------------------------------------------------

\* Every variable keeps its type in every behaviour of the accept loop.
THEOREM TypeCorrect == Spec => []TypeOK
BY Inductive, PTL DEF IInv

\* One waitpid per connection bounds the children of the server by the most
\* handlers that ever ran at once.
THEOREM ReapingBoundsChildren == Spec => [](ReapingKeepsUp /\ ChildrenBounded)
BY Inductive, PTL DEF IInv

\* With a process limit above the number of clients fork never fails, and no
\* connection ends without having had a handler.
THEOREM EveryConnectionHasAHandler == Spec => []NoConnectionDropped
BY Inductive, PTL DEF IInv
===============================================================================

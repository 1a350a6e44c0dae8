-------------------------------- MODULE Server --------------------------------
(***************************************************************************)
(* The accept loop of invoked (server.c, main and HandleClient).  The      *)
(* parent process accepts one connection at a time, forks a handler for    *)
(* it, closes its own copy of the socket and makes a single non-blocking   *)
(* waitpid: it has no SIGCHLD handler, so that one call per connection is  *)
(* all the reaping there is.  What a handler does with its connection is   *)
(* module Session; here it runs, and may exit.                             *)
(***************************************************************************)
EXTENDS Naturals, FiniteSets, Sequences

CONSTANTS
    Clients,     \* the programs that connect to /dev/invocation
    Backlog,     \* the backlog of the listening socket (10 in UnixServerInit)
    Limits,      \* how many children the system may let the server have
    NoClient     \* "no connection is in the parent's hands"

ASSUME ServerAssumption ==
    /\ IsFiniteSet(Clients)
    /\ Backlog \in Nat \ {0}
    /\ Limits \subseteq Nat
    /\ NoClient \notin Clients

VARIABLES
    limit,       \* how many it does let it have
    conn,        \* client end: "idle", "queued" (not accepted yet), "open"
    queue,       \* the listening socket's queue of connections, oldest first
    mpc,         \* the statement the parent is at
    cur,         \* the accepted connection whose socket the parent holds
    handler,     \* clients whose forked handler is running
    zombies,     \* handlers that exited and are not reaped
    peak,        \* history: the most handlers that ever ran at once
    served       \* history: clients whose last connection got a handler

vars == <<limit, conn, queue, mpc, cur, handler, zombies, peak, served>>

\* Entries of the process table that belong to the server's children.
Unreaped == Cardinality(handler) + zombies

TypeOK ==
    /\ limit \in Limits
    /\ conn \in [Clients -> {"idle", "queued", "open"}]
    /\ queue \in Seq(Clients)
    /\ mpc \in {"select", "fork", "close", "reap"}
    /\ cur \in Clients \cup {NoClient}
    /\ handler \in SUBSET Clients
    /\ zombies \in Nat
    /\ peak \in Nat
    /\ served \in SUBSET Clients

Init ==
    /\ limit \in Limits
    /\ conn = [c \in Clients |-> "idle"]
    /\ queue = <<>>
    /\ mpc = "select"
    /\ cur = NoClient
    /\ handler = {}
    /\ zombies = 0
    /\ peak = 0
    /\ served = {}

-------------------------------------------------------------------------------

\* A client connects; with a full backlog connect(2) waits.
Connect(c) ==
    /\ conn[c] = "idle"
    /\ Len(queue) < Backlog
    /\ conn' = [conn EXCEPT ![c] = "queued"]
    /\ queue' = Append(queue, c)
    /\ served' = served \ {c}
    /\ UNCHANGED <<limit, mpc, cur, handler, zombies, peak>>

\* STREAMSelect reports the listening socket and STREAMServerAccept takes the
\* oldest connection.
Accept ==
    /\ mpc = "select"
    /\ queue # <<>>
    /\ cur' = Head(queue)
    /\ queue' = Tail(queue)
    /\ conn' = [conn EXCEPT ![Head(queue)] = "open"]
    /\ mpc' = "fork"
    /\ UNCHANGED <<limit, handler, zombies, peak, served>>

\* fork() gives the connection a handler, which owns a copy of the socket.
ForkHandler ==
    /\ mpc = "fork"
    /\ Unreaped < limit
    /\ handler' = handler \cup {cur}
    /\ served' = served \cup {cur}
    /\ peak' = IF Cardinality(handler') > peak THEN Cardinality(handler') ELSE peak
    /\ mpc' = "close"
    /\ UNCHANGED <<limit, conn, queue, cur, zombies>>

\* fork() returns -1: HandleClient tests only for 0 and goes on as the parent.
ForkFails ==
    /\ mpc = "fork"
    /\ Unreaped >= limit
    /\ mpc' = "close"
    /\ UNCHANGED <<limit, conn, queue, cur, handler, zombies, peak, served>>


\* STREAMClose(S) in the parent.
CloseClient ==
    /\ mpc = "close"
    /\ cur' = NoClient
    /\ mpc' = "reap"
    /\ UNCHANGED <<limit, conn, queue, handler, zombies, peak, served>>

\* Mutated form: the waitpid is left out.
Reap_Nothing ==
    /\ mpc = "reap"
    /\ mpc' = "select"
    /\ UNCHANGED <<limit, conn, queue, cur, handler, zombies, peak, served>>

\* Mutated form: waitpid is taken to reap a child every time.
Reap_Always ==
    /\ mpc = "reap"
    /\ zombies' = zombies - 1
    /\ mpc' = "select"
    /\ UNCHANGED <<limit, conn, queue, cur, handler, peak, served>>

\* Mutated form: without WNOHANG, the parent waits for a handler to exit.
Reap_Waits ==
    /\ mpc = "reap"
    /\ zombies > 0 \/ handler = {}
    /\ zombies' = IF zombies > 0 THEN zombies - 1 ELSE 0
    /\ mpc' = "select"
    /\ UNCHANGED <<limit, conn, queue, cur, handler, peak, served>>

\* waitpid(-1, NULL, WNOHANG): at most one zombie, none if there is none.
Reap ==
    /\ mpc = "reap"
    /\ zombies' = IF zombies > 0 THEN zombies - 1 ELSE 0
    /\ mpc' = "select"
    /\ UNCHANGED <<limit, conn, queue, cur, handler, peak, served>>

\* The handler has answered its one request: STREAMClose(S); _exit(0).
HandlerExit(c) ==
    /\ c \in handler
    /\ handler' = handler \ {c}
    /\ zombies' = zombies + 1
    /\ UNCHANGED <<limit, conn, queue, mpc, cur, peak, served>>

\* The client reads end of file once neither process holds its socket.
ClientEOF(c) ==
    /\ conn[c] = "open"
    /\ c # cur
    /\ c \notin handler
    /\ conn' = [conn EXCEPT ![c] = "idle"]
    /\ UNCHANGED <<limit, queue, mpc, cur, handler, zombies, peak, served>>

Main == Accept \/ ForkHandler \/ ForkFails \/ CloseClient \/ Reap

Next == Main \/ \E c \in Clients : Connect(c) \/ HandlerExit(c) \/ ClientEOF(c)

Spec == Init /\ [][Next]_vars

\* The parent is a loop that never waits for a handler, and a client that reads
\* its socket sees the end.  Nothing is assumed of handlers: one may wait for
\* ever, for a command without end or for a client that says no more.
Fairness ==
    /\ WF_vars(Main)
    /\ \A c \in Clients : WF_vars(ClientEOF(c))

FairSpec == Spec /\ Fairness

-------------------------------------------------------------------------------

\* One non-blocking waitpid per connection, and no SIGCHLD handler, is enough
\* to keep the server's children bounded: whenever the parent waits for a
\* connection, handlers and zombies together are no more than the handlers
\* that once ran at the same time.
ReapingKeepsUp == mpc \in {"select", "fork"} => Unreaped <= peak

\* In between, a fork may exceed that by the one child the next waitpid makes
\* up for.
ChildrenBounded == Unreaped <= peak + 1

\* The process limit leaves one place more than there are clients.
Roomy == limit > Cardinality(Clients)

\* HandleClient does not tell a failed fork from a successful one: a connection
\* is closed unanswered exactly when it fails.  With room for
\* every client no connection ends without having had a handler.
NoConnectionDropped ==
    Roomy =>
        \A c \in Clients : conn[c] = "open" /\ c # cur => c \in served

\* With such room a client in the backlog gets its handler, also when other
\* handlers never exit: the parent does not wait for them.
EveryClientServed ==
    \A c \in Clients : Roomy /\ conn[c] = "queued" ~> c \in handler

\* A full process table is not the end of the server: zombies may fill it, but
\* the waitpid that follows a failed fork frees a place.  As long as clients keep
\* connecting some of them keep getting handlers, unless handlers that never
\* exit fill the table alone.
FullTableDrains ==
    []<>(mpc = "fork") /\ []<>(Cardinality(handler) < limit)
        => []<>(mpc = "close" /\ cur \in handler)

===============================================================================

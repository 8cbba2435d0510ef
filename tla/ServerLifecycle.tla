-------------------------- MODULE ServerLifecycle --------------------------
(***************************************************************************)
(* The server's accept loop, its handlers' threads and stop                *)
(* (brokerlite/server.py).                                                 *)
(*                                                                         *)
(* The accept loop tests the number of handlers and adds a new one under   *)
(* two separate acquisitions of the server's lock, and stop runs in a      *)
(* third thread.  What handlers do with requests is the subject of         *)
(* Connection, QueueServer and Broker.                                     *)
(*                                                                         *)
(* A socket is closed by close() alone, without shutdown().  On Linux that *)
(* takes the descriptor away, so that a later recv fails; but a recv that  *)
(* has begun is not woken, and keeps the connection open until it returns, *)
(* because the client has sent something or closed its end.                *)
(***************************************************************************)
EXTENDS Integers, FiniteSets

CONSTANTS
    Clients,          \* connections that clients make
    None,
    MaxConnections    \* max_connections

LifecycleAssumption ==
    /\ IsFiniteSet(Clients)
    /\ None \notin Clients
    /\ MaxConnections \in Nat

VARIABLES
    running,          \* _running
    listening,        \* the listening socket is open
    stopping,         \* where stop is
    loop, conn,       \* where the accept loop is, and the connection it has accepted
    handlers,         \* _handlers
    open,             \* connections that the server's kernel has not ended
    closed,           \* accepted ones whose socket object was closed
    thread,           \* what the handler's thread of each connection does
    active            \* handlers whose _active is set

vars == <<running, listening, stopping, loop, conn, handlers, open, closed, thread, active>>

\* Types of the server, its handlers and the connections.
TypeOK ==
    /\ running \in BOOLEAN /\ listening \in BOOLEAN
    /\ stopping \in {"no", "flag", "socket", "done"}
    /\ loop \in {"test", "accept", "accepted", "admitted", "added", "ended"}
    /\ conn \in Clients \cup {None}
    /\ (conn = None) <=> (loop \in {"test", "accept", "ended"})
    /\ handlers \subseteq Clients /\ open \subseteq Clients
    /\ closed \subseteq Clients /\ active \subseteq Clients
    /\ thread \in [Clients ->
           {"none", "test", "recv", "blocked", "cleanup", "remove", "done"}]
    /\ \A c \in handlers : thread[c] # "done" /\ (thread[c] = "none" => c = conn)

Init ==
    /\ running = TRUE /\ listening = TRUE
    /\ stopping = "no"
    /\ loop = "test" /\ conn = None
    /\ handlers = {} /\ open = {} /\ closed = {} /\ active = {}
    /\ thread = [c \in Clients |-> "none"]

-----------------------------------------------------------------------------
(* The accept loop *)

TestRunning ==
    /\ loop = "test"
    /\ loop' = IF running THEN "accept" ELSE "ended"
    /\ UNCHANGED <<running, listening, stopping, conn, handlers, open, closed, thread, active>>

\* accept returns a connection, a new socket object, or it times out, or fails
\* because the listening socket is closed.
Accept(c) ==
    /\ loop = "accept" /\ listening
    /\ thread[c] = "none" /\ c \notin open
    /\ conn' = c
    /\ open' = open \cup {c}
    /\ closed' = closed \ {c}
    /\ loop' = "accepted"
    /\ UNCHANGED <<running, listening, stopping, handlers, thread, active>>

AcceptNothing ==
    /\ loop = "accept"
    /\ loop' = IF listening THEN "test" ELSE "ended"
    /\ UNCHANGED <<running, listening, stopping, conn, handlers, open, closed, thread, active>>

Full_OffByOne == Cardinality(handlers) > MaxConnections

Full == Cardinality(handlers) >= MaxConnections

\* The first locked section: too many connections, or go on.
Admit ==
    /\ loop = "accepted"
    /\ IF Full
         THEN /\ open' = open \ {conn}
              /\ closed' = closed \cup {conn}
              /\ conn' = None
              /\ loop' = "test"
         ELSE /\ loop' = "admitted"
              /\ UNCHANGED <<open, closed, conn>>
    /\ UNCHANGED <<running, listening, stopping, handlers, thread, active>>

\* The second one.
AddHandler ==
    /\ loop = "admitted"
    /\ handlers' = handlers \cup {conn}
    /\ active' = active \cup {conn}
    /\ loop' = "added"
    /\ UNCHANGED <<running, listening, stopping, conn, open, closed, thread>>

StartThread ==
    /\ loop = "added"
    /\ thread' = [thread EXCEPT ![conn] = "test"]
    /\ conn' = None
    /\ loop' = "test"
    /\ UNCHANGED <<running, listening, stopping, handlers, open, closed, active>>

-----------------------------------------------------------------------------
(* A handler's thread *)

HandlerTest_ActiveOnly(c) ==
    /\ thread[c] = "test"
    /\ thread' = [thread EXCEPT ![c] = IF c \in active THEN "recv" ELSE "cleanup"]
    /\ UNCHANGED <<running, listening, stopping, loop, conn, handlers, open, closed, active>>

\* while self._active and self.server.is_running
HandlerTest(c) ==
    /\ thread[c] = "test"
    /\ thread' = [thread EXCEPT ![c] = IF c \in active /\ running THEN "recv" ELSE "cleanup"]
    /\ UNCHANGED <<running, listening, stopping, loop, conn, handlers, open, closed, active>>

\* recv is called: it fails if the socket was closed, and waits otherwise.
CallRecv(c) ==
    /\ thread[c] = "recv"
    /\ thread' = [thread EXCEPT ![c] = IF c \in closed THEN "cleanup" ELSE "blocked"]
    /\ UNCHANGED <<running, listening, stopping, loop, conn, handlers, open, closed, active>>

\* A recv that returns is the last user of a socket closed meanwhile.
RecvReturns(c) ==
    /\ thread[c] = "blocked"
    /\ open' = IF c \in closed THEN open \ {c} ELSE open

\* recv returns data, which are processed; a response that cannot be sent
\* clears _active.
Receive(c) ==
    /\ RecvReturns(c)
    /\ thread' = [thread EXCEPT ![c] = "test"]
    /\ \/ c \notin closed /\ UNCHANGED active
       \/ active' = active \ {c}
    /\ UNCHANGED <<running, listening, stopping, loop, conn, handlers, closed>>

\* The client has closed, or what it sent cannot be processed.
Disconnected(c) ==
    /\ RecvReturns(c)
    /\ thread' = [thread EXCEPT ![c] = "cleanup"]
    /\ UNCHANGED <<running, listening, stopping, loop, conn, handlers, closed, active>>

Cleanup(c) ==
    /\ thread[c] = "cleanup"
    /\ open' = open \ {c}
    /\ closed' = closed \cup {c}
    /\ thread' = [thread EXCEPT ![c] = "remove"]
    /\ UNCHANGED <<running, listening, stopping, loop, conn, handlers, active>>

RemoveHandler(c) ==
    /\ thread[c] = "remove"
    /\ handlers' = handlers \ {c}
    /\ thread' = [thread EXCEPT ![c] = "done"]
    /\ UNCHANGED <<running, listening, stopping, loop, conn, open, closed, active>>

-----------------------------------------------------------------------------
(* stop *)

Stop ==
    /\ stopping = "no"
    /\ stopping' = "flag"
    /\ running' = FALSE
    /\ UNCHANGED <<listening, loop, conn, handlers, open, closed, thread, active>>

CloseSocket ==
    /\ stopping = "flag"
    /\ stopping' = "socket"
    /\ listening' = FALSE
    /\ UNCHANGED <<running, loop, conn, handlers, open, closed, thread, active>>

\* Each handler's socket is closed, which ends the connection unless the
\* handler's thread is waiting in recv.
CloseConnections ==
    /\ stopping = "socket"
    /\ stopping' = "done"
    /\ active' = active \ handlers
    /\ closed' = closed \cup handlers
    /\ open' = open \ {c \in handlers : thread[c] # "blocked"}
    /\ handlers' = {}
    /\ UNCHANGED <<running, listening, loop, conn, thread>>

Next ==
    \/ TestRunning \/ AcceptNothing \/ Admit \/ AddHandler \/ StartThread
    \/ \E c \in Clients :
          \/ Accept(c) \/ HandlerTest(c) \/ CallRecv(c) \/ Receive(c)
          \/ Disconnected(c) \/ Cleanup(c) \/ RemoveHandler(c)
    \/ Stop \/ CloseSocket \/ CloseConnections

Spec == Init /\ [][Next]_vars

-----------------------------------------------------------------------------
(* Properties *)

\* max_connections holds although the lock is released between the test and
\* the addition of a handler.
ConnectionsBounded == Cardinality(handlers) <= MaxConnections

\* The accept loop has ended, and so has each handler's thread, or it waits in
\* recv for its client.
Quiescent ==
    /\ loop = "ended"
    /\ \A c \in Clients : thread[c] \in {"none", "blocked", "done"}

\* stop misses no connection, wherever the accept loop and the handlers are when
\* it goes through the list, the connection included that had been accepted
\* before and gets its handler afterwards (server.py 384-404, 411-429): from then
\* on no handler begins to wait for a client; and when the server has come to rest,
\* no handler is in the list, and the connections still open are those that
\* stop has closed while their handlers were waiting in recv.
StopReachesAll ==
    stopping = "done" =>
        /\ \A c \in Clients : thread[c] \in {"recv", "blocked"} => c \in closed
        /\ Quiescent => /\ handlers = {}
                        /\ \A c \in open : thread[c] = "blocked" /\ c \in closed
=============================================================================

------------------------------- MODULE Server -------------------------------
(***************************************************************************)
(* The process: proxyListen accepts connections, gives each one a Proxy     *)
(* object and a thread (runProxy1), whose end runs ~Proxy; the descriptors  *)
(* all of them share; and run.sh, which starts main again when it ends.     *)
(* What a thread does with its sockets is in Exchange, Tunnel and Proxy.    *)
(***************************************************************************)
EXTENDS Naturals, FiniteSets

CONSTANTS
    Conns,   \* the connections that clients make
    MaxFd,   \* the limit of open descriptors, the standard ones not counted
    NULL

ASSUME FdAssumption == MaxFd \in Nat \ {0}

ASSUME NullAssumption == NULL \notin Conns \cup (0 .. MaxFd)

VARIABLES
    main,      \* "listening" in proxyListen's loop; "deaf" there with no socket left
    listener,  \* socket_fd
    fds,       \* what each descriptor refers to
    conn,      \* each connection, as its client sees it
    thread,    \* each connection's thread and its Proxy object
    stray      \* history: has ~Proxy closed what an unset server_des named?

vars == <<main, listener, fds, conn, thread, stray>>

Fd == 1 .. MaxFd

Socket(role, c) == [role |-> role, conn |-> c]

Closed == Socket("closed", NULL)

Listening == Socket("listener", NULL)

Free == {f \in Fd : fds[f] = Closed}

\* A new descriptor is the lowest one that is not in use.
Lowest(f) == f \in Free /\ \A g \in Free : f <= g

\* The constructor leaves server_des as it finds it: NULL, a value not set.
NoThread == [pc |-> "none", socket_des |-> 0, server_des |-> NULL, socket_server |-> 0]

Init ==
    /\ main = "down"
    /\ listener = 0
    /\ fds = [f \in Fd |-> Closed]
    /\ conn = [c \in Conns |-> "outside"]
    /\ thread = [c \in Conns |-> NoThread]
    /\ stray = FALSE

In(c, places) == thread[c].pc \in places

\* The thread goes on elsewhere, with these values of server_des and of
\* connectServer's socket_server.
Goto(c, place, server_des, socket_server) ==
    thread' = [thread EXCEPT ![c] =
        [pc |-> place, socket_des |-> thread[c].socket_des,
         server_des |-> server_des, socket_server |-> socket_server]]

-----------------------------------------------------------------------------
(* main, proxyListen, run.sh.                                               *)

\* The process ends: the kernel closes everything, run.sh starts main anew.
Dies ==
    /\ main' = "down"
    /\ listener' = 0
    /\ fds' = [f \in Fd |-> Closed]
    /\ conn' = [c \in Conns |-> IF conn[c] = "outside" THEN "outside" ELSE "closed"]
    /\ thread' = [c \in Conns |-> NoThread]
    /\ stray' = FALSE

Start ==
    /\ main = "down"
    /\ main' = "listening"
    /\ \E f \in Fd :
          /\ Lowest(f)
          /\ listener' = f
          /\ fds' = [fds EXCEPT ![f] = Listening]
    /\ UNCHANGED <<conn, thread, stray>>

\* No address, socket, bind or listen: main returns or exits.
StartFails ==
    /\ main = "down"
    /\ UNCHANGED vars

\* accept is called again, and waits; it fails when the descriptor is no
\* listening socket any more, which is then closed with all that wait for it.
AcceptAgain(served) ==
    /\ main' = IF fds[listener] = Listening THEN "listening" ELSE "deaf"
    /\ conn' = [c \in Conns |->
                  IF c \in served THEN "served"
                  ELSE IF conn[c] = "pending" /\ main' = "deaf" THEN "closed"
                  ELSE conn[c]]

\* The call holds on to the socket that it waits on, also when a thread closes
\* its descriptor.
Accept(c) ==
    /\ main = "listening" /\ conn[c] = "pending"
    /\ \E f \in Fd :
          /\ Lowest(f)
          /\ fds' = [fds EXCEPT ![f] = Socket("client", c)]
          /\ thread' = [thread EXCEPT ![c] =
                [pc |-> "request", socket_des |-> f, server_des |-> NULL, socket_server |-> 0]]
    /\ AcceptAgain({c})
    /\ UNCHANGED <<listener, stray>>

\* accept returns -1: a line in the log, and accept again.
AcceptFails ==
    /\ main = "deaf" \/ (main = "listening" /\ Free = {})
    /\ AcceptAgain({})
    /\ UNCHANGED <<listener, fds, thread, stray>>

\* The constructor of std::thread throws, and nobody catches it.
NoThreadLeft ==
    /\ main = "listening"
    /\ \E c \in Conns : conn[c] = "pending"
    /\ Free # {}
    /\ Dies

-----------------------------------------------------------------------------
(* close(2).                                                                *)

\* Calls that wait hold on to their socket: accept, and recv, send and select.
Waits(c) == In(c, {"request", "exchange"})

\* mutant: 0 is a descriptor too
CloseZero(f) ==
    /\ fds' = [g \in Fd \cup {f} |-> IF g = f THEN Closed ELSE fds[g]]
    /\ UNCHANGED <<main, conn>>

\* mutant: shutdown(2) instead
Shutdown(f) ==
    /\ UNCHANGED <<fds, main>>
    /\ conn' = [c \in Conns |->
                  IF f \in Fd /\ fds[f] = Socket("client", c) THEN "closed" ELSE conn[c]]

\* close(2): whatever the descriptor refers to now, or nothing (EBADF).  Who
\* waits may hold on to it, or be between two calls.
Close(f) ==
    /\ fds' = [g \in Fd |-> IF g = f THEN Closed ELSE fds[g]]
    /\ \E held \in BOOLEAN :
          /\ main' = IF f \in Fd /\ fds[f] = Listening /\ ~held THEN "deaf" ELSE main
          /\ conn' = [c \in Conns |->
                IF \/ f \in Fd /\ fds[f] = Socket("client", c) /\ ~(held /\ Waits(c))
                   \/ conn[c] = "pending" /\ main' = "deaf"
                THEN "closed" ELSE conn[c]]

-----------------------------------------------------------------------------
(* runProxy1 and connectServer.                                             *)

\* A call that has waited for a peer returns; it has held on to a client's
\* socket whose descriptor was closed meanwhile.
Returned(c) ==
    conn' = [conn EXCEPT ![c] =
                IF fds[thread[c].socket_des] = Socket("client", c) THEN @ ELSE "closed"]

\* A request that is refused or answered from the cache needs no server.
Request(c) ==
    /\ In(c, {"request"})
    /\ \E place \in {"connect", "end"} : Goto(c, place, thread[c].server_des, 0)
    /\ Returned(c)
    /\ UNCHANGED <<main, listener, fds, stray>>

MakeSocket(c) ==
    /\ In(c, {"connect"})
    /\ \E f \in Fd :
          /\ Lowest(f)
          /\ fds' = [fds EXCEPT ![f] = Socket("unconnected", c)]
          /\ Goto(c, "connecting", thread[c].server_des, f)
    /\ UNCHANGED <<main, listener, conn, stray>>

\* mutant: tries again until there is one
NoSocketAgain(c) ==
    /\ In(c, {"connect"})
    /\ UNCHANGED vars

\* No address, or no descriptor: 404 and an exception.
NoSocket(c) ==
    /\ In(c, {"connect"})
    /\ Goto(c, "end", thread[c].server_des, 0)
    /\ UNCHANGED <<main, listener, fds, conn, stray>>

\* mutant: the exchange goes on with the local variable only
ConnectUnrecorded(c) ==
    /\ In(c, {"connecting"})
    /\ LET f == thread[c].socket_server IN
          /\ fds[f].role = "unconnected"
          /\ fds' = [fds EXCEPT ![f] = Socket("server", c)]
    /\ Goto(c, "exchange", thread[c].server_des, 0)
    /\ UNCHANGED <<main, listener, conn, stray>>

Connect(c) ==
    /\ In(c, {"connecting"})
    /\ LET f == thread[c].socket_server IN
          /\ fds[f].role = "unconnected"
          /\ fds' = [fds EXCEPT ![f] = Socket("server", c)]
          /\ Goto(c, "exchange", f, 0)
    /\ UNCHANGED <<main, listener, conn, stray>>

\* 404 and an exception; nobody closes the socket.
ConnectFails(c) ==
    /\ In(c, {"connecting"})
    /\ Goto(c, "end", thread[c].server_des, 0)
    /\ UNCHANGED <<main, listener, fds, conn, stray>>

Exchange(c) ==
    /\ In(c, {"exchange"})
    /\ Goto(c, "end", thread[c].server_des, 0)
    /\ Returned(c)
    /\ UNCHANGED <<main, listener, fds, stray>>

\* A send to a peer that is gone raises SIGPIPE.
Killed(c) ==
    /\ In(c, {"request", "connect", "connecting", "exchange"})
    /\ Dies

-----------------------------------------------------------------------------
(* ~Proxy.                                                                  *)

\* mutant: the client's socket stays open
KeepClient(c) ==
    /\ In(c, {"end"})
    /\ Goto(c, "clientClosed", thread[c].server_des, 0)
    /\ UNCHANGED <<main, listener, fds, conn, stray>>

CloseClient(c) ==
    /\ In(c, {"end"})
    /\ Close(thread[c].socket_des)
    /\ Goto(c, "clientClosed", thread[c].server_des, 0)
    /\ UNCHANGED <<listener, stray>>

\* mutant: a server_des that is not set is the client's socket
CloseClientTwice(c) ==
    /\ In(c, {"clientClosed"})
    /\ Close(IF thread[c].server_des = NULL THEN thread[c].socket_des ELSE thread[c].server_des)
    /\ thread' = [thread EXCEPT ![c] = NoThread]
    /\ UNCHANGED <<listener, stray>>

\* if (server_des): 0 closes nothing, nor does what is no descriptor.  A thread
\* that has not connected reads what the memory of its object holds.
CloseServer(c) ==
    /\ In(c, {"clientClosed"})
    /\ \E f \in IF thread[c].server_des = NULL THEN Fd \cup {0} ELSE {thread[c].server_des} :
          /\ Close(f)
          /\ stray' = (stray \/ (thread[c].server_des = NULL /\ f \in Fd \ Free))
    /\ thread' = [thread EXCEPT ![c] = NoThread]
    /\ UNCHANGED listener

-----------------------------------------------------------------------------
\* The clients; a connection that is over may be followed by another.
Arrive(c) ==
    /\ main = "listening"
    /\ conn[c] \in {"outside", "closed"} /\ In(c, {"none"})
    /\ conn' = [conn EXCEPT ![c] = "pending"]
    /\ UNCHANGED <<main, listener, fds, thread, stray>>

\* What a thread does that waits for no peer.
Prompt(c) ==
    \/ MakeSocket(c) \/ NoSocket(c) \/ Connect(c) \/ ConnectFails(c)
    \/ CloseClient(c) \/ CloseServer(c)

Next ==
    \/ Start \/ StartFails \/ AcceptFails \/ NoThreadLeft
    \/ \E c \in Conns : Arrive(c) \/ Accept(c) \/ Request(c) \/ Exchange(c) \/ Prompt(c) \/ Killed(c)

Spec == Init /\ [][Next]_vars

\* main and the threads run and connect returns; main can start some time.
\* Connections are accepted in the order in which they came, so a descriptor
\* that becomes free is not taken by later ones for ever: strong fairness.
\* Nothing is assumed of the peers: Request and Exchange wait for them.
FairSpec ==
    /\ Spec
    /\ WF_vars(Start)
    /\ \A c \in Conns : SF_vars(Accept(c)) /\ WF_vars(Prompt(c))

-----------------------------------------------------------------------------
(* Properties.                                                              *)

Live == {"request", "connect", "connecting", "exchange", "end", "clientClosed"}

Connected == {"exchange", "end", "clientClosed"}

ServerTypeOK ==
    /\ main \in {"down", "listening", "deaf"}
    /\ listener \in Fd \cup {0}
    /\ fds \in [Fd -> [role : {"closed", "listener", "client", "unconnected", "server"},
                       conn : Conns \cup {NULL}]]
    /\ conn \in [Conns -> {"outside", "pending", "served", "closed"}]
    /\ thread \in [Conns -> [pc : Live \cup {"none"}, socket_des : Fd \cup {0},
                             server_des : Fd \cup {NULL}, socket_server : Fd \cup {0}]]
    /\ stray \in BOOLEAN

\* No descriptor is lost, whatever is closed by mistake and used again: an open
\* one is the listener, the socket of a thread that is still there and will
\* close it, or one whose connect has failed or is under way.
Accounted ==
    \A f \in Fd :
        \/ fds[f] = Closed
        \/ fds[f] = Listening /\ f = listener
        \/ \E c \in Conns :
              \/ /\ fds[f] = Socket("client", c)
                 /\ In(c, Live \ {"clientClosed"}) /\ thread[c].socket_des = f
              \/ /\ fds[f] = Socket("server", c)
                 /\ In(c, Connected) /\ thread[c].server_des = f
              \/ fds[f] = Socket("unconnected", c)

\* All harm comes from the server_des that proxy.hpp:31 leaves unset: until a
\* thread that never connected has closed what was found there, main has its
\* listening socket and every thread its sockets, none of them closed or used
\* again by another.
OnlyStraysHarm ==
    ~stray /\ main # "down" =>
        /\ main = "listening" /\ fds[listener] = Listening
        /\ \A c \in Conns :
              /\ In(c, Live \ {"clientClosed"}) => fds[thread[c].socket_des] = Socket("client", c)
              /\ In(c, {"connecting"}) => fds[thread[c].socket_server] = Socket("unconnected", c)
              /\ thread[c].server_des # NULL => fds[thread[c].server_des] = Socket("server", c)

\* A client is not kept waiting by a thread that has ended or has lost its
\* descriptor: while the connection is open, its thread is there and can reach
\* it, by the descriptor or in the call that waits on it.
ClosedWithThread ==
    \A c \in Conns :
        conn[c] = "served" =>
            /\ In(c, Live \ {"clientClosed"})
            /\ fds[thread[c].socket_des] = Socket("client", c) \/ Waits(c)

\* Every accepted connection is closed some time, also when it lost its
\* descriptor to another thread, unless the thread waits for a peer for ever:
\* recvBuff and the tunnel's select have no timeout.
EveryConnectionEnds ==
    \A c \in Conns : []<>~Waits(c) => (conn[c] = "served" ~> conn[c] = "closed")

\* A client that has connected is accepted some time, or its connection is
\* closed, if no thread waits for ever and holds its descriptor.  The sockets
\* that failed connects leak take up the descriptors that servers need, but
\* never the last one, which a client's own socket leaves behind.
EveryClientAccepted ==
    (\A c \in Conns : []<>~Waits(c)) =>
        \A c \in Conns : conn[c] = "pending" ~> conn[c] # "pending"
=============================================================================

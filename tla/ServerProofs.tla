---------------------------- MODULE ServerProofs ----------------------------
(***************************************************************************)
(* Proofs about Server: what holds of the descriptors and the threads for   *)
(* any number of connections and descriptors, although the destructor may   *)
(* close descriptors that belong to others, and what holds as long as it    *)
(* has not.                                                                 *)
(***************************************************************************)
EXTENDS Server, TLAPS

Records == [pc : Live \cup {"none"}, socket_des : Fd \cup {0},
            server_des : Fd \cup {NULL}, socket_server : Fd \cup {0}]

Files == [role : {"closed", "listener", "client", "unconnected", "server"},
          conn : Conns \cup {NULL}]

ThreadsOK ==
    /\ main # "down" => listener \in Fd
    /\ \A c \in Conns :
          /\ conn[c] = "pending" => In(c, {"none"})
          /\ In(c, {"connecting"}) => thread[c].socket_server \in Fd
          /\ In(c, Live) => thread[c].socket_des \in Fd
          /\ thread[c].server_des # NULL => In(c, Connected)

NothingLeft ==
    main = "down" =>
        /\ fds = [f \in Fd |-> Closed]
        /\ thread = [c \in Conns |-> NoThread]

IInv == ServerTypeOK /\ Accounted /\ OnlyStraysHarm /\ ClosedWithThread
          /\ ThreadsOK /\ NothingLeft

-----------------------------------------------------------------------------
\* The type of a descriptor's content and of a thread's record.
LEMMA Typed ==
    ASSUME ServerTypeOK
    PROVE  /\ \A c \in Conns : thread[c] \in Records
           /\ thread \in [Conns -> Records]
           /\ fds \in [Fd -> Files]
           /\ 0 \notin Fd
  BY DEF ServerTypeOK, Records, Files, Fd

\* What a descriptor refers to tells whose it is.
LEMMA Sockets ==
    /\ \A r, q, d, e : Socket(r, d) = Socket(q, e) => r = q /\ d = e
    /\ \A d : Socket("client", d) # Closed /\ Socket("server", d) # Closed
                /\ Socket("unconnected", d) # Closed
    /\ \A d : Socket("client", d) # Listening /\ Socket("server", d) # Listening
                /\ Socket("unconnected", d) # Listening
    /\ Listening # Closed
    /\ Closed.role = "closed" /\ Listening.role = "listener"
    /\ \A r, d : Socket(r, d).role = r
<1>1. \A r, q, d, e : Socket(r, d) = Socket(q, e) => r = q /\ d = e
  <2> TAKE r, q, d, e
  <2> HAVE Socket(r, d) = Socket(q, e)
  <2>1. Socket(r, d).role = r /\ Socket(q, e).role = q
    BY DEF Socket
  <2>2. Socket(r, d).conn = d /\ Socket(q, e).conn = e
    BY DEF Socket
  <2>3. QED
    BY <2>1, <2>2
<1>2. \A r, d : Socket(r, d).role = r
  BY DEF Socket
<1>3. QED
  BY <1>1, <1>2 DEF Closed, Listening

\* A thread is only there while main is.
LEMMA Running ==
    ASSUME IInv, NEW c \in Conns, In(c, Live)
    PROVE  main # "down" /\ listener \in Fd
  BY DEF IInv, ThreadsOK, NothingLeft, In, NoThread, Live

\* A step of a thread that touches no descriptor.
LEMMA ThreadStep ==
    ASSUME IInv, NEW c \in Conns, In(c, Live \ {"clientClosed"}),
           NEW place \in {"connect", "end"},
           place = "connect" => In(c, {"request"}),
           Goto(c, place, thread[c].server_des, 0),
           \/ Returned(c)
           \/ ~Waits(c) /\ UNCHANGED conn,
           UNCHANGED <<main, listener, fds, stray>>
    PROVE  IInv'
<1> DEFINE r == [pc |-> place, socket_des |-> thread[c].socket_des,
                 server_des |-> thread[c].server_des, socket_server |-> 0]
<1>1. thread' = [thread EXCEPT ![c] = r]
  BY DEF Goto
<1>2. thread \in [Conns -> Records] /\ thread[c] \in Records
  BY Typed DEF IInv
<1>3. /\ r \in Records /\ place \in Live \ {"clientClosed"}
      /\ r.pc = place /\ r.socket_des = thread[c].socket_des
      /\ r.server_des = thread[c].server_des /\ r.socket_server = 0
  BY <1>2 DEF Records, Live
<1> HIDE DEF r
<1>4. \A d \in Conns : thread'[d] = IF d = c THEN r ELSE thread[d]
  BY <1>1, <1>2
<1>5. /\ conn' \in [Conns -> {"outside", "pending", "served", "closed"}]
      /\ \A d \in Conns \ {c} : conn'[d] = conn[d]
      /\ conn'[c] \in {conn[c], "closed"}
      /\ conn'[c] = "served" => fds[thread[c].socket_des] = Socket("client", c)
  <2>1. conn \in [Conns -> {"outside", "pending", "served", "closed"}]
    BY DEF IInv, ServerTypeOK
  <2>2. CASE Returned(c)
    BY <2>1, <2>2 DEF Returned
  <2>3. CASE ~Waits(c) /\ UNCHANGED conn
    <3>1. conn[c] = "served" => fds[thread[c].socket_des] = Socket("client", c)
      BY <2>3 DEF IInv, ClosedWithThread
    <3>2. QED
      BY <2>1, <2>3, <3>1
  <2>4. QED
    BY <2>2, <2>3
<1>6. ServerTypeOK'
  <2>1. thread' \in [Conns -> Records]
    BY <1>1, <1>2, <1>3
  <2>2. QED
    BY <2>1, <1>5 DEF IInv, ServerTypeOK, Records
<1>7. Accounted'
  <2> SUFFICES ASSUME NEW g \in Fd
               PROVE  \/ fds[g] = Closed
                      \/ fds[g] = Listening /\ g = listener
                      \/ \E d \in Conns :
                            \/ /\ fds[g] = Socket("client", d)
                               /\ thread'[d].pc \in Live \ {"clientClosed"}
                               /\ thread'[d].socket_des = g
                            \/ /\ fds[g] = Socket("server", d)
                               /\ thread'[d].pc \in Connected /\ thread'[d].server_des = g
                            \/ fds[g] = Socket("unconnected", d)
    BY DEF Accounted, In
  <2>1. ASSUME NEW d \in Conns, In(d, Live \ {"clientClosed"}), thread[d].socket_des = g
        PROVE  thread'[d].pc \in Live \ {"clientClosed"} /\ thread'[d].socket_des = g
    BY <2>1, <1>3, <1>4 DEF In
  <2>2. ASSUME NEW d \in Conns, In(d, Connected), thread[d].server_des = g
        PROVE  thread'[d].pc \in Connected /\ thread'[d].server_des = g
    BY <2>2, <1>3, <1>4 DEF In, Connected
  <2>3. QED
    BY <2>1, <2>2 DEF IInv, Accounted
<1>8. ClosedWithThread'
  BY <1>3, <1>4, <1>5 DEF IInv, ClosedWithThread, In, Waits
<1>9. OnlyStraysHarm'
  BY <1>3, <1>4 DEF IInv, OnlyStraysHarm, In, Live
<1>10. ThreadsOK'
  <2>1. thread[c].server_des # NULL => place \in Connected
    BY DEF IInv, ThreadsOK, In, Connected
  <2>2. thread[c].socket_des \in Fd /\ conn'[c] # "pending"
    BY <1>5 DEF IInv, ThreadsOK, In, Live
  <2>3. QED
    BY <1>3, <1>4, <1>5, <2>1, <2>2 DEF IInv, ThreadsOK, In
<1>11. NothingLeft'
  BY Running DEF NothingLeft, In, Live
<1>12. QED
  BY <1>6, <1>7, <1>8, <1>9, <1>10, <1>11 DEF IInv

-----------------------------------------------------------------------------
(* main.                                                                    *)

\* When the process dies nothing is left, whatever was before.
LEMMA DiesStep ==
    ASSUME IInv, Dies
    PROVE  IInv'
<1>1. ServerTypeOK'
  BY DEF IInv, ServerTypeOK, Dies, Closed, Socket, NoThread, Live, Fd
<1>2. Accounted' /\ OnlyStraysHarm' /\ NothingLeft'
  BY DEF Accounted, OnlyStraysHarm, NothingLeft, Dies
<1>3. ClosedWithThread'
  BY DEF ClosedWithThread, Dies
<1>4. ThreadsOK'
  BY DEF ThreadsOK, Dies, In, NoThread, Live
<1>5. QED
  BY <1>1, <1>2, <1>3, <1>4 DEF IInv

\* main binds a new socket and listens.
LEMMA StartStep ==
    ASSUME IInv, Start
    PROVE  IInv'
<1>1. PICK f \in Fd : /\ listener' = f
                      /\ fds' = [fds EXCEPT ![f] = Listening]
  BY DEF Start
<1>2. /\ main' = "listening" /\ main = "down"
      /\ UNCHANGED <<conn, thread, stray>>
  BY DEF Start
<1>3. fds = [g \in Fd |-> Closed] /\ thread = [c \in Conns |-> NoThread]
  BY <1>2 DEF IInv, NothingLeft
<1>4. fds' = [g \in Fd |-> IF g = f THEN Listening ELSE Closed]
  BY <1>1, <1>3
<1>5. ServerTypeOK'
  BY <1>1, <1>2, <1>4 DEF IInv, ServerTypeOK, Socket, Closed, Listening
<1>6. Accounted'
  BY <1>1, <1>2, <1>4 DEF Accounted
<1>7. \A c \in Conns : /\ thread[c] = NoThread /\ thread'[c] = NoThread
                       /\ thread'[c].pc = "none" /\ thread'[c].server_des = NULL
  BY <1>2, <1>3 DEF NoThread
<1>8. ClosedWithThread' /\ ThreadsOK' /\ OnlyStraysHarm'
  <2>1. \A c \in Conns : conn'[c] # "served"
    BY <1>7, <1>2 DEF IInv, ClosedWithThread, In, Live
  <2>2. QED
    BY <2>1, <1>1, <1>2, <1>4, <1>7 DEF ClosedWithThread, ThreadsOK, OnlyStraysHarm, In, Live
<1>9. NothingLeft'
  BY <1>2 DEF NothingLeft
<1>10. QED
  BY <1>5, <1>6, <1>8, <1>9 DEF IInv

\* What the next call of accept finds.
LEMMA AcceptAgainEffect ==
    ASSUME IInv, NEW served \in SUBSET Conns, AcceptAgain(served), main # "down"
    PROVE  /\ main' \in {"listening", "deaf"}
           /\ ~stray => main' = "listening"
           /\ conn' \in [Conns -> {"outside", "pending", "served", "closed"}]
           /\ \A c \in Conns \ served : conn'[c] \in {conn[c], "closed"}
           /\ \A c \in served : conn'[c] = "served"
<1>1. main' = IF fds[listener] = Listening THEN "listening" ELSE "deaf"
  BY DEF AcceptAgain
<1>2. conn' = [c \in Conns |->
                  IF c \in served THEN "served"
                  ELSE IF conn[c] = "pending" /\ main' = "deaf" THEN "closed"
                  ELSE conn[c]]
  BY DEF AcceptAgain
<1>3. conn \in [Conns -> {"outside", "pending", "served", "closed"}]
  BY DEF IInv, ServerTypeOK
<1>4. ~stray => fds[listener] = Listening
  BY DEF IInv, OnlyStraysHarm
<1>5. QED
  BY <1>1, <1>2, <1>3, <1>4

\* A failed accept at most finds that there is no socket any more.
LEMMA AcceptFailsStep ==
    ASSUME IInv, AcceptFails
    PROVE  IInv'
<1>1. main # "down" /\ AcceptAgain({}) /\ UNCHANGED <<listener, fds, thread, stray>>
  BY DEF AcceptFails
<1>2. /\ main' \in {"listening", "deaf"} /\ (~stray => main' = "listening")
      /\ conn' \in [Conns -> {"outside", "pending", "served", "closed"}]
      /\ \A c \in Conns : conn'[c] \in {conn[c], "closed"}
  BY <1>1, AcceptAgainEffect
<1>3. ServerTypeOK'
  BY <1>1, <1>2 DEF IInv, ServerTypeOK
<1>4. Accounted'
  BY <1>1 DEF IInv, Accounted, In
<1>5. OnlyStraysHarm'
  BY <1>1, <1>2 DEF IInv, OnlyStraysHarm, In
<1>6. ClosedWithThread' /\ ThreadsOK' /\ NothingLeft'
  BY <1>1, <1>2 DEF IInv, ClosedWithThread, ThreadsOK, NothingLeft, In, Waits
<1>7. QED
  BY <1>3, <1>4, <1>5, <1>6 DEF IInv

\* The new connection's descriptor was closed.
LEMMA AcceptStep ==
    ASSUME IInv, NEW c \in Conns, Accept(c)
    PROVE  IInv'
<1> DEFINE r(f) == [pc |-> "request", socket_des |-> f, server_des |-> NULL,
                    socket_server |-> 0]
<1>1. PICK f \in Fd :
         /\ Lowest(f)
         /\ fds' = [fds EXCEPT ![f] = Socket("client", c)]
         /\ thread' = [thread EXCEPT ![c] = r(f)]
  BY DEF Accept
<1>2. /\ main = "listening" /\ conn[c] = "pending" /\ AcceptAgain({c})
      /\ UNCHANGED <<listener, stray>>
  BY DEF Accept
<1>3. fds[f] = Closed
  BY <1>1 DEF Lowest, Free
<1>4. In(c, {"none"})
  BY <1>2 DEF IInv, ThreadsOK
<1>5. /\ main' \in {"listening", "deaf"} /\ (~stray => main' = "listening")
      /\ conn' \in [Conns -> {"outside", "pending", "served", "closed"}]
      /\ \A d \in Conns \ {c} : conn'[d] \in {conn[d], "closed"}
      /\ conn'[c] = "served"
  BY <1>2, AcceptAgainEffect
<1>6. /\ r(f) \in Records /\ r(f).pc = "request" /\ r(f).socket_des = f
      /\ r(f).server_des = NULL
  BY DEF Records, Live
<1>7. thread \in [Conns -> Records] /\ fds \in [Fd -> Files]
  BY Typed DEF IInv
<1> HIDE DEF r
<1>8. \A d \in Conns : thread'[d] = IF d = c THEN r(f) ELSE thread[d]
  BY <1>1, <1>7
<1>9. \A g \in Fd : fds'[g] = IF g = f THEN Socket("client", c) ELSE fds[g]
  BY <1>1, <1>7
<1>10. ServerTypeOK'
  <2>1. thread' \in [Conns -> Records]
    BY <1>1, <1>6, <1>7
  <2>2. fds' \in [Fd -> Files]
    BY <1>1, <1>7 DEF Files, Socket
  <2>3. QED
    BY <2>1, <2>2, <1>2, <1>5 DEF IInv, ServerTypeOK, Records, Files
<1>11. Accounted'
  <2> SUFFICES ASSUME NEW g \in Fd
               PROVE  \/ fds'[g] = Closed
                      \/ fds'[g] = Listening /\ g = listener
                      \/ \E d \in Conns :
                            \/ /\ fds'[g] = Socket("client", d)
                               /\ thread'[d].pc \in Live \ {"clientClosed"}
                               /\ thread'[d].socket_des = g
                            \/ /\ fds'[g] = Socket("server", d)
                               /\ thread'[d].pc \in Connected /\ thread'[d].server_des = g
                            \/ fds'[g] = Socket("unconnected", d)
    BY <1>2 DEF Accounted, In
  <2>1. CASE g = f
    BY <2>1, <1>8, <1>9, <1>6 DEF Live
  <2>2. CASE g # f
    BY <2>2, <1>8, <1>9, <1>4 DEF IInv, Accounted, In, Live, Connected
  <2>3. QED
    BY <2>1, <2>2
<1>12. OnlyStraysHarm'
  <2> SUFFICES ASSUME ~stray
               PROVE  /\ main' = "listening" /\ fds'[listener] = Listening
                      /\ \A d \in Conns :
                            /\ thread'[d].pc \in Live \ {"clientClosed"} =>
                                  fds'[thread'[d].socket_des] = Socket("client", d)
                            /\ thread'[d].pc = "connecting" =>
                                  fds'[thread'[d].socket_server] = Socket("unconnected", d)
                            /\ thread'[d].server_des # NULL =>
                                  fds'[thread'[d].server_des] = Socket("server", d)
    BY <1>2 DEF OnlyStraysHarm, In
  <2>1. /\ fds[listener] = Listening
        /\ \A d \in Conns :
              /\ thread[d].pc \in Live \ {"clientClosed"} =>
                    fds[thread[d].socket_des] = Socket("client", d)
              /\ thread[d].pc = "connecting" =>
                    fds[thread[d].socket_server] = Socket("unconnected", d)
              /\ thread[d].server_des # NULL =>
                    fds[thread[d].server_des] = Socket("server", d)
    BY <1>2 DEF IInv, OnlyStraysHarm, In
  <2>2. \A g : fds[g] # Closed => fds'[g] = fds[g]
    BY <1>1, <1>3, <1>7
  <2>3. fds'[listener] = Listening
    BY <2>1, <2>2, Sockets
  <2>4. ASSUME NEW d \in Conns
        PROVE  /\ thread'[d].pc \in Live \ {"clientClosed"} =>
                     fds'[thread'[d].socket_des] = Socket("client", d)
               /\ thread'[d].pc = "connecting" =>
                     fds'[thread'[d].socket_server] = Socket("unconnected", d)
               /\ thread'[d].server_des # NULL =>
                     fds'[thread'[d].server_des] = Socket("server", d)
    <3>1. CASE d = c
      BY <3>1, <1>6, <1>8, <1>9
    <3>2. CASE d # c
      BY <3>2, <1>8, <2>1, <2>2, Sockets
    <3>3. QED
      BY <3>1, <3>2
  <2>5. QED
    BY <1>5, <2>3, <2>4
<1>13. ClosedWithThread'
  <2> SUFFICES ASSUME NEW d \in Conns, conn'[d] = "served"
               PROVE  /\ thread'[d].pc \in Live \ {"clientClosed"}
                      /\ \/ fds'[thread'[d].socket_des] = Socket("client", d)
                         \/ thread'[d].pc \in {"request", "exchange"}
    BY DEF ClosedWithThread, In, Waits
  <2>1. CASE d = c
    BY <2>1, <1>6, <1>8 DEF Live
  <2>2. CASE d # c
    <3>1. conn[d] = "served"
      BY <2>2, <1>5
    <3>2. /\ thread[d].pc \in Live \ {"clientClosed"}
          /\ \/ fds[thread[d].socket_des] = Socket("client", d)
             \/ thread[d].pc \in {"request", "exchange"}
      BY <3>1 DEF IInv, ClosedWithThread, In, Waits
    <3>3. fds[thread[d].socket_des] = Socket("client", d) =>
             fds'[thread[d].socket_des] = Socket("client", d)
      BY <1>1, <1>3, <1>7, Sockets
    <3>4. QED
      BY <2>2, <3>2, <3>3, <1>8
  <2>3. QED
    BY <2>1, <2>2
<1>14. ThreadsOK'
  BY <1>2, <1>5, <1>6, <1>8 DEF IInv, ThreadsOK, In
<1>15. NothingLeft'
  BY <1>5 DEF NothingLeft
<1>16. QED
  BY <1>10, <1>11, <1>12, <1>13, <1>14, <1>15 DEF IInv

-----------------------------------------------------------------------------
(* connectServer.                                                           *)

\* A thread gives a descriptor that is free, or an unconnected socket, to a
\* socket of its own: what MakeSocket and Connect do.
LEMMA OwnSocketStep ==
    ASSUME IInv, NEW c \in Conns, NEW f \in Fd,
           In(c, {"connect", "connecting"}),
           fds[f].role \in {"closed", "unconnected"},
           NEW role, NEW place, NEW serv,
           \/ role = "unconnected" /\ place = "connecting" /\ serv = thread[c].server_des
                /\ fds[f] = Closed
           \/ role = "server" /\ place = "exchange" /\ serv = f
                /\ f = thread[c].socket_server /\ In(c, {"connecting"}),
           fds' = [fds EXCEPT ![f] = Socket(role, c)],
           Goto(c, place, serv, IF place = "connecting" THEN f ELSE 0),
           UNCHANGED <<main, listener, conn, stray>>
    PROVE  IInv'
<1> DEFINE r == [pc |-> place, socket_des |-> thread[c].socket_des,
                 server_des |-> serv,
                 socket_server |-> IF place = "connecting" THEN f ELSE 0]
<1>1. thread' = [thread EXCEPT ![c] = r]
  BY DEF Goto
<1>2. thread \in [Conns -> Records] /\ thread[c] \in Records /\ fds \in [Fd -> Files]
  BY Typed DEF IInv
<1>3. place \in Live \ {"clientClosed"} /\ serv \in Fd \cup {NULL}
  BY <1>2 DEF Records, Live
<1>4. r \in Records /\ r.pc = place /\ r.socket_des = thread[c].socket_des
        /\ r.server_des = serv
        /\ r.socket_server = (IF place = "connecting" THEN f ELSE 0)
  BY <1>2, <1>3 DEF Records
<1> HIDE DEF r
<1>5. \A d \in Conns : thread'[d] = IF d = c THEN r ELSE thread[d]
  BY <1>1, <1>2
<1>6. \A g : g # f => fds'[g] = fds[g]
  BY <1>2
<1>7. fds'[f] = Socket(role, c)
  BY <1>2
<1>8. ServerTypeOK'
  <2>1. thread' \in [Conns -> Records]
    BY <1>1, <1>2, <1>4
  <2>2. fds' \in [Fd -> Files]
    BY <1>2 DEF Files, Socket
  <2>3. QED
    BY <2>1, <2>2 DEF IInv, ServerTypeOK, Records, Files
<1>9. Accounted'
  <2> SUFFICES ASSUME NEW g \in Fd
               PROVE  \/ fds'[g] = Closed
                      \/ fds'[g] = Listening /\ g = listener
                      \/ \E d \in Conns :
                            \/ /\ fds'[g] = Socket("client", d)
                               /\ thread'[d].pc \in Live \ {"clientClosed"}
                               /\ thread'[d].socket_des = g
                            \/ /\ fds'[g] = Socket("server", d)
                               /\ thread'[d].pc \in Connected /\ thread'[d].server_des = g
                            \/ fds'[g] = Socket("unconnected", d)
    BY DEF Accounted, In
  <2>1. CASE g = f
    BY <2>1, <1>3, <1>4, <1>5, <1>7 DEF Connected
  <2>2. CASE g # f
    <3>1. fds[g] = fds'[g]
      BY <2>2, <1>6
    <3>2. CASE fds[g] = Closed \/ (fds[g] = Listening /\ g = listener)
      BY <3>1, <3>2
    <3>3. ASSUME NEW d \in Conns, fds[g] = Socket("client", d),
                 thread[d].pc \in Live \ {"clientClosed"}, thread[d].socket_des = g
          PROVE  /\ thread'[d].pc \in Live \ {"clientClosed"}
                 /\ thread'[d].socket_des = g
      BY <3>3, <1>3, <1>4, <1>5
    <3>4. ASSUME NEW d \in Conns, fds[g] = Socket("server", d),
                 thread[d].pc \in Connected, thread[d].server_des = g
          PROVE  thread'[d].pc \in Connected /\ thread'[d].server_des = g
      BY <3>4, <1>5 DEF In, Connected
    <3>5. QED
      BY <3>1, <3>2, <3>3, <3>4 DEF IInv, Accounted, In
  <2>3. QED
    BY <2>1, <2>2
<1>10. OnlyStraysHarm'
  <2> SUFFICES ASSUME ~stray, main # "down"
               PROVE  /\ main = "listening" /\ fds'[listener] = Listening
                      /\ \A d \in Conns :
                            /\ thread'[d].pc \in Live \ {"clientClosed"} =>
                                  fds'[thread'[d].socket_des] = Socket("client", d)
                            /\ thread'[d].pc = "connecting" =>
                                  fds'[thread'[d].socket_server] = Socket("unconnected", d)
                            /\ thread'[d].server_des # NULL =>
                                  fds'[thread'[d].server_des] = Socket("server", d)
    BY DEF OnlyStraysHarm, In
  <2>1. /\ main = "listening" /\ fds[listener] = Listening
        /\ \A d \in Conns :
              /\ thread[d].pc \in Live \ {"clientClosed"} =>
                    fds[thread[d].socket_des] = Socket("client", d)
              /\ thread[d].pc = "connecting" =>
                    fds[thread[d].socket_server] = Socket("unconnected", d)
              /\ thread[d].server_des # NULL =>
                    fds[thread[d].server_des] = Socket("server", d)
    BY DEF IInv, OnlyStraysHarm, In
  <2>2. \A g, d : fds[g] = Listening \/ fds[g] = Socket("client", d) \/ fds[g] = Socket("server", d)
                    => fds'[g] = fds[g]
    <3>1. fds[f] # Listening /\ \A d : fds[f] # Socket("client", d) /\ fds[f] # Socket("server", d)
      BY Sockets
    <3>2. QED
      BY <3>1, <1>6
  <2>3. ASSUME NEW d \in Conns
        PROVE  /\ thread'[d].pc \in Live \ {"clientClosed"} =>
                     fds'[thread'[d].socket_des] = Socket("client", d)
               /\ thread'[d].pc = "connecting" =>
                     fds'[thread'[d].socket_server] = Socket("unconnected", d)
               /\ thread'[d].server_des # NULL =>
                     fds'[thread'[d].server_des] = Socket("server", d)
    <3>1. CASE d = c
      <4>1. fds'[thread[c].socket_des] = Socket("client", c)
        BY <2>1, <2>2 DEF In, Live
      <4>2. serv # NULL => serv = f /\ role = "server"
        BY DEF IInv, ThreadsOK, In, Connected
      <4>3. QED
        BY <3>1, <4>1, <4>2, <1>4, <1>5, <1>7
    <3>2. CASE d # c
      <4>1. thread[d].pc = "connecting" => thread[d].socket_server # f
        <5>1. CASE fds[f] = Closed
          BY <2>1, <5>1, Sockets
        <5>2. CASE f = thread[c].socket_server /\ thread[c].pc = "connecting"
          BY <2>1, <3>2, <5>2, Sockets
        <5>3. QED
          BY <5>1, <5>2 DEF In
      <4>2. thread'[d] = thread[d]
        BY <3>2, <1>5
      <4>3. thread[d].pc = "connecting" =>
                fds'[thread[d].socket_server] = Socket("unconnected", d)
        BY <2>1, <4>1, <1>6
      <4>4. /\ thread[d].pc \in Live \ {"clientClosed"} =>
                  fds'[thread[d].socket_des] = Socket("client", d)
            /\ thread[d].server_des # NULL =>
                  fds'[thread[d].server_des] = Socket("server", d)
        BY <2>1, <2>2
      <4>5. QED
        BY <4>2, <4>3, <4>4
    <3>3. QED
      BY <3>1, <3>2
  <2>4. QED
    BY <2>1, <2>2, <2>3
<1>11. ClosedWithThread'
  <2> SUFFICES ASSUME NEW d \in Conns, conn[d] = "served"
               PROVE  /\ thread'[d].pc \in Live \ {"clientClosed"}
                      /\ \/ fds'[thread'[d].socket_des] = Socket("client", d)
                         \/ thread'[d].pc \in {"request", "exchange"}
    BY DEF ClosedWithThread, In, Waits
  <2>1. /\ thread[d].pc \in Live \ {"clientClosed"}
        /\ \/ fds[thread[d].socket_des] = Socket("client", d)
           \/ thread[d].pc \in {"request", "exchange"}
    BY DEF IInv, ClosedWithThread, In, Waits
  <2>2. fds[thread[d].socket_des] = Socket("client", d) => thread[d].socket_des # f
    BY Sockets
  <2>3. QED
    BY <2>1, <2>2, <1>3, <1>4, <1>5, <1>6 DEF In
<1>12. ThreadsOK' /\ NothingLeft'
  <2>1. thread[c].socket_des \in Fd /\ conn[c] # "pending" /\ main # "down"
    BY Running DEF IInv, ThreadsOK, In, Live
  <2>2. serv # NULL => place = "exchange"
    BY DEF IInv, ThreadsOK, In, Connected
  <2>3. QED
    BY <2>1, <2>2, <1>4, <1>5 DEF IInv, ThreadsOK, NothingLeft, In, Connected
<1>13. QED
  BY <1>8, <1>9, <1>10, <1>11, <1>12 DEF IInv

\* The new socket's descriptor was free.
LEMMA MakeSocketStep ==
    ASSUME IInv, NEW c \in Conns, MakeSocket(c)
    PROVE  IInv'
<1>1. PICK f \in Fd : /\ Lowest(f)
                      /\ fds' = [fds EXCEPT ![f] = Socket("unconnected", c)]
                      /\ Goto(c, "connecting", thread[c].server_des, f)
  BY DEF MakeSocket
<1>2. In(c, {"connect", "connecting"}) /\ UNCHANGED <<main, listener, conn, stray>>
  BY DEF MakeSocket, In
<1>3. fds[f] = Closed /\ fds[f].role = "closed"
  BY <1>1, Sockets DEF Lowest, Free
<1>4. Goto(c, "connecting", thread[c].server_des, IF "connecting" = "connecting" THEN f ELSE 0)
  BY <1>1
<1>5. QED
  BY <1>1, <1>2, <1>3, <1>4, OwnSocketStep

\* The connected descriptor is an unconnected socket's.
LEMMA ConnectStep ==
    ASSUME IInv, NEW c \in Conns, Connect(c)
    PROVE  IInv'
<1> DEFINE f == thread[c].socket_server
<1>1. /\ In(c, {"connecting"}) /\ fds[f].role = "unconnected"
      /\ fds' = [fds EXCEPT ![f] = Socket("server", c)]
      /\ Goto(c, "exchange", f, 0)
      /\ UNCHANGED <<main, listener, conn, stray>>
  BY DEF Connect
<1>2. f \in Fd
  BY <1>1 DEF IInv, ThreadsOK
<1>3. Goto(c, "exchange", f, IF "exchange" = "connecting" THEN f ELSE 0)
  BY <1>1
<1>4. In(c, {"connect", "connecting"}) /\ f = thread[c].socket_server
  BY <1>1 DEF In
<1> HIDE DEF f
<1>5. QED
  BY <1>1, <1>2, <1>3, <1>4, OwnSocketStep

-----------------------------------------------------------------------------
(* ~Proxy.                                                                  *)

\* close frees what the descriptor refers to, whoever it belongs to; if that is
\* a client's connection, the client sees it closed, unless a call holds it.
LEMMA CloseEffect ==
    ASSUME IInv, main # "down", NEW f \in Fd \cup {0}, Close(f)
    PROVE  /\ fds' \in [Fd -> Files]
           /\ conn' \in [Conns -> {"outside", "pending", "served", "closed"}]
           /\ main' \in {main, "deaf"}
           /\ fds[f] # Listening \/ f \notin Fd => main' = main
           /\ \A g \in Fd : fds'[g] = IF g = f THEN Closed ELSE fds[g]
           /\ \A c \in Conns : conn'[c] \in {conn[c], "closed"}
           /\ \A c \in Conns :
                 f \in Fd /\ fds[f] = Socket("client", c) /\ ~Waits(c) => conn'[c] = "closed"
<1>1. Closed \in Files /\ fds \in [Fd -> Files]
  BY Typed DEF Closed, Socket, Files, IInv
<1>2. conn \in [Conns -> {"outside", "pending", "served", "closed"}]
  BY DEF IInv, ServerTypeOK
<1>3. fds' = [g \in Fd |-> IF g = f THEN Closed ELSE fds[g]]
  BY DEF Close
<1>4. PICK held \in BOOLEAN :
         /\ main' = IF f \in Fd /\ fds[f] = Listening /\ ~held THEN "deaf" ELSE main
         /\ conn' = [c \in Conns |->
               IF \/ f \in Fd /\ fds[f] = Socket("client", c) /\ ~(held /\ Waits(c))
                  \/ conn[c] = "pending" /\ main' = "deaf"
               THEN "closed" ELSE conn[c]]
  BY DEF Close
<1>5. /\ fds' \in [Fd -> Files]
      /\ \A g \in Fd : fds'[g] = IF g = f THEN Closed ELSE fds[g]
  BY <1>1, <1>3
<1>6. main' \in {main, "deaf"} /\ (fds[f] # Listening \/ f \notin Fd => main' = main)
  BY <1>4
<1>7. /\ conn' \in [Conns -> {"outside", "pending", "served", "closed"}]
      /\ \A c \in Conns : conn'[c] \in {conn[c], "closed"}
      /\ \A c \in Conns :
            f \in Fd /\ fds[f] = Socket("client", c) /\ ~Waits(c) => conn'[c] = "closed"
  BY <1>2, <1>4
<1>8. QED
  BY <1>5, <1>6, <1>7

\* The owner of a socket is the one that it was made for.
LEMMA Owner ==
    ASSUME Accounted, NEW c \in Conns, NEW g \in Fd
    PROVE  /\ fds[g] = Socket("client", c) =>
                 In(c, Live \ {"clientClosed"}) /\ thread[c].socket_des = g
           /\ fds[g] = Socket("server", c) => In(c, Connected) /\ thread[c].server_des = g
BY Sockets DEF Accounted

\* Threads that the step does not concern keep what they had, unless it was
\* closed with f.
LEMMA OthersKept ==
    ASSUME IInv, main # "down", NEW c \in Conns, NEW f \in Fd \cup {0}, Close(f),
           UNCHANGED listener, ~Waits(c),
           \A d \in Conns \ {c} : thread'[d] = thread[d],
           \A g \in Fd : fds[g] = Socket("client", c) /\ g # f =>
               thread'[c].pc \in Live \ {"clientClosed"} /\ thread'[c].socket_des = g,
           \A g \in Fd : fds[g] = Socket("server", c) /\ g # f =>
               thread'[c].pc \in Connected /\ thread'[c].server_des = g,
           conn[c] = "served" => f \in Fd /\ fds[f] = Socket("client", c)
    PROVE  Accounted' /\ ClosedWithThread'
<1>1. Accounted'
  <2> SUFFICES ASSUME NEW g \in Fd
               PROVE  \/ fds'[g] = Closed
                      \/ fds'[g] = Listening /\ g = listener
                      \/ \E d \in Conns :
                            \/ /\ fds'[g] = Socket("client", d)
                               /\ thread'[d].pc \in Live \ {"clientClosed"}
                               /\ thread'[d].socket_des = g
                            \/ /\ fds'[g] = Socket("server", d)
                               /\ thread'[d].pc \in Connected /\ thread'[d].server_des = g
                            \/ fds'[g] = Socket("unconnected", d)
    BY DEF Accounted, In
  <2>1. CASE g = f
    BY <2>1, CloseEffect
  <2>2. CASE g # f
    <3>1. fds'[g] = fds[g]
      BY <2>2, CloseEffect
    <3>2. QED
      BY <3>1, <2>2 DEF IInv, Accounted, In
  <2>3. QED
    BY <2>1, <2>2
<1>2. ClosedWithThread'
  <2> SUFFICES ASSUME NEW d \in Conns, conn'[d] = "served"
               PROVE  /\ thread'[d].pc \in Live \ {"clientClosed"}
                      /\ \/ fds'[thread'[d].socket_des] = Socket("client", d)
                         \/ thread'[d].pc \in {"request", "exchange"}
    BY DEF ClosedWithThread, In, Waits
  <2>1. conn[d] = "served"
          /\ ~(f \in Fd /\ fds[f] = Socket("client", d) /\ ~Waits(d))
    BY CloseEffect
  <2>2. d # c
    BY <2>1
  <2>3. /\ thread[d].pc \in Live \ {"clientClosed"}
        /\ \/ fds[thread[d].socket_des] = Socket("client", d)
           \/ thread[d].pc \in {"request", "exchange"}
    BY <2>1 DEF IInv, ClosedWithThread, In, Waits
  <2>4. thread[d].socket_des \in Fd
    BY <2>3 DEF IInv, ThreadsOK, In
  <2>5. CASE thread[d].pc \in {"request", "exchange"}
    BY <2>2, <2>3, <2>5
  <2>6. CASE ~Waits(d) /\ fds[thread[d].socket_des] = Socket("client", d)
    <3>1. thread[d].socket_des # f
      BY <2>1, <2>4, <2>6
    <3>2. fds'[thread[d].socket_des] = fds[thread[d].socket_des]
      BY <3>1, <2>4, CloseEffect
    <3>3. QED
      BY <2>2, <2>3, <2>6, <3>2
  <2>7. QED
    BY <2>3, <2>5, <2>6 DEF Waits, In
<1>3. QED
  BY <1>1, <1>2

\* A thread that closes its own socket, or nothing, harms nobody.
LEMMA NoHarm ==
    ASSUME IInv, main # "down", NEW c \in Conns, NEW f \in Fd \cup {0}, Close(f),
           UNCHANGED listener, ~stray,
           f \in Fd => fds[f] \in {Closed, Socket("client", c), Socket("server", c)},
           \A d \in Conns \ {c} : thread'[d] = thread[d],
           thread'[c].pc \in {"clientClosed", "none"},
           thread'[c].server_des # NULL =>
               /\ thread'[c].server_des = thread[c].server_des
               /\ f \in Fd => fds[f] = Socket("client", c)
    PROVE  OnlyStraysHarm'
<1>1. /\ main = "listening" /\ fds[listener] = Listening /\ listener \in Fd
      /\ \A d \in Conns :
            /\ thread[d].pc \in Live \ {"clientClosed"} =>
                  fds[thread[d].socket_des] = Socket("client", d)
            /\ thread[d].pc = "connecting" =>
                  fds[thread[d].socket_server] = Socket("unconnected", d)
            /\ thread[d].server_des # NULL =>
                  fds[thread[d].server_des] = Socket("server", d)
  BY DEF IInv, OnlyStraysHarm, ThreadsOK, In
<1>2. \A d \in Conns :
        /\ thread[d].pc \in Live \ {"clientClosed"} => thread[d].socket_des \in Fd
        /\ thread[d].pc = "connecting" => thread[d].socket_server \in Fd
        /\ thread[d].server_des # NULL => thread[d].server_des \in Fd
  BY Typed DEF IInv, ThreadsOK, In, Records
<1>3. \A g \in Fd : g # f => fds'[g] = fds[g]
  BY CloseEffect
<1>4. listener # f /\ main' = main
  <2>1. f \in Fd => fds[f] # Listening
    BY Sockets
  <2>2. QED
    BY <2>1, <1>1, CloseEffect
<1>5. ASSUME NEW d \in Conns
      PROVE  /\ thread'[d].pc \in Live \ {"clientClosed"} =>
                   fds'[thread'[d].socket_des] = Socket("client", d)
             /\ thread'[d].pc = "connecting" =>
                   fds'[thread'[d].socket_server] = Socket("unconnected", d)
             /\ thread'[d].server_des # NULL =>
                   fds'[thread'[d].server_des] = Socket("server", d)
  <2>1. CASE d = c
    <3>1. thread'[c].server_des # NULL => thread[c].server_des # f
      <4>1. SUFFICES ASSUME thread'[c].server_des # NULL, thread[c].server_des = f PROVE FALSE
        OBVIOUS
      <4>2. fds[f] = Socket("server", c) /\ f \in Fd
        BY <4>1, <1>1, <1>2
      <4>3. fds[f] = Socket("client", c)
        BY <4>1, <4>2
      <4>4. QED
        BY <4>2, <4>3, Sockets
    <3>2. QED
      BY <2>1, <3>1, <1>1, <1>2, <1>3 DEF Live
  <2>2. CASE d # c
    <3>1. \A g \in Fd : fds[g] \in {Socket("client", d), Socket("server", d), Socket("unconnected", d)}
                          => fds'[g] = fds[g]
      <4>1. f \in Fd => fds[f] \notin {Socket("client", d), Socket("server", d), Socket("unconnected", d)}
        BY <2>2, Sockets
      <4>2. QED
        BY <4>1, <1>3
    <3>2. QED
      BY <2>2, <3>1, <1>1, <1>2
  <2>3. QED
    BY <2>1, <2>2
<1>6. fds'[listener] = Listening
  BY <1>1, <1>3, <1>4
<1>7. QED
  BY <1>1, <1>4, <1>5, <1>6 DEF OnlyStraysHarm, In

\* The first close of ~Proxy, which may hit another thread's descriptor.
LEMMA CloseClientStep ==
    ASSUME IInv, NEW c \in Conns, CloseClient(c)
    PROVE  IInv'
<1> DEFINE f == thread[c].socket_des
           r == [pc |-> "clientClosed", socket_des |-> f,
                 server_des |-> thread[c].server_des, socket_server |-> 0]
<1>1. /\ In(c, {"end"}) /\ Close(f)
      /\ thread' = [thread EXCEPT ![c] = r]
      /\ UNCHANGED <<listener, stray>>
  BY DEF CloseClient, Goto
<1>2. thread \in [Conns -> Records] /\ thread[c] \in Records
  BY Typed DEF IInv
<1>3. /\ r \in Records /\ r.pc = "clientClosed" /\ r.socket_des = f
      /\ r.server_des = thread[c].server_des
  BY <1>2 DEF Records, Live
<1>4. main # "down" /\ listener \in Fd
  BY <1>1, Running DEF In, Live
<1>5. f \in Fd /\ ~Waits(c) /\ In(c, Live \ {"clientClosed"})
  BY <1>1 DEF IInv, ThreadsOK, In, Live, Waits
<1>6. \A d \in Conns : thread'[d] = IF d = c THEN r ELSE thread[d]
  <2> HIDE DEF r
  <2> QED BY <1>1, <1>2
<1> HIDE DEF r, f
<1>7. /\ fds' \in [Fd -> Files] /\ main' \in {main, "deaf"}
      /\ conn' \in [Conns -> {"outside", "pending", "served", "closed"}]
      /\ \A d \in Conns : conn'[d] \in {conn[d], "closed"}
  BY <1>1, <1>4, <1>5, CloseEffect
<1>8. ServerTypeOK'
  <2>1. thread' \in [Conns -> Records]
    BY <1>1, <1>2, <1>3
  <2>2. QED
    BY <2>1, <1>1, <1>7 DEF IInv, ServerTypeOK, Records, Files
<1>9. \A d \in Conns \ {c} : thread'[d] = thread[d]
  BY <1>6
<1>10. Accounted' /\ ClosedWithThread'
  <2>1. ASSUME NEW g \in Fd, fds[g] = Socket("client", c) PROVE g = f
    BY <2>1, Owner DEF IInv, f
  <2>2. ASSUME NEW g \in Fd, fds[g] = Socket("server", c)
        PROVE  thread'[c].pc \in Connected /\ thread'[c].server_des = g
    <3>1. thread[c].server_des = g
      BY <2>2, Owner DEF IInv
    <3>2. QED
      BY <3>1, <1>3, <1>6 DEF Connected
  <2>3. conn[c] = "served" => fds[f] = Socket("client", c)
    BY <1>5 DEF IInv, ClosedWithThread, f
  <2>4. QED
    BY <2>1, <2>2, <2>3, <1>1, <1>4, <1>5, <1>9, OthersKept
<1>11. OnlyStraysHarm'
  <2>1. CASE stray
    BY <2>1, <1>1 DEF OnlyStraysHarm
  <2>2. CASE ~stray
    <3>1. fds[f] = Socket("client", c)
      BY <2>2, <1>4, <1>5 DEF IInv, OnlyStraysHarm, f
    <3>2. thread'[c].pc = "clientClosed" /\ thread'[c].server_des = thread[c].server_des
      BY <1>3, <1>6
    <3>3. QED
      BY <2>2, <3>1, <3>2, <1>1, <1>4, <1>5, <1>9, NoHarm
  <2>3. QED
    BY <2>1, <2>2
<1>12. ThreadsOK'
  <2>1. conn[c] # "pending" /\ conn'[c] # "pending"
    BY <1>1, <1>7 DEF IInv, ThreadsOK, In
  <2>2. QED
    BY <1>1, <1>3, <1>4, <1>5, <1>6, <1>7, <2>1 DEF IInv, ThreadsOK, In, Connected
<1>13. NothingLeft'
  BY <1>4, <1>7 DEF NothingLeft
<1>14. QED
  BY <1>8, <1>10, <1>11, <1>12, <1>13 DEF IInv

\* The second close of ~Proxy, of a server_des that may be no server's.
LEMMA CloseServerStep ==
    ASSUME IInv, NEW c \in Conns, CloseServer(c)
    PROVE  IInv'
<1>1. PICK f \in IF thread[c].server_des = NULL THEN Fd \cup {0} ELSE {thread[c].server_des} :
         /\ Close(f)
         /\ stray' = (stray \/ (thread[c].server_des = NULL /\ f \in Fd \ Free))
  BY DEF CloseServer
<1>2. /\ In(c, {"clientClosed"}) /\ UNCHANGED listener
      /\ thread' = [thread EXCEPT ![c] = NoThread]
  BY DEF CloseServer
<1>3. thread \in [Conns -> Records] /\ thread[c] \in Records
  BY Typed DEF IInv
<1>4. /\ NoThread \in Records /\ NoThread.pc = "none"
      /\ NoThread.socket_des = 0 /\ NoThread.server_des = NULL
  BY DEF Records, NoThread
<1>5. main # "down" /\ listener \in Fd
  BY <1>2, Running DEF In, Live
<1>6. f \in Fd \cup {0} /\ ~Waits(c)
  BY <1>1, <1>2, <1>3 DEF Records, In, Waits
<1>7. \A d \in Conns : thread'[d] = IF d = c THEN NoThread ELSE thread[d]
  BY <1>2, <1>3
<1>8. /\ fds' \in [Fd -> Files] /\ main' \in {main, "deaf"}
      /\ conn' \in [Conns -> {"outside", "pending", "served", "closed"}]
      /\ \A d \in Conns : conn'[d] \in {conn[d], "closed"}
  BY <1>1, <1>5, <1>6, CloseEffect
<1>9. ServerTypeOK'
  <2>1. thread' \in [Conns -> Records]
    BY <1>2, <1>3, <1>4
  <2>2. stray' \in BOOLEAN
    BY <1>1 DEF IInv, ServerTypeOK
  <2>3. QED
    BY <2>1, <2>2, <1>2, <1>8 DEF IInv, ServerTypeOK, Records, Files
<1>10. \A d \in Conns \ {c} : thread'[d] = thread[d]
  BY <1>7
<1>11. Accounted' /\ ClosedWithThread'
  <2>1. ASSUME NEW g \in Fd PROVE fds[g] # Socket("client", c)
    BY <1>2, Owner DEF IInv, In
  <2>2. ASSUME NEW g \in Fd, fds[g] = Socket("server", c) PROVE g = f
    <3>1. thread[c].server_des = g
      BY <2>2, Owner DEF IInv
    <3>2. thread[c].server_des # NULL => f = thread[c].server_des
      BY <1>1
    <3>3. thread[c].server_des # NULL
      BY <3>1, <2>2, NullAssumption, FdAssumption DEF Fd
    <3>4. QED
      BY <3>1, <3>2, <3>3
  <2>3. conn[c] # "served"
    BY <1>2 DEF IInv, ClosedWithThread, In
  <2>4. QED
    BY <2>1, <2>2, <2>3, <1>1, <1>2, <1>5, <1>6, <1>10, OthersKept
<1>12. OnlyStraysHarm'
  <2>1. CASE stray'
    BY <2>1 DEF OnlyStraysHarm
  <2>2. CASE ~stray'
    <3>1. ~stray /\ UNCHANGED stray
      BY <1>1, <2>2 DEF IInv, ServerTypeOK
    <3>2. f \in Fd => fds[f] \in {Closed, Socket("client", c), Socket("server", c)}
      <4>1. CASE thread[c].server_des = NULL
        BY <4>1, <2>2, <1>1 DEF Free
      <4>2. CASE thread[c].server_des # NULL
        BY <4>2, <1>1, <1>5, <3>1 DEF IInv, OnlyStraysHarm
      <4>3. QED
        BY <4>1, <4>2
    <3>3. thread'[c].pc = "none" /\ thread'[c].server_des = NULL
      BY <1>4, <1>7
    <3>4. QED
      BY <3>1, <3>2, <3>3, <1>1, <1>2, <1>5, <1>6, <1>10, NoHarm
  <2>3. QED
    BY <2>1, <2>2
<1>13. ThreadsOK'
  <2>1. \A d \in Conns : conn'[d] = "pending" => conn[d] = "pending"
    BY <1>8
  <2>2. QED
    BY <1>2, <1>4, <1>5, <1>7, <2>1 DEF IInv, ThreadsOK, In, Live
<1>14. NothingLeft'
  BY <1>5, <1>8 DEF NothingLeft
<1>15. QED
  BY <1>9, <1>11, <1>12, <1>13, <1>14 DEF IInv

-----------------------------------------------------------------------------
\* A client connects: only its own connection changes.
LEMMA ArriveStep ==
    ASSUME IInv, NEW c \in Conns, Arrive(c)
    PROVE  IInv'
<1>1. /\ In(c, {"none"}) /\ main = "listening"
      /\ conn' = [conn EXCEPT ![c] = "pending"]
      /\ UNCHANGED <<main, listener, fds, thread, stray>>
  BY DEF Arrive
<1>2. \A d \in Conns : conn'[d] = IF d = c THEN "pending" ELSE conn[d]
  BY <1>1 DEF IInv, ServerTypeOK
<1>3. ServerTypeOK'
  BY <1>1 DEF IInv, ServerTypeOK
<1>4. Accounted' /\ OnlyStraysHarm' /\ NothingLeft'
  BY <1>1 DEF IInv, Accounted, OnlyStraysHarm, NothingLeft, In
<1>5. ClosedWithThread' /\ ThreadsOK'
  BY <1>1, <1>2 DEF IInv, ClosedWithThread, ThreadsOK, In, Waits
<1>6. QED
  BY <1>3, <1>4, <1>5 DEF IInv

\* Nothing is open in the beginning.
LEMMA InitInv == Init => IInv
<1> SUFFICES ASSUME Init PROVE IInv
  OBVIOUS
<1>1. ServerTypeOK
  BY DEF Init, ServerTypeOK, Closed, Socket, NoThread, Live, Fd
<1>2. Accounted /\ OnlyStraysHarm /\ NothingLeft
  BY DEF Init, Accounted, OnlyStraysHarm, NothingLeft
<1>3. ClosedWithThread /\ ThreadsOK
  BY DEF Init, ClosedWithThread, ThreadsOK, In, NoThread, Live
<1>4. QED
  BY <1>1, <1>2, <1>3 DEF IInv

\* A step that changes nothing.
LEMMA Stutter ==
    ASSUME IInv, UNCHANGED vars
    PROVE  IInv'
  BY DEF vars, IInv, ServerTypeOK, Accounted, OnlyStraysHarm, ClosedWithThread,
         ThreadsOK, NothingLeft, In, Waits

\* Every step of the process, of its threads and of the clients preserves it.
LEMMA NextInv == IInv /\ [Next]_vars => IInv'
<1> SUFFICES ASSUME IInv, [Next]_vars PROVE IInv'
  OBVIOUS
<1>1. CASE UNCHANGED vars
  BY <1>1, Stutter
<1>2. CASE Start
  BY <1>2, StartStep
<1>3. CASE StartFails
  BY <1>3, Stutter DEF StartFails
<1>4. CASE AcceptFails
  BY <1>4, AcceptFailsStep
<1>5. CASE NoThreadLeft
  BY <1>5, DiesStep DEF NoThreadLeft
<1>6. ASSUME NEW c \in Conns, Arrive(c) \/ Accept(c) PROVE IInv'
  BY <1>6, ArriveStep, AcceptStep
<1>7. ASSUME NEW c \in Conns, Killed(c) PROVE IInv'
  BY <1>7, DiesStep DEF Killed
<1>8. ASSUME NEW c \in Conns, Request(c) PROVE IInv'
  <2>1. PICK place \in {"connect", "end"} : Goto(c, place, thread[c].server_des, 0)
    BY <1>8 DEF Request
  <2>2. In(c, {"request"}) /\ In(c, Live \ {"clientClosed"}) /\ Returned(c)
          /\ UNCHANGED <<main, listener, fds, stray>>
    BY <1>8 DEF Request, In, Live
  <2>3. QED
    BY <2>1, <2>2, ThreadStep
<1>9. ASSUME NEW c \in Conns, Exchange(c) PROVE IInv'
  <2>1. /\ Goto(c, "end", thread[c].server_des, 0)
        /\ In(c, Live \ {"clientClosed"}) /\ Returned(c)
        /\ UNCHANGED <<main, listener, fds, stray>>
    BY <1>9 DEF Exchange, In, Live
  <2>2. QED
    BY <2>1, ThreadStep
<1>10. ASSUME NEW c \in Conns, Prompt(c) PROVE IInv'
  <2>1. CASE MakeSocket(c)
    BY <2>1, MakeSocketStep
  <2>2. CASE NoSocket(c) \/ ConnectFails(c)
    <3>1. /\ Goto(c, "end", thread[c].server_des, 0)
          /\ In(c, Live \ {"clientClosed"}) /\ ~Waits(c)
          /\ UNCHANGED <<main, listener, fds, conn, stray>>
      BY <2>2 DEF NoSocket, ConnectFails, In, Live, Waits
    <3>2. QED
      BY <3>1, ThreadStep
  <2>3. CASE Connect(c)
    BY <2>3, ConnectStep
  <2>4. CASE CloseClient(c)
    BY <2>4, CloseClientStep
  <2>5. CASE CloseServer(c)
    BY <2>5, CloseServerStep
  <2>6. QED
    BY <1>10, <2>1, <2>2, <2>3, <2>4, <2>5 DEF Prompt
<1>11. QED
  BY <1>1, <1>2, <1>3, <1>4, <1>5, <1>6, <1>7, <1>8, <1>9, <1>10 DEF Next

\* What is open, whom it belongs to and who will close it, always.
THEOREM Invariant == Spec => []IInv
  BY InitInv, NextInv, PTL DEF Spec

\* The types of the descriptors and threads.
THEOREM TypeCorrect == Spec => []ServerTypeOK
<1>1. IInv => ServerTypeOK
  BY DEF IInv
<1>2. QED
  BY <1>1, Invariant, PTL

\* No descriptor is lost except by a failed connect, although destructors may
\* close, and others use again, descriptors that are not theirs.
THEOREM DescriptorsAccounted == Spec => []Accounted
<1>1. IInv => Accounted
  BY DEF IInv
<1>2. QED
  BY <1>1, Invariant, PTL

\* The listening socket and the threads' sockets are closed by nobody else, as
\* long as no destructor has closed what an unset server_des named: any value.
THEOREM HarmComesFromStrays == Spec => []OnlyStraysHarm
<1>1. IInv => OnlyStraysHarm
  BY DEF IInv
<1>2. QED
  BY <1>1, Invariant, PTL

\* A connection that is open has a thread that will close it.
THEOREM ConnectionsHaveThreads == Spec => []ClosedWithThread
<1>1. IInv => ClosedWithThread
  BY DEF IInv
<1>2. QED
  BY <1>1, Invariant, PTL
=============================================================================

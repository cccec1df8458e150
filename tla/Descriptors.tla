---------------------------- MODULE Descriptors ----------------------------
(***************************************************************************)
(* The descriptors of pas_server and its children.  The children find      *)
(* sockets and pipe under numbers fixed in common_fd.h: some of them the   *)
(* parent moves there with dup2, one is only right because the kernel      *)
(* gives out the lowest free number.  What a process keeps open also       *)
(* decides who gets to see the end of a pipe or of a connection.           *)
(*                                                                         *)
(* An open file is a pair of what it is and which one.  A definition whose *)
(* name adds a word to that of the one it precedes is a bug one could      *)
(* write there.                                                            *)
(***************************************************************************)
EXTENDS Integers, FiniteSets

CONSTANTS Inherited,         \* sets of numbers that may be open when the server starts
          MaxConns           \* bound: connections that come in

PLAYER_SOCKET_FD           == 3
WRITE_PIPE_TO_BROADCAST_FD == 4
PLAYERS_RANGE_FD           == 6

\* The standard streams are open, the two numbers after them are not, and of the three
\* up to those that the broadcaster takes for the players at most one.
ASSUME InheritedAssumption ==
  /\ \A I \in Inherited :
       /\ I \subseteq Nat /\ IsFiniteSet(I)
       /\ {0, 1, 2} \subseteq I
       /\ PLAYER_SOCKET_FD \notin I /\ WRITE_PIPE_TO_BROADCAST_FD \notin I
       /\ \A a, b \in I \cap (WRITE_PIPE_TO_BROADCAST_FD + 1 .. PLAYERS_RANGE_FD + 1) : a = b
  /\ MaxConns \in Nat

VARIABLES fds,               \* the descriptors of each process: number |-> open file
          alive,             \* the processes there are
          pc,                \* where the server is
          cur,               \* the i of its loops over the players
          pipefd, map, sockfd, players_fd,          \* its variables
          conns,             \* connections so far
          joined             \* the connection of each player

locals == <<pipefd, map, sockfd, players_fd>>
vars   == <<fds, alive, pc, cur, locals, conns, joined>>

Player  == {1, 2}
Server  == 0
Bcast   == 3
Process == {Server, Bcast} \cup Player             \* a player's process is its handler

PipeEnd(i) == <<"pipe", i>>                        \* 0 to read, 1 to write
MapFile    == <<"map", 0>>
Listening  == <<"listen", 0>>
Socket(n)  == <<"socket", n>>
Foreign(n) == <<"inherited", n>>

With(t, n, f)    == [i \in DOMAIN t \cup {n} |-> IF i = n THEN f ELSE t[i]]
Without(t, n)    == [i \in DOMAIN t \ {n} |-> t[i]]
Move(t, from, n) == Without(With(t, n, t[from]), from)       \* dup2, close
Nothing          == [i \in {} |-> MapFile]

\* The kernel gives out the lowest number that is free.
Lowest(t) == CHOOSE n \in 0 .. Cardinality(DOMAIN t) :
               n \notin DOMAIN t /\ \A i \in 0 .. n - 1 : i \in DOMAIN t

InitUnclosed ==
  /\ fds = [q \in Process |-> IF q = Server THEN [n \in 0 .. 8 |-> Foreign(n)] ELSE Nothing]
  /\ alive = {Server} /\ pc = "pipe" /\ cur = 1
  /\ pipefd = [i \in {0, 1} |-> -1] /\ map = -1 /\ sockfd = -1
  /\ players_fd = [p \in Player |-> -1]
  /\ conns = 0 /\ joined = [p \in Player |-> 0]

\* pas_labo closes its pipes before it starts the server, and leaves its files open.
Init ==
  /\ \E I \in Inherited :
       fds = [q \in Process |-> IF q = Server THEN [n \in I |-> Foreign(n)] ELSE Nothing]
  /\ alive = {Server} /\ pc = "pipe" /\ cur = 1
  /\ pipefd = [i \in {0, 1} |-> -1] /\ map = -1 /\ sockfd = -1
  /\ players_fd = [p \in Player |-> -1]
  /\ conns = 0 /\ joined = [p \in Player |-> 0]

-----------------------------------------------------------------------------
(* The server.                                                             *)

Mine == fds[Server]

\* The server opens f under the number n.
Open(n, f) == n = Lowest(Mine) /\ fds' = [fds EXCEPT ![Server] = With(Mine, n, f)]

Pipe == /\ pc = "pipe"
        /\ LET r == Lowest(Mine)
               w == Lowest(With(Mine, r, PipeEnd(0)))
           IN  /\ pipefd' = [i \in {0, 1} |-> IF i = 0 THEN r ELSE w]
               /\ fds' = [fds EXCEPT ![Server] = With(With(Mine, r, PipeEnd(0)), w, PipeEnd(1))]
        /\ pc' = "open"
        /\ UNCHANGED <<alive, cur, map, sockfd, players_fd, conns, joined>>

OpenMap == /\ pc = "open"
           /\ map' = Lowest(Mine) /\ Open(map', MapFile)
           /\ pc' = "listen"
           /\ UNCHANGED <<alive, cur, pipefd, sockfd, players_fd, conns, joined>>

Listen == /\ pc = "listen"
          /\ sockfd' = Lowest(Mine) /\ Open(sockfd', Listening)
          /\ pc' = "accept"
          /\ UNCHANGED <<alive, cur, pipefd, map, players_fd, conns, joined>>

Accept == /\ pc = "accept" /\ conns < MaxConns
          /\ conns' = conns + 1
          /\ joined' = [joined EXCEPT ![cur] = conns']
          /\ players_fd' = [players_fd EXCEPT ![cur] = Lowest(Mine)]
          /\ Open(players_fd'[cur], Socket(conns'))
          /\ pc' = "spawn"
          /\ UNCHANGED <<alive, cur, pipefd, map, sockfd>>

DropKept == /\ pc = "accept" /\ conns < MaxConns
            /\ conns' = conns + 1
            /\ Open(Lowest(Mine), Socket(conns'))
            /\ UNCHANGED <<alive, pc, cur, locals, joined>>

\* A connection that ends before it has said anything is closed again, or it is taken:
\* the uninitialized msg_type decides.
Drop == /\ pc = "accept" /\ conns < MaxConns
        /\ conns' = conns + 1
        /\ fds' = [fds EXCEPT ![Server] =
                     Without(With(Mine, Lowest(Mine), Socket(conns')), Lowest(Mine))]
        /\ UNCHANGED <<alive, pc, cur, locals, joined>>

HandlerFdsListening == Move(Mine, players_fd[cur], PLAYER_SOCKET_FD)

\* The socket takes the number of the pipe's read end, and the listening one is closed.
HandlerFds == Without(Move(Mine, players_fd[cur], PLAYER_SOCKET_FD), sockfd)

\* fork up to the exec of the child, which meanwhile only gives up what it has.
SpawnHandler ==
  /\ pc = "spawn"
  /\ fds' = [fds EXCEPT ![cur] = HandlerFds]
  /\ alive' = alive \cup {cur}
  /\ IF cur = 1 THEN cur' = 2 /\ pc' = "accept" ELSE cur' = 1 /\ pc' = "fork"
  /\ UNCHANGED <<locals, conns, joined>>

\* The read end takes the number under which the handlers have the write end.
BroadcasterFds ==
  LET t == Move(Mine, pipefd[0], WRITE_PIPE_TO_BROADCAST_FD)
  IN  Move(Move(t, players_fd[1], PLAYERS_RANGE_FD), players_fd[2], PLAYERS_RANGE_FD + 1)

ForkBroadcaster == /\ pc = "fork"
                   /\ fds' = [fds EXCEPT ![Bcast] = BroadcasterFds]
                   /\ alive' = alive \cup {Bcast}
                   /\ pc' = "wait"
                   /\ UNCHANGED <<cur, locals, conns, joined>>

\* waitpid: some child has ended.
Wait == /\ pc = "wait"
        /\ ~({1, 2, Bcast} \subseteq alive)
        /\ pc' = "close"
        /\ UNCHANGED <<fds, alive, cur, locals, conns, joined>>

CloseKilling == /\ pc = "close"
                /\ fds' = [fds EXCEPT ![cur] = Nothing]
                /\ alive' = alive \ {cur}
                /\ players_fd' = [players_fd EXCEPT ![cur] = -1]
                /\ IF cur = 1 THEN cur' = 2 /\ pc' = pc ELSE cur' = 1 /\ pc' = "killb"
                /\ UNCHANGED <<pipefd, map, sockfd, conns, joined>>

\* The socket is closed, the handler killed if it is still there, and waited for.
CloseAndKill == /\ pc = "close"
                /\ fds' = [fds EXCEPT ![Server] = Without(Mine, players_fd[cur]),
                                      ![cur] = Nothing]
                /\ alive' = alive \ {cur}
                /\ players_fd' = [players_fd EXCEPT ![cur] = -1]
                /\ IF cur = 1 THEN cur' = 2 /\ pc' = pc ELSE cur' = 1 /\ pc' = "killb"
                /\ UNCHANGED <<pipefd, map, sockfd, conns, joined>>

KillBroadcaster == /\ pc = "killb"
                   /\ fds' = [fds EXCEPT ![Bcast] = Nothing]
                   /\ alive' = alive \ {Bcast}
                   /\ pc' = "accept"
                   /\ UNCHANGED <<cur, locals, conns, joined>>

-----------------------------------------------------------------------------

\* A child ends by itself at any moment; what it had open is closed.
ChildEnds(q) == /\ q \in alive \ {Server}
                /\ fds' = [fds EXCEPT ![q] = Nothing]
                /\ alive' = alive \ {q}
                /\ UNCHANGED <<pc, cur, locals, conns, joined>>

\* The server exits, or dies, at any moment; its children stay.
ServerEnds == /\ Server \in alive
              /\ fds' = [fds EXCEPT ![Server] = Nothing]
              /\ alive' = alive \ {Server}
              /\ pc' = "gone"
              /\ UNCHANGED <<cur, locals, conns, joined>>

Next == \/ Pipe \/ OpenMap \/ Listen \/ Accept \/ Drop \/ SpawnHandler
        \/ ForkBroadcaster \/ Wait \/ CloseAndKill \/ KillBroadcaster
        \/ ServerEnds \/ \E q \in Process : ChildEnds(q)

Spec == Init /\ [][Next]_vars

-----------------------------------------------------------------------------

Has(q, f)  == \E n \in DOMAIN fds[q] : fds[q][n] = f
Under(q, n, f) == n \in DOMAIN fds[q] /\ fds[q][n] = f

\* Every child finds under the numbers of common_fd.h what it takes them for: a handler
\* the connection of its own player and the write end of the pipe, the broadcaster the
\* read end and the connections of both players of this game, in order.
FdsRight ==
  /\ \A p \in Player \cap alive : /\ Under(p, PLAYER_SOCKET_FD, Socket(joined[p]))
                                  /\ Under(p, WRITE_PIPE_TO_BROADCAST_FD, PipeEnd(1))
  /\ Bcast \in alive =>
       /\ Under(Bcast, WRITE_PIPE_TO_BROADCAST_FD, PipeEnd(0))
       /\ \A p \in Player : Under(Bcast, PLAYERS_RANGE_FD + p - 1, Socket(joined[p]))

\* Who can see the end of what.  A handler's write fails if and only if server and
\* broadcaster are gone (Server!PipeRead); the broadcaster reads the end of the pipe if
\* and only if server and handlers are; and nobody but the server keeps the port.
LastHolders ==
  /\ pc \notin {"pipe"} =>
       /\ {q \in Process : Has(q, PipeEnd(0))} = alive \cap {Server, Bcast}
       /\ {q \in Process : Has(q, PipeEnd(1))} = alive \cap ({Server} \cup Player)
  /\ \A q \in Process : Has(q, Listening) => q = Server

\* The connections of a game are closed by all who had them before the next one begins,
\* those that were turned away as well, and the server is left with the four files it
\* has opened: no client waits for a game that is over, and no number is lost.
NoLeak ==
  /\ \A n \in 1 .. conns : (\E q \in Process : Has(q, Socket(n))) => \E p \in Player : joined[p] = n
  /\ pc = "accept" /\ cur = 1 =>
       /\ alive = {Server}
       /\ \A n \in 1 .. conns : ~Has(Server, Socket(n))
       /\ players_fd = [p \in Player |-> -1]

=============================================================================

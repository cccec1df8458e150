-------------------------- MODULE DescriptorsProofs --------------------------
(***************************************************************************)
(* Theorems about Descriptors, for every set of inherited numbers that     *)
(* InheritedAssumption allows and any number of connections: the children  *)
(* find what they need under their numbers, and nothing is kept open for   *)
(* longer than intended.                                                   *)
(***************************************************************************)
EXTENDS Descriptors, FiniteSetTheorems, WellFoundedInduction, TLAPS

Early == {"pipe", "open", "listen"}
PC    == Early \cup {"accept", "spawn", "fork", "wait", "close", "killb", "gone"}

Typed ==
  /\ DOMAIN fds = Process /\ alive \subseteq Process
  /\ pc \in PC /\ cur \in Player
  /\ players_fd \in [Player -> Int] /\ sockfd \in Int
  /\ joined \in [Player -> Nat] /\ conns \in Nat
  /\ DOMAIN fds[Server] \in SUBSET Nat /\ IsFiniteSet(DOMAIN fds[Server])

\* Which processes there may be in each phase.
Children ==
  /\ Server \in alive <=> pc # "gone"
  /\ pc \in Early => alive = {Server}
  /\ pc \in {"accept", "spawn"} => alive \subseteq {Server} \cup {p \in Player : p < cur}
  /\ pc = "fork" => Bcast \notin alive
  /\ pc = "close" => \A p \in Player : p < cur => p \notin alive
  /\ pc = "killb" => alive \subseteq {Server, Bcast}
  /\ pc \in Early \cup {"fork", "wait", "killb"} => cur = 1
  /\ \A q \in Process \ alive : DOMAIN fds[q] = {}

\* The numbers of the server's own files, in each phase of its start.
Numbers(t) ==
  /\ {0, 1, 2} \subseteq DOMAIN t
  /\ pc = "pipe" => 3 \notin DOMAIN t /\ 4 \notin DOMAIN t
  /\ pc # "pipe" => /\ 3 \in DOMAIN t /\ t[3] = PipeEnd(0) /\ pipefd[0] = 3
                    /\ 4 \in DOMAIN t /\ t[4] = PipeEnd(1)
  /\ pc \in {"pipe", "open"} => \A a, b \in DOMAIN t \cap 5 .. 7 : a = b
  /\ pc = "listen" => 5 \in DOMAIN t /\ ~(6 \in DOMAIN t /\ 7 \in DOMAIN t)
  /\ pc \in Early => sockfd = -1
  /\ pc \notin Early => /\ 5 \in DOMAIN t /\ 6 \in DOMAIN t
                        /\ sockfd \in {6, 7} /\ sockfd \in DOMAIN t /\ t[sockfd] = Listening

\* When which player has a connection, and that its number is out of the way of the
\* two to which the broadcaster moves them.
Sockets(t) ==
  /\ pc \in Early \cup {"killb"} => \A p \in Player : players_fd[p] = -1
  /\ pc = "accept" => \A p \in Player : players_fd[p] # -1 <=> p < cur
  /\ pc = "spawn"  => \A p \in Player : players_fd[p] # -1 <=> p <= cur
  /\ pc \in {"fork", "wait"} => \A p \in Player : players_fd[p] # -1
  /\ pc = "close"  => \A p \in Player : players_fd[p] # -1 <=> p >= cur
  /\ \A p \in Player : players_fd[p] # -1 =>
       /\ players_fd[p] >= 6 + p
       /\ players_fd[p] \in DOMAIN t /\ t[players_fd[p]] = Socket(joined[p])
  /\ players_fd[1] # -1 => 7 \in DOMAIN t
  /\ players_fd[1] # -1 => players_fd[1] # players_fd[2]

\* There is nothing else in the server's table that could do harm.
NothingElse(t) ==
  \A n \in DOMAIN t :
    /\ t[n] = PipeEnd(0) => pc # "pipe" /\ n = 3
    /\ t[n] = PipeEnd(1) => pc # "pipe" /\ n = 4
    /\ t[n] = Listening => n = sockfd
    /\ \A k \in Nat : t[n] = Socket(k) => \E p \in Player : n = players_fd[p]

OwnTable == pc # "gone" =>
              Numbers(fds[Server]) /\ Sockets(fds[Server]) /\ NothingElse(fds[Server])

\* What a handler finds, and what it does not have.
HandlerTable(p, t) ==
  /\ 3 \in DOMAIN t /\ t[3] = Socket(joined[p])
  /\ 4 \in DOMAIN t /\ t[4] = PipeEnd(1)
  /\ \A n \in DOMAIN t :
       /\ t[n] # PipeEnd(0) /\ t[n] # Listening
       /\ \A k \in Nat : t[n] = Socket(k) => \E r \in Player : r <= p /\ k = joined[r]

BroadcasterTable(t) ==
  /\ 4 \in DOMAIN t /\ t[4] = PipeEnd(0)
  /\ \A p \in Player : 5 + p \in DOMAIN t /\ t[5 + p] = Socket(joined[p])
  /\ \A n \in DOMAIN t :
       /\ t[n] # PipeEnd(1) /\ t[n] # Listening
       /\ \A k \in Nat : t[n] = Socket(k) => \E r \in Player : k = joined[r]

ChildTables == /\ \A p \in Player \cap alive : HandlerTable(p, fds[p])
               /\ Bcast \in alive => BroadcasterTable(fds[Bcast])

IInv == Typed /\ Children /\ OwnTable /\ ChildTables

-----------------------------------------------------------------------------
(* The lowest free number.                                                 *)

\* A set of numbers has a smallest one.  (The sets of its numbers up to each of them
\* are finite, and strict inclusion of finite sets is well-founded.)
LEMMA Least ==
  ASSUME NEW T \in SUBSET Nat, T # {}
  PROVE  \E n \in T : \A m \in T : n <= m
<1> DEFINE UpTo(n) == {m \in T : m <= n}
           F == {UpTo(n) : n \in T}
           R == StrictSubsetOrdering(Nat)
<1>1. ASSUME NEW n \in T PROVE UpTo(n) \in SUBSET Nat /\ IsFiniteSet(UpTo(n))
  <2>1. IsFiniteSet(0 .. n)
    BY FS_Interval
  <2>2. UpTo(n) \subseteq 0 .. n
    <3>1. ASSUME NEW m \in UpTo(n) PROVE m \in 0 .. n
      <4>1. m \in Nat /\ n \in Nat
        OBVIOUS
      <4> QED  BY <4>1
    <3> QED BY <3>1
  <2> QED  BY <2>1, <2>2, FS_Subset
<1>2. F \subseteq FiniteSubsetsOf(Nat) /\ F # {}
  BY <1>1 DEF FiniteSubsetsOf
<1>3. PICK n \in T : \A k \in T : ~(<<UpTo(k), UpTo(n)>> \in R)
  <2>1. IsWellFoundedOn(R, FiniteSubsetsOf(Nat))
    BY FS_StrictSubsetOrderingWellFounded
  <2>2. \E s \in F : \A t \in F : ~(<<t, s>> \in R)
    <3> HIDE DEF F, R
    <3> QED  BY <1>2, <2>1, WFMin
  <2> QED  BY <2>2
<1>4. ASSUME NEW k \in T PROVE n <= k
  <2>0. k \in Nat /\ n \in Nat
    OBVIOUS
  <2> SUFFICES ASSUME k < n PROVE FALSE
    BY <2>0
  <2>1. UpTo(k) \subseteq UpTo(n)
    <3>1. ASSUME NEW m \in T, m <= k PROVE m <= n
      <4>1. m \in Nat
        OBVIOUS
      <4> QED  BY <2>0, <3>1, <4>1
    <3> QED  BY <3>1
  <2>2. n \in UpTo(n) /\ n \notin UpTo(k)
    BY <2>0
  <2>3. <<UpTo(k), UpTo(n)>> \in R
    <3> HIDE DEF UpTo
    <3> QED  BY <1>1, <2>1, <2>2, Zenon DEF StrictSubsetOrdering
  <2> QED  BY <1>3, <2>3
<1> QED  BY <1>4

\* The number that the kernel gives out is free, and those below it are not.
LEMMA LowestFree ==
  ASSUME NEW t, DOMAIN t \in SUBSET Nat, IsFiniteSet(DOMAIN t)
  PROVE  /\ Lowest(t) \in Nat /\ Lowest(t) \notin DOMAIN t
         /\ \A i \in Nat : i < Lowest(t) => i \in DOMAIN t
<1> DEFINE D == DOMAIN t
           c == Cardinality(D)
<1>1. c \in Nat
  BY FS_CardinalityType
<1>2. Nat \ D # {}
  <2> SUFFICES ASSUME Nat \subseteq D PROVE FALSE
    OBVIOUS
  <2>1. 0 .. c \subseteq D
    BY <1>1
  <2>2. Cardinality(0 .. c) = c + 1
    BY <1>1, FS_Interval
  <2>3. Cardinality(0 .. c) <= c
    BY <2>1, FS_Subset
  <2> QED  BY <1>1, <2>2, <2>3
<1>3. PICK n \in Nat \ D : \A m \in Nat \ D : n <= m
  <2>1. Nat \ D \in SUBSET Nat
    OBVIOUS
  <2> QED  BY <1>2, <2>1, Least
<1>4. \A i \in 0 .. n - 1 : i \in D
  BY <1>3
<1>5. n <= c
  <2>1. 0 .. n - 1 \subseteq D
    BY <1>4
  <2>2. Cardinality(0 .. n - 1) <= c
    BY <2>1, FS_Subset
  <2>3. Cardinality(0 .. n - 1) = n
    <3>1. n \in Int /\ n - 1 \in Int /\ 0 \in Int
      BY <1>3
    <3> QED  BY <3>1, FS_Interval
  <2> QED  BY <2>2, <2>3
<1>6. \E i \in 0 .. c : i \notin D /\ \A j \in 0 .. i - 1 : j \in D
  BY <1>1, <1>3, <1>4, <1>5
<1> DEFINE L == Lowest(t)
<1>7. L \in 0 .. c /\ L \notin D /\ \A j \in 0 .. L - 1 : j \in D
  BY <1>6 DEF Lowest
<1>8. L \in Nat
  BY <1>1, <1>7
<1> HIDE DEF L, D, c
<1>9. \A i \in Nat : i < L => i \in D
  BY <1>7, <1>8
<1> QED  BY <1>7, <1>8, <1>9 DEF L, D

\* Files of different kinds are different.
LEMMA Kinds ==
  /\ PipeEnd(0) # PipeEnd(1)
  /\ \A i \in {0, 1} : PipeEnd(i) # Listening /\ PipeEnd(i) # MapFile
  /\ Listening # MapFile
  /\ \A n \in Nat, i \in {0, 1} : Socket(n) # PipeEnd(i) /\ Foreign(n) # PipeEnd(i)
  /\ \A n \in Nat : Socket(n) # Listening /\ Socket(n) # MapFile /\ Foreign(n) # Listening
  /\ \A m, n \in Nat : Socket(m) # Foreign(n) /\ (Socket(m) = Socket(n) => m = n)
BY DEF PipeEnd, Listening, MapFile, Socket, Foreign

-----------------------------------------------------------------------------
(* The invariant is one.                                                   *)

USE DEF Player, Server, Bcast, Process, Early, PC

LEMMA InitIInv == Init => IInv
<1> SUFFICES ASSUME Init PROVE IInv
  OBVIOUS
<1>1. PICK I \in Inherited :
        fds = [q \in Process |-> IF q = Server THEN [n \in I |-> Foreign(n)] ELSE Nothing]
  BY DEF Init
<1>2. /\ DOMAIN fds = Process
      /\ DOMAIN fds[Server] = I /\ \A n \in I : fds[Server][n] = Foreign(n)
      /\ \A q \in Process \ {Server} : DOMAIN fds[q] = {}
  BY <1>1 DEF Nothing
<1>3. /\ I \subseteq Nat /\ IsFiniteSet(I) /\ {0, 1, 2} \subseteq I
      /\ 3 \notin I /\ 4 \notin I /\ \A a, b \in I \cap 5 .. 7 : a = b
  BY InheritedAssumption DEF PLAYER_SOCKET_FD, WRITE_PIPE_TO_BROADCAST_FD, PLAYERS_RANGE_FD
<1>4. Typed
  BY <1>2, <1>3 DEF Init, Typed
<1>5. Children
  BY <1>2 DEF Init, Children
<1>6. Numbers(fds[Server]) /\ Sockets(fds[Server])
  BY <1>2, <1>3 DEF Init, Numbers, Sockets
<1>7. NothingElse(fds[Server])
  BY <1>2, <1>3, Kinds DEF Init, NothingElse
<1>8. ChildTables
  BY DEF Init, ChildTables
<1> QED  BY <1>4, <1>5, <1>6, <1>7, <1>8 DEF IInv, OwnTable

LEMMA PipeIInv == IInv /\ Pipe => IInv'
<1> SUFFICES ASSUME IInv, Pipe PROVE IInv'
  OBVIOUS
<1> DEFINE t  == fds[Server]
           t1 == With(t, 3, PipeEnd(0))
           t2 == With(t1, 4, PipeEnd(1))
<1>1. /\ pc = "pipe" /\ alive = {Server} /\ cur = 1
      /\ Numbers(t) /\ Sockets(t) /\ NothingElse(t)
      /\ \A q \in Process \ {Server} : DOMAIN fds[q] = {}
  BY DEF IInv, Pipe, Children, OwnTable
<1>2. Typed /\ DOMAIN t \in SUBSET Nat /\ IsFiniteSet(DOMAIN t)
  BY DEF IInv, Typed
<1>3. Lowest(t) = 3
  BY <1>1, <1>2, LowestFree DEF Numbers
<1>4. /\ DOMAIN t1 = DOMAIN t \cup {3} /\ t1[3] = PipeEnd(0)
      /\ DOMAIN t1 \in SUBSET Nat /\ IsFiniteSet(DOMAIN t1)
      /\ \A i \in DOMAIN t : i # 3 => t1[i] = t[i]
  <2> HIDE DEF t
  <2>1. IsFiniteSet(DOMAIN t \cup {3})
    BY <1>2, FS_AddElement
  <2> QED  BY <1>2, <2>1 DEF With
<1>5. Lowest(t1) = 4
  BY <1>1, <1>4, LowestFree DEF Numbers
<1>6. /\ DOMAIN t2 = DOMAIN t1 \cup {4} /\ t2[4] = PipeEnd(1)
      /\ DOMAIN t2 \in SUBSET Nat /\ IsFiniteSet(DOMAIN t2)
      /\ \A i \in DOMAIN t1 : i # 4 => t2[i] = t1[i]
  <2> HIDE DEF t1
  <2>1. IsFiniteSet(DOMAIN t1 \cup {4})
    BY <1>4, FS_AddElement
  <2> QED  BY <1>4, <2>1 DEF With
<1>7. /\ fds' = [fds EXCEPT ![Server] = t2] /\ pipefd'[0] = 3 /\ pc' = "open"
      /\ UNCHANGED <<alive, cur, map, sockfd, players_fd, conns, joined>>
  BY <1>3, <1>5 DEF Pipe, Mine
<1> HIDE DEF t1, t2
<1>8. fds'[Server] = t2 /\ DOMAIN fds' = Process /\ \A q \in Process \ {Server} : fds'[q] = fds[q]
  BY <1>2, <1>7 DEF Typed
<1>9. Typed'
  BY <1>2, <1>5, <1>6, <1>7, <1>8 DEF Typed
<1>10. Children'
  BY <1>1, <1>7, <1>8 DEF Children
<1>11. Numbers(fds[Server])'
  BY <1>1, <1>3, <1>4, <1>5, <1>6, <1>7, <1>8 DEF Numbers
<1>12. Sockets(fds[Server])'
  BY <1>1, <1>7, <1>8 DEF Sockets
<1>13. NothingElse(fds[Server])'
  BY <1>1, <1>2, <1>3, <1>4, <1>5, <1>6, <1>7, <1>8, Kinds DEF NothingElse, Numbers
<1>14. ChildTables'
  BY <1>1, <1>7 DEF ChildTables
<1> QED  BY <1>9, <1>10, <1>11, <1>12, <1>13, <1>14 DEF IInv, OwnTable

\* One more file of the server, under the lowest number.
LEMMA Opened ==
  ASSUME Typed, NEW f, NEW n, Open(n, f)
  PROVE  /\ n \in Nat /\ n \notin DOMAIN fds[Server]
         /\ \A i \in Nat : i < n => i \in DOMAIN fds[Server]
         /\ DOMAIN fds' = Process /\ \A q \in Process \ {Server} : fds'[q] = fds[q]
         /\ DOMAIN fds'[Server] = DOMAIN fds[Server] \cup {n}
         /\ DOMAIN fds'[Server] \in SUBSET Nat /\ IsFiniteSet(DOMAIN fds'[Server])
         /\ fds'[Server][n] = f
         /\ \A i \in DOMAIN fds[Server] : fds'[Server][i] = fds[Server][i]
<1> DEFINE t == fds[Server]
<1>1. DOMAIN t \in SUBSET Nat /\ IsFiniteSet(DOMAIN t) /\ DOMAIN fds = Process
  BY DEF Typed
<1>2. n = Lowest(t) /\ fds' = [fds EXCEPT ![Server] = With(t, n, f)]
  BY DEF Open, Mine
<1>3. n \in Nat /\ n \notin DOMAIN t /\ \A i \in Nat : i < n => i \in DOMAIN t
  BY <1>1, <1>2, LowestFree
<1>4. fds'[Server] = With(t, n, f) /\ DOMAIN fds' = Process
      /\ \A q \in Process \ {Server} : fds'[q] = fds[q]
  BY <1>1, <1>2
<1>5. IsFiniteSet(DOMAIN t \cup {n})
  BY <1>1, FS_AddElement
<1>6. /\ DOMAIN With(t, n, f) = DOMAIN t \cup {n} /\ With(t, n, f)[n] = f
      /\ \A i \in DOMAIN t : With(t, n, f)[i] = t[i]
  BY <1>3 DEF With
<1> QED  BY <1>1, <1>3, <1>4, <1>5, <1>6

LEMMA OpenMapIInv == IInv /\ OpenMap => IInv'
<1> SUFFICES ASSUME IInv, OpenMap PROVE IInv'
  OBVIOUS
<1>1. /\ pc = "open" /\ alive = {Server} /\ cur = 1 /\ Typed
      /\ Numbers(fds[Server]) /\ Sockets(fds[Server]) /\ NothingElse(fds[Server])
      /\ \A q \in Process \ {Server} : DOMAIN fds[q] = {}
  BY DEF IInv, OpenMap, Children, OwnTable
<1>2. /\ Open(map', MapFile) /\ pc' = "listen"
      /\ UNCHANGED <<alive, cur, pipefd, sockfd, players_fd, conns, joined>>
  BY DEF OpenMap
<1> DEFINE t == fds[Server]
           u == fds'[Server]
           n == map'
<1>3. /\ n \in Nat /\ n \notin DOMAIN t
      /\ \A i \in Nat : i < n => i \in DOMAIN t
      /\ DOMAIN fds' = Process /\ \A q \in Process \ {Server} : fds'[q] = fds[q]
      /\ DOMAIN u = DOMAIN t \cup {n} /\ DOMAIN u \in SUBSET Nat /\ IsFiniteSet(DOMAIN u)
      /\ u[n] = MapFile /\ \A i \in DOMAIN t : u[i] = t[i]
  BY <1>1, <1>2, Opened
<1>4. Typed'
  BY <1>1, <1>2, <1>3 DEF Typed
<1>5. Children'
  BY <1>1, <1>2, <1>3 DEF Children
<1>6. Numbers(fds[Server])'
  BY <1>1, <1>2, <1>3 DEF Numbers
<1>7. Sockets(fds[Server])'
  BY <1>1, <1>2, <1>3 DEF Sockets
<1>8. NothingElse(fds[Server])'
  BY <1>1, <1>2, <1>3, Kinds DEF NothingElse
<1>9. ChildTables'
  BY <1>1, <1>2 DEF ChildTables
<1> QED  BY <1>4, <1>5, <1>6, <1>7, <1>8, <1>9 DEF IInv, OwnTable

LEMMA ListenIInv == IInv /\ Listen => IInv'
<1> SUFFICES ASSUME IInv, Listen PROVE IInv'
  OBVIOUS
<1>1. /\ pc = "listen" /\ alive = {Server} /\ cur = 1 /\ Typed
      /\ Numbers(fds[Server]) /\ Sockets(fds[Server]) /\ NothingElse(fds[Server])
      /\ \A q \in Process \ {Server} : DOMAIN fds[q] = {}
  BY DEF IInv, Listen, Children, OwnTable
<1>2. /\ Open(sockfd', Listening) /\ pc' = "accept"
      /\ UNCHANGED <<alive, cur, pipefd, map, players_fd, conns, joined>>
  BY DEF Listen
<1> DEFINE t == fds[Server]
           u == fds'[Server]
           n == sockfd'
<1>3. /\ n \in Nat /\ n \notin DOMAIN t
      /\ \A i \in Nat : i < n => i \in DOMAIN t
      /\ DOMAIN fds' = Process /\ \A q \in Process \ {Server} : fds'[q] = fds[q]
      /\ DOMAIN u = DOMAIN t \cup {n} /\ DOMAIN u \in SUBSET Nat /\ IsFiniteSet(DOMAIN u)
      /\ u[n] = Listening /\ \A i \in DOMAIN t : u[i] = t[i]
  BY <1>1, <1>2, Opened
<1>4. Typed'
  BY <1>1, <1>2, <1>3 DEF Typed
<1>5. Children'
  BY <1>1, <1>2, <1>3 DEF Children
<1>6. n \in {6, 7} /\ 6 \in DOMAIN u
  BY <1>1, <1>3 DEF Numbers
<1>7. Numbers(fds[Server])'
  BY <1>1, <1>2, <1>3, <1>6 DEF Numbers
<1>8. Sockets(fds[Server])'
  BY <1>1, <1>2, <1>3 DEF Sockets
<1>9. NothingElse(fds[Server])'
  <2>1. \A i \in DOMAIN t : t[i] # Listening
    BY <1>1 DEF NothingElse, Typed, Numbers
  <2> QED  BY <1>1, <1>2, <1>3, <2>1, Kinds DEF NothingElse
<1>10. ChildTables'
  BY <1>1, <1>2 DEF ChildTables
<1> QED  BY <1>4, <1>5, <1>7, <1>8, <1>9, <1>10 DEF IInv, OwnTable

LEMMA AcceptIInv == IInv /\ Accept => IInv'
<1> SUFFICES ASSUME IInv, Accept PROVE IInv'
  OBVIOUS
<1> DEFINE t == fds[Server]
           u == fds'[Server]
           n == Lowest(t)
<1>1. /\ pc = "accept" /\ Typed /\ Children /\ ChildTables
      /\ Numbers(t) /\ Sockets(t) /\ NothingElse(t)
  BY DEF IInv, Accept, OwnTable
<1>2. /\ Open(n, Socket(conns')) /\ pc' = "spawn" /\ conns' = conns + 1
      /\ joined' = [joined EXCEPT ![cur] = conns']
      /\ players_fd' = [players_fd EXCEPT ![cur] = n]
      /\ UNCHANGED <<alive, cur, pipefd, map, sockfd>>
  <2>1. players_fd'[cur] = n
    BY <1>1 DEF Accept, Typed, Mine
  <2> QED  BY <2>1 DEF Accept, Mine
<1>3. /\ n \in Nat /\ n \notin DOMAIN t
      /\ \A i \in Nat : i < n => i \in DOMAIN t
      /\ DOMAIN fds' = Process /\ \A q \in Process \ {Server} : fds'[q] = fds[q]
      /\ DOMAIN u = DOMAIN t \cup {n} /\ DOMAIN u \in SUBSET Nat /\ IsFiniteSet(DOMAIN u)
      /\ u[n] = Socket(conns') /\ \A i \in DOMAIN t : u[i] = t[i]
  BY <1>1, <1>2, Opened
<1> HIDE DEF n
<1>4. /\ conns' \in Nat /\ cur \in Player
      /\ joined' \in [Player -> Nat] /\ joined'[cur] = conns'
      /\ players_fd' \in [Player -> Int] /\ players_fd'[cur] = n
      /\ \A p \in Player : p # cur => joined'[p] = joined[p] /\ players_fd'[p] = players_fd[p]
  BY <1>1, <1>2, <1>3 DEF Typed
<1>5. Typed'
  BY <1>1, <1>2, <1>3, <1>4 DEF Typed
<1>6. Children'
  BY <1>1, <1>2, <1>3 DEF Children
<1>7. Numbers(fds[Server])'
  BY <1>1, <1>2, <1>3 DEF Numbers
<1>8. Sockets(fds[Server])'
  <2>1. n >= 7 /\ (cur = 2 => n >= 8)
    BY <1>1, <1>3 DEF Numbers, Sockets
  <2>2. 7 \in DOMAIN u
    BY <1>1, <1>3, <2>1 DEF Sockets
  <2>3. \A p \in Player : p # cur /\ players_fd[p] # -1 => players_fd[p] # n
    BY <1>1, <1>3 DEF Sockets
  <2>4. \A p \in Player : players_fd'[p] # -1 =>
          /\ players_fd'[p] >= 6 + p
          /\ players_fd'[p] \in DOMAIN u /\ u[players_fd'[p]] = Socket(joined'[p])
    BY <1>1, <1>3, <1>4, <2>1 DEF Sockets
  <2>5. \A p \in Player : players_fd'[p] # -1 <=> p <= cur
    BY <1>1, <1>3, <1>4 DEF Sockets
  <2>6. players_fd'[1] # -1 => players_fd'[1] # players_fd'[2]
    BY <1>3, <1>4, <2>3
  <2> QED  BY <1>2, <2>2, <2>4, <2>5, <2>6 DEF Sockets
<1>9. NothingElse(fds[Server])'
  <2>1. \A i \in DOMAIN t, p \in Player : i = players_fd[p] => i = players_fd'[p]
    BY <1>1, <1>3, <1>4 DEF Sockets, Typed
  <2> QED  BY <1>1, <1>2, <1>3, <1>4, <2>1, Kinds DEF NothingElse
<1>10. ChildTables'
  <2>1. Bcast \notin alive /\ \A p \in Player \cap alive : p < cur
    BY <1>1 DEF Children
  <2>2. ASSUME NEW p \in Player \cap alive PROVE HandlerTable(p, fds[p])'
    <3>1. p < cur /\ fds'[p] = fds[p] /\ HandlerTable(p, fds[p])
      BY <1>1, <1>3, <2>1 DEF ChildTables
    <3>2. \A r \in Player : r <= p => joined'[r] = joined[r]
      BY <1>4, <3>1
    <3> QED  BY <3>1, <3>2 DEF HandlerTable
  <2> QED  BY <1>2, <2>1, <2>2 DEF ChildTables
<1> QED  BY <1>5, <1>6, <1>7, <1>8, <1>9, <1>10 DEF IInv, OwnTable

LEMMA DropIInv == IInv /\ Drop => IInv'
<1> SUFFICES ASSUME IInv, Drop PROVE IInv'
  OBVIOUS
<1> DEFINE t == fds[Server]
           u == fds'[Server]
           n == Lowest(t)
<1>1. /\ pc = "accept" /\ Typed /\ Children /\ ChildTables
      /\ Numbers(t) /\ Sockets(t) /\ NothingElse(t)
  BY DEF IInv, Drop, OwnTable
<1>2. /\ fds' = [fds EXCEPT ![Server] = Without(With(t, n, Socket(conns')), n)]
      /\ conns' = conns + 1
      /\ UNCHANGED <<alive, pc, cur, pipefd, map, sockfd, players_fd, joined>>
  BY DEF Drop, Mine, locals
<1>3. n \in Nat /\ n \notin DOMAIN t
  BY <1>1, LowestFree DEF Typed
<1>4. /\ DOMAIN fds' = Process /\ u = Without(With(t, n, Socket(conns')), n)
      /\ \A q \in Process \ {Server} : fds'[q] = fds[q]
  BY <1>1, <1>2 DEF Typed
<1> HIDE DEF n
<1>5. DOMAIN u = DOMAIN t /\ \A i \in DOMAIN t : u[i] = t[i]
  <2> HIDE DEF t, u
  <2> QED  BY <1>3, <1>4 DEF With, Without
<1>6. Typed'
  BY <1>1, <1>2, <1>4, <1>5 DEF Typed
<1>7. Children'
  BY <1>1, <1>2, <1>4 DEF Children
<1>8. Numbers(fds[Server])'
  BY <1>1, <1>2, <1>5 DEF Numbers
<1>9. Sockets(fds[Server])'
  BY <1>1, <1>2, <1>5 DEF Sockets
<1>10. NothingElse(fds[Server])'
  BY <1>1, <1>2, <1>5 DEF NothingElse
<1>11. ChildTables'
  <2>1. \A q \in {1, 2, 3} : fds'[q] = fds[q]
    BY <1>4
  <2> QED  BY <1>1, <1>2, <2>1 DEF ChildTables, HandlerTable, BroadcasterTable
<1> QED  BY <1>6, <1>7, <1>8, <1>9, <1>10, <1>11 DEF IInv, OwnTable

\* The table of a handler at its exec, from that of the server at the fork.
LEMMA SpawnIInv == IInv /\ SpawnHandler => IInv'
<1> SUFFICES ASSUME IInv, SpawnHandler PROVE IInv'
  OBVIOUS
<1> DEFINE t == fds[Server]
           n == players_fd[cur]
<1>1. /\ pc = "spawn" /\ Typed /\ Children /\ ChildTables
      /\ Numbers(t) /\ Sockets(t) /\ NothingElse(t)
  BY DEF IInv, SpawnHandler, OwnTable
<1>2. /\ fds' = [fds EXCEPT ![cur] = HandlerFds] /\ alive' = alive \cup {cur}
      /\ cur = 1 => cur' = 2 /\ pc' = "accept"
      /\ cur = 2 => cur' = 1 /\ pc' = "fork"
      /\ UNCHANGED <<pipefd, map, sockfd, players_fd, conns, joined>>
  BY DEF SpawnHandler, locals
<1>3. /\ cur \in Player /\ fds'[cur] = HandlerFds /\ DOMAIN fds' = Process
      /\ \A q \in Process : q # cur => fds'[q] = fds[q]
  BY <1>1, <1>2 DEF Typed
<1>4. ASSUME NEW p \in Player, p = cur PROVE HandlerTable(p, fds[p])'
  <2>1. /\ n >= 7 /\ n \in DOMAIN t /\ t[n] = Socket(joined[cur])
        /\ sockfd \in {6, 7} /\ sockfd \in DOMAIN t /\ n # sockfd
    BY <1>1, <1>3, Kinds DEF Typed, Numbers, Sockets
  <2> DEFINE h == HandlerFds
  <2>2. /\ DOMAIN h = (DOMAIN t \cup {3}) \ {n, sockfd}
        /\ \A i \in DOMAIN h : h[i] = IF i = 3 THEN t[n] ELSE t[i]
    BY <2>1 DEF HandlerFds, Move, With, Without, Mine, PLAYER_SOCKET_FD
  <2> HIDE DEF h
  <2>3. /\ 3 \in DOMAIN h /\ h[3] = Socket(joined[cur])
        /\ 4 \in DOMAIN h /\ h[4] = PipeEnd(1)
    BY <1>1, <2>1, <2>2 DEF Numbers
  <2>4. ASSUME NEW i \in DOMAIN h
        PROVE  /\ h[i] # PipeEnd(0) /\ h[i] # Listening
               /\ \A k \in Nat : h[i] = Socket(k) => \E r \in Player : r <= cur /\ k = joined[r]
    <3>1. CASE i = 3
      <4>1. h[i] = Socket(joined[cur]) /\ joined[cur] \in Nat
        BY <1>1, <1>3, <2>3, <3>1 DEF Typed
      <4> QED  BY <1>3, <4>1, Kinds
    <3>2. CASE i # 3
      <4>1. i \in DOMAIN t /\ i # sockfd /\ h[i] = t[i]
        BY <2>2, <3>2
      <4>2. t[i] # PipeEnd(0) /\ t[i] # Listening
        BY <1>1, <3>2, <4>1 DEF NothingElse
      <4>3. ASSUME NEW k \in Nat, t[i] = Socket(k)
            PROVE  \E r \in Player : r <= cur /\ k = joined[r]
        <5>1. PICK r \in Player : i = players_fd[r]
          BY <1>1, <4>1, <4>3 DEF NothingElse
        <5>2. players_fd[r] # -1
          BY <1>1, <4>1, <5>1 DEF Typed
        <5>3. r <= cur /\ t[i] = Socket(joined[r]) /\ joined[r] \in Nat
          BY <1>1, <5>1, <5>2 DEF Sockets, Typed
        <5> QED  BY <4>3, <5>3, Kinds
      <4> QED  BY <4>1, <4>2, <4>3
    <3> QED  BY <3>1, <3>2
  <2>5. HandlerTable(cur, h)
    BY <2>3, <2>4 DEF HandlerTable
  <2> QED  BY <1>2, <1>3, <1>4, <2>5 DEF h, HandlerTable
<1>5. Typed'
  BY <1>1, <1>2, <1>3 DEF Typed
<1>6. Children'
  BY <1>1, <1>2, <1>3 DEF Children
<1>7. Numbers(fds[Server])'
  BY <1>1, <1>2, <1>3 DEF Numbers
<1>8. Sockets(fds[Server])'
  BY <1>1, <1>2, <1>3 DEF Sockets
<1>9. NothingElse(fds[Server])'
  BY <1>1, <1>2, <1>3 DEF NothingElse
<1>10. ChildTables'
  <2>1. Bcast \notin alive'
    BY <1>1, <1>2, <1>3 DEF Children
  <2>2. ASSUME NEW p \in Player \cap alive' PROVE HandlerTable(p, fds[p])'
    <3>1. CASE p = cur
      BY <1>4, <3>1
    <3>2. CASE p # cur
      BY <1>1, <1>2, <1>3, <3>2 DEF ChildTables, HandlerTable
    <3> QED  BY <3>1, <3>2
  <2> QED  BY <2>1, <2>2 DEF ChildTables
<1> QED  BY <1>5, <1>6, <1>7, <1>8, <1>9, <1>10 DEF IInv, OwnTable

\* And that of the broadcaster.
LEMMA ForkIInv == IInv /\ ForkBroadcaster => IInv'
<1> SUFFICES ASSUME IInv, ForkBroadcaster PROVE IInv'
  OBVIOUS
<1> DEFINE t == fds[Server]
           a == players_fd[1]
           b == players_fd[2]
<1>1. /\ pc = "fork" /\ Typed /\ Children /\ ChildTables
      /\ Numbers(t) /\ Sockets(t) /\ NothingElse(t)
  BY DEF IInv, ForkBroadcaster, OwnTable
<1>2. /\ fds' = [fds EXCEPT ![Bcast] = BroadcasterFds] /\ alive' = alive \cup {Bcast}
      /\ pc' = "wait"
      /\ UNCHANGED <<cur, pipefd, map, sockfd, players_fd, conns, joined>>
  BY DEF ForkBroadcaster, locals
<1>3. /\ fds'[Bcast] = BroadcasterFds /\ DOMAIN fds' = Process
      /\ \A q \in Process : q # Bcast => fds'[q] = fds[q]
  BY <1>1, <1>2 DEF Typed
<1>4. BroadcasterTable(fds[Bcast])'
  <2>1. /\ a >= 7 /\ a \in DOMAIN t /\ t[a] = Socket(joined[1]) /\ a \in Int
        /\ b >= 8 /\ b \in DOMAIN t /\ t[b] = Socket(joined[2]) /\ b \in Int
        /\ a # b /\ pipefd[0] = 3
    BY <1>1 DEF Typed, Numbers, Sockets
  <2> DEFINE h1 == Move(t, 3, 4)
             h2 == Move(h1, a, 6)
             h  == Move(h2, b, 7)
  <2>2. BroadcasterFds = h
    BY <2>1 DEF BroadcasterFds, Mine, WRITE_PIPE_TO_BROADCAST_FD, PLAYERS_RANGE_FD
  <2>3. /\ DOMAIN h1 = (DOMAIN t \cup {4}) \ {3}
        /\ \A i \in DOMAIN h1 : h1[i] = IF i = 4 THEN t[3] ELSE t[i]
    BY DEF Move, With, Without
  <2> HIDE DEF h1
  <2>4. /\ DOMAIN h2 = (DOMAIN h1 \cup {6}) \ {a}
        /\ \A i \in DOMAIN h2 : h2[i] = IF i = 6 THEN h1[a] ELSE h1[i]
    BY DEF Move, With, Without
  <2> HIDE DEF h2
  <2>5. /\ DOMAIN h = (DOMAIN h2 \cup {7}) \ {b}
        /\ \A i \in DOMAIN h : h[i] = IF i = 7 THEN h2[b] ELSE h2[i]
    BY DEF Move, With, Without
  <2> HIDE DEF h, a, b
  <2>6. /\ 4 \in DOMAIN h /\ h[4] = PipeEnd(0)
        /\ 6 \in DOMAIN h /\ h[6] = Socket(joined[1])
        /\ 7 \in DOMAIN h /\ h[7] = Socket(joined[2])
    BY <1>1, <2>1, <2>3, <2>4, <2>5 DEF Numbers
  <2>7. \A i \in DOMAIN h : i \notin {4, 6, 7} => i # 3 /\ i \in DOMAIN t /\ h[i] = t[i]
    BY <2>3, <2>4, <2>5
  <2>8. ASSUME NEW i \in DOMAIN h
        PROVE  /\ h[i] # PipeEnd(1) /\ h[i] # Listening
               /\ \A k \in Nat : h[i] = Socket(k) => \E r \in Player : k = joined[r]
    <3>1. joined[1] \in Nat /\ joined[2] \in Nat
      BY <1>1 DEF Typed
    <3>2. CASE i \in {4, 6, 7}
      BY <2>6, <3>1, <3>2, Kinds
    <3>3. CASE i \notin {4, 6, 7}
      <4>1. i \in DOMAIN t /\ h[i] = t[i] /\ i # sockfd
        BY <1>1, <2>7, <3>3 DEF Numbers
      <4>2. t[i] # PipeEnd(1) /\ t[i] # Listening
        BY <1>1, <3>3, <4>1 DEF NothingElse
      <4>3. ASSUME NEW k \in Nat, t[i] = Socket(k) PROVE \E r \in Player : k = joined[r]
        <5>1. PICK r \in Player : i = players_fd[r]
          BY <1>1, <4>1, <4>3 DEF NothingElse
        <5>2. t[i] = Socket(joined[r])
          BY <1>1, <5>1 DEF Sockets
        <5> QED  BY <3>1, <4>3, <5>2, Kinds
      <4> QED  BY <4>1, <4>2, <4>3
    <3> QED  BY <3>2, <3>3
  <2>9. BroadcasterTable(h)
    <3>1. \A p \in Player : 5 + p \in DOMAIN h /\ h[5 + p] = Socket(joined[p])
      BY <2>6
    <3> QED  BY <2>6, <2>8, <3>1 DEF BroadcasterTable
  <2> QED  BY <1>2, <1>3, <2>2, <2>9 DEF BroadcasterTable
<1>5. Typed'
  BY <1>1, <1>2, <1>3 DEF Typed
<1>6. Children'
  BY <1>1, <1>2, <1>3 DEF Children
<1>7. Numbers(fds[Server])'
  BY <1>1, <1>2, <1>3 DEF Numbers
<1>8. Sockets(fds[Server])'
  BY <1>1, <1>2, <1>3 DEF Sockets
<1>9. NothingElse(fds[Server])'
  BY <1>1, <1>2, <1>3 DEF NothingElse
<1>10. ChildTables'
  BY <1>1, <1>2, <1>3, <1>4 DEF ChildTables, HandlerTable
<1> QED  BY <1>5, <1>6, <1>7, <1>8, <1>9, <1>10 DEF IInv, OwnTable

LEMMA WaitIInv == IInv /\ Wait => IInv'
<1> SUFFICES ASSUME IInv, Wait PROVE IInv'
  OBVIOUS
<1>1. /\ pc = "wait" /\ Typed /\ Children /\ ChildTables
      /\ Numbers(fds[Server]) /\ Sockets(fds[Server]) /\ NothingElse(fds[Server])
  BY DEF IInv, Wait, OwnTable
<1>2. /\ pc' = "close"
      /\ UNCHANGED <<fds, alive, cur, pipefd, map, sockfd, players_fd, conns, joined>>
  BY DEF Wait, locals
<1>3. Typed' /\ Children'
  BY <1>1, <1>2 DEF Typed, Children
<1>4. Numbers(fds[Server])' /\ Sockets(fds[Server])' /\ NothingElse(fds[Server])'
  BY <1>1, <1>2 DEF Children, Numbers, Sockets, NothingElse
<1>5. ChildTables'
  BY <1>1, <1>2 DEF ChildTables, HandlerTable, BroadcasterTable
<1> QED  BY <1>3, <1>4, <1>5 DEF IInv, OwnTable

LEMMA CloseIInv == IInv /\ CloseAndKill => IInv'
<1> SUFFICES ASSUME IInv, CloseAndKill PROVE IInv'
  OBVIOUS
<1> DEFINE t == fds[Server]
           u == fds'[Server]
           n == players_fd[cur]
<1>1. /\ pc = "close" /\ Typed /\ Children /\ ChildTables
      /\ Numbers(t) /\ Sockets(t) /\ NothingElse(t)
  BY DEF IInv, CloseAndKill, OwnTable
<1>2. /\ fds' = [fds EXCEPT ![Server] = Without(t, n), ![cur] = Nothing]
      /\ alive' = alive \ {cur}
      /\ players_fd' = [players_fd EXCEPT ![cur] = -1]
      /\ cur = 1 => cur' = 2 /\ pc' = "close"
      /\ cur = 2 => cur' = 1 /\ pc' = "killb"
      /\ UNCHANGED <<pipefd, map, sockfd, conns, joined>>
  BY <1>1 DEF CloseAndKill, Mine
<1>3. /\ cur \in Player /\ DOMAIN fds' = Process
      /\ u = Without(t, n) /\ DOMAIN fds'[cur] = {}
      /\ \A q \in Process : q # Server /\ q # cur => fds'[q] = fds[q]
  BY <1>1, <1>2 DEF Typed, Nothing
<1>4. /\ n >= 7 /\ n \in DOMAIN t /\ t[n] = Socket(joined[cur]) /\ n # sockfd
      /\ \A p \in Player : p # cur => players_fd[p] # n
  BY <1>1, <1>3, Kinds DEF Typed, Numbers, Sockets
<1>5. DOMAIN u = DOMAIN t \ {n} /\ \A i \in DOMAIN u : u[i] = t[i]
  BY <1>3 DEF Without
<1>6. /\ players_fd' \in [Player -> Int] /\ players_fd'[cur] = -1
      /\ \A p \in Player : p # cur => players_fd'[p] = players_fd[p]
  BY <1>1, <1>2 DEF Typed
<1>7. Typed'
  <2>1. DOMAIN u \in SUBSET Nat /\ IsFiniteSet(DOMAIN u)
    BY <1>1, <1>5, FS_RemoveElement DEF Typed
  <2> QED  BY <1>1, <1>2, <1>3, <1>6, <2>1 DEF Typed
<1>8. Children'
  <2>1. Server \in alive' /\ \A q \in Process \ alive' : DOMAIN fds'[q] = {}
    BY <1>1, <1>2, <1>3 DEF Children
  <2>2. CASE cur = 1
    <3>1. cur' = 2 /\ pc' = "close" /\ \A p \in Player : p < 2 => p \notin alive'
      BY <1>2, <2>2
    <3> QED  BY <2>1, <3>1 DEF Children
  <2>3. CASE cur = 2
    <3>1. alive' \subseteq {Server, Bcast}
      BY <1>1, <1>2, <2>3 DEF Typed, Children
    <3> QED  BY <1>2, <2>1, <2>3, <3>1 DEF Children
  <2> QED  BY <1>3, <2>2, <2>3
<1>9. Numbers(fds[Server])'
  BY <1>1, <1>2, <1>3, <1>4, <1>5 DEF Numbers
<1>10. Sockets(fds[Server])'
  <2>1. \A p \in Player : players_fd'[p] # -1 => p > cur
    BY <1>1, <1>3, <1>6 DEF Sockets
  <2>2. pc' = "close" => players_fd'[2] # -1
    BY <1>1, <1>2, <1>3, <1>6 DEF Sockets
  <2>3. \A p \in Player : players_fd'[p] # -1 =>
          /\ players_fd'[p] >= 6 + p
          /\ players_fd'[p] \in DOMAIN u /\ u[players_fd'[p]] = Socket(joined'[p])
    BY <1>1, <1>2, <1>3, <1>4, <1>5, <1>6 DEF Sockets
  <2> QED  BY <1>2, <1>3, <2>1, <2>2, <2>3 DEF Sockets
<1>11. NothingElse(fds[Server])'
  <2>1. \A i \in DOMAIN u, p \in Player : i = players_fd[p] => i = players_fd'[p]
    BY <1>3, <1>5, <1>6
  <2> QED  BY <1>1, <1>2, <1>3, <1>5, <2>1 DEF NothingElse
<1>12. ChildTables'
  BY <1>1, <1>2, <1>3 DEF ChildTables, HandlerTable, BroadcasterTable
<1> QED  BY <1>7, <1>8, <1>9, <1>10, <1>11, <1>12 DEF IInv, OwnTable

LEMMA KillIInv == IInv /\ KillBroadcaster => IInv'
<1> SUFFICES ASSUME IInv, KillBroadcaster PROVE IInv'
  OBVIOUS
<1>1. /\ pc = "killb" /\ Typed /\ Children /\ ChildTables
      /\ Numbers(fds[Server]) /\ Sockets(fds[Server]) /\ NothingElse(fds[Server])
  BY DEF IInv, KillBroadcaster, OwnTable
<1>2. /\ fds' = [fds EXCEPT ![Bcast] = Nothing]
      /\ alive' = alive \ {Bcast} /\ pc' = "accept"
      /\ UNCHANGED <<cur, pipefd, map, sockfd, players_fd, conns, joined>>
  BY DEF KillBroadcaster, locals
<1>3. /\ DOMAIN fds' = Process /\ DOMAIN fds'[Bcast] = {}
      /\ \A q \in Process : q # Bcast => fds'[q] = fds[q]
  BY <1>1, <1>2 DEF Typed, Nothing
<1>4. Typed' /\ Children'
  BY <1>1, <1>2, <1>3 DEF Typed, Children
<1>5. Numbers(fds[Server])' /\ NothingElse(fds[Server])'
  BY <1>1, <1>2, <1>3 DEF Numbers, NothingElse
<1>6. Sockets(fds[Server])'
  BY <1>1, <1>2, <1>3 DEF Children, Sockets
<1>7. ChildTables'
  BY <1>1, <1>2, <1>3 DEF Children, ChildTables
<1> QED  BY <1>4, <1>5, <1>6, <1>7 DEF IInv, OwnTable

LEMMA ChildEndsIInv == ASSUME NEW q \in Process, IInv, ChildEnds(q) PROVE IInv'
<1>1. Typed /\ Children /\ OwnTable /\ ChildTables /\ q \in alive \ {Server}
  BY DEF IInv, ChildEnds
<1>2. /\ fds' = [fds EXCEPT ![q] = Nothing] /\ alive' = alive \ {q}
      /\ UNCHANGED <<pc, cur, pipefd, map, sockfd, players_fd, conns, joined>>
  BY DEF ChildEnds, locals
<1>3. /\ DOMAIN fds' = Process /\ DOMAIN fds'[q] = {}
      /\ \A r \in Process : r # q => fds'[r] = fds[r]
  BY <1>1, <1>2 DEF Typed, Nothing
<1>4. Typed' /\ Children'
  BY <1>1, <1>2, <1>3 DEF Typed, Children
<1>5. OwnTable'
  BY <1>1, <1>2, <1>3 DEF OwnTable, Numbers, Sockets, NothingElse
<1>6. ChildTables'
  BY <1>1, <1>2, <1>3 DEF ChildTables, HandlerTable, BroadcasterTable
<1> QED  BY <1>4, <1>5, <1>6 DEF IInv

LEMMA ServerEndsIInv == IInv /\ ServerEnds => IInv'
<1> SUFFICES ASSUME IInv, ServerEnds PROVE IInv'
  OBVIOUS
<1>1. Typed /\ Children /\ ChildTables
  BY DEF IInv
<1>2. /\ fds' = [fds EXCEPT ![Server] = Nothing] /\ alive' = alive \ {Server}
      /\ pc' = "gone"
      /\ UNCHANGED <<cur, pipefd, map, sockfd, players_fd, conns, joined>>
  BY DEF ServerEnds, locals
<1>3. /\ DOMAIN fds' = Process /\ DOMAIN fds'[Server] = {}
      /\ \A r \in Process : r # Server => fds'[r] = fds[r]
  BY <1>1, <1>2 DEF Typed, Nothing
<1>4. Typed' /\ Children'
  BY <1>1, <1>2, <1>3, FS_EmptySet DEF Typed, Children
<1>5. OwnTable'
  BY <1>2 DEF OwnTable
<1>6. ChildTables'
  BY <1>1, <1>2, <1>3 DEF ChildTables, HandlerTable, BroadcasterTable
<1> QED  BY <1>4, <1>5, <1>6 DEF IInv

LEMMA NextIInv == IInv /\ [Next]_vars => IInv'
<1> SUFFICES ASSUME IInv, [Next]_vars PROVE IInv'
  OBVIOUS
<1>1. CASE UNCHANGED vars
  <2>1. UNCHANGED <<fds, alive, pc, cur, pipefd, map, sockfd, players_fd, conns, joined>>
    BY <1>1 DEF vars, locals
  <2> QED  BY <2>1 DEF IInv, Typed, Children, OwnTable, Numbers, Sockets, NothingElse,
                       ChildTables, HandlerTable, BroadcasterTable
<1> QED  BY <1>1, PipeIInv, OpenMapIInv, ListenIInv, AcceptIInv, DropIInv, SpawnIInv, ForkIInv,
            WaitIInv, CloseIInv, KillIInv, ChildEndsIInv, ServerEndsIInv DEF Next

LEMMA AlwaysIInv == Spec => []IInv
BY InitIInv, NextIInv, PTL DEF Spec

-----------------------------------------------------------------------------

\* Each child finds sockets and pipe under the numbers that it takes for them, as long
\* as it lives: the numbers of common_fd.h are right although one of them is nobody's
\* choice, for any start that InheritedAssumption allows and whoever has connected before.
THEOREM NumbersAreRight == Spec => []FdsRight
<1>1. IInv => FdsRight
  BY DEF IInv, ChildTables, HandlerTable, BroadcasterTable, FdsRight, Under,
         PLAYER_SOCKET_FD, WRITE_PIPE_TO_BROADCAST_FD, PLAYERS_RANGE_FD
<1> QED  BY <1>1, AlwaysIInv, PTL

\* Who holds which end of the pipe is exactly as the ends of the others require, and
\* only the server has the port.  Of connections it says nothing: a handler keeps those
\* that were open when it was forked.
THEOREM HoldersAreIntended == Spec => []LastHolders
<1>1. IInv => LastHolders
  <2> SUFFICES ASSUME IInv PROVE LastHolders
    OBVIOUS
  <2>1. Typed /\ Children /\ OwnTable /\ ChildTables
    BY DEF IInv
  <2>2. ASSUME NEW q \in Process, q \notin alive, NEW f PROVE ~Has(q, f)
    BY <2>1, <2>2 DEF Children, Has
  <2>3. ASSUME Server \in alive
        PROVE  pc # "pipe" => Has(Server, PipeEnd(0)) /\ Has(Server, PipeEnd(1))
    BY <2>1, <2>3 DEF Children, OwnTable, Numbers, Has
  <2>4. ASSUME NEW p \in Player, p \in alive
        PROVE  ~Has(p, PipeEnd(0)) /\ Has(p, PipeEnd(1)) /\ ~Has(p, Listening)
    BY <2>1, <2>4 DEF ChildTables, HandlerTable, Has
  <2>5. ASSUME Bcast \in alive
        PROVE  Has(Bcast, PipeEnd(0)) /\ ~Has(Bcast, PipeEnd(1)) /\ ~Has(Bcast, Listening)
    BY <2>1, <2>5 DEF ChildTables, BroadcasterTable, Has
  <2>6. alive \subseteq Process
    BY <2>1 DEF Typed
  <2>7. pc # "pipe" => \A q \in Process : Has(q, PipeEnd(0)) <=> q \in alive \cap {Server, Bcast}
    BY <2>2, <2>3, <2>4, <2>5
  <2>8. pc # "pipe" =>
          \A q \in Process : Has(q, PipeEnd(1)) <=> q \in alive \cap ({Server} \cup Player)
    BY <2>2, <2>3, <2>4, <2>5
  <2>9. \A q \in Process : Has(q, Listening) => q = Server
    BY <2>2, <2>4, <2>5
  <2> HIDE DEF Process, Server, Bcast, Player
  <2> QED  BY <2>6, <2>7, <2>8, <2>9 DEF LastHolders
<1> QED  BY <1>1, AlwaysIInv, PTL

\* A connection is closed by all who had it before the next game begins, and so is one
\* that was turned away: after any number of games the server has the files it began with.
THEOREM NothingLeaks == Spec => []NoLeak
<1>1. IInv => NoLeak
  <2> SUFFICES ASSUME IInv PROVE NoLeak
    OBVIOUS
  <2>1. Typed /\ Children /\ OwnTable /\ ChildTables
    BY DEF IInv
  <2>2. ASSUME NEW k \in 1 .. conns, NEW q \in Process, Has(q, Socket(k))
        PROVE  \E p \in Player : joined[p] = k
    <3>1. k \in Nat
      BY <2>1 DEF Typed
    <3>2. PICK i \in DOMAIN fds[q] : fds[q][i] = Socket(k)
      BY <2>2 DEF Has
    <3>3. q \in alive
      BY <2>1, <3>2 DEF Children
    <3>4. CASE q = Server
      <4>1. PICK p \in Player : i = players_fd[p]
        BY <2>1, <3>1, <3>2, <3>3, <3>4 DEF Children, OwnTable, NothingElse
      <4>2. fds[q][i] = Socket(joined[p]) /\ joined[p] \in Nat
        BY <2>1, <3>2, <3>3, <3>4, <4>1 DEF Children, OwnTable, Sockets, Typed
      <4> QED  BY <3>1, <3>2, <4>2, Kinds
    <3>5. CASE q \in Player
      BY <2>1, <3>1, <3>2, <3>3, <3>5 DEF ChildTables, HandlerTable
    <3>6. CASE q = Bcast
      BY <2>1, <3>1, <3>2, <3>3, <3>6 DEF ChildTables, BroadcasterTable
    <3> QED  BY <3>4, <3>5, <3>6
  <2>3. ASSUME pc = "accept", cur = 1
        PROVE  /\ alive = {Server}
               /\ \A k \in 1 .. conns : ~Has(Server, Socket(k))
               /\ players_fd = [p \in Player |-> -1]
    <3>1. alive = {Server}
      BY <2>1, <2>3 DEF Children
    <3>2. \A p \in Player : players_fd[p] = -1
      BY <2>1, <2>3 DEF OwnTable, Sockets
    <3>3. players_fd = [p \in Player |-> -1]
      BY <2>1, <3>2 DEF Typed
    <3>4. ASSUME NEW k \in 1 .. conns, Has(Server, Socket(k)) PROVE FALSE
      <4>1. k \in Nat /\ DOMAIN fds[Server] \in SUBSET Nat
        BY <2>1 DEF Typed
      <4>2. PICK i \in DOMAIN fds[Server] : fds[Server][i] = Socket(k)
        BY <3>4 DEF Has
      <4>3. PICK p \in Player : i = players_fd[p]
        BY <2>1, <2>3, <4>1, <4>2 DEF OwnTable, NothingElse
      <4> QED  BY <3>2, <4>1, <4>3
    <3> QED  BY <3>1, <3>3, <3>4
  <2> QED  BY <2>2, <2>3 DEF NoLeak
<1> QED  BY <1>1, AlwaysIInv, PTL

=============================================================================

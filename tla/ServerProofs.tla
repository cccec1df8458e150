---------------------------- MODULE ServerProofs ----------------------------
(***************************************************************************)
(* Theorems about Server for every map, every bound and any interleaving.  *)
(*                                                                         *)
(* Control: mutual exclusion by the semaphore, although handlers may be    *)
(* killed anywhere, and what a game leaves to the next one.                *)
(*                                                                         *)
(* The shared state: its type, the invariants of game.c in spite of the    *)
(* steps in between, and that the handlers together implement the race.    *)
(*                                                                         *)
(* The messages: their order, that both players are told the same, and     *)
(* that what they are told is what has happened.                           *)
(***************************************************************************)
EXTENDS Server, RulesProofs, SequenceTheorems

After == {"lock", "clear", "unlock", "again"}

\* The types that the steps below rely on.
Placed == /\ srv \in ServerPC /\ cur \in Player /\ game \in Nat
          /\ ipc \in BOOLEAN /\ sem \in {0, 1}
          /\ conn \in [Player -> {"none", "open", "closed"}]
          /\ keys \in [Player -> Nat]
          /\ hpc \in [Player -> HandlerPC]
          /\ bpc \in BcastPC
          /\ srv \notin Gone => ipc

\* OneInside in terms of who is where.
Exclusive ==
  ipc => /\ \A p, q \in Player : hpc[p] \in Critical /\ hpc[q] \in Critical => p = q
         /\ sem = 1 \/ srv \in {"clear", "unlock"} => \A p \in Player : hpc[p] \notin Critical
         /\ srv \in {"clear", "unlock"} => sem = 0

\* How far the teardown has got in each phase: NoneLeft, made inductive.
Swept ==
  /\ srv \in Waiting \cup {"register", "fork"} \cup After => bpc = "none"
  /\ srv \notin {"reap", "reapb"} \cup Gone => term = {}
  /\ srv = "reap" => term = {cur} /\ hpc[cur] # "none"
  /\ srv = "reapb" => term = {Bcast}
  /\ srv \in {"fork", "wait", "killb", "reapb"} \cup After => cur = 1
  /\ srv \in Waiting => \A p \in Player : p >= cur => hpc[p] = "none"
  /\ srv \in {"close", "reap"} => \A p \in Player : p < cur => hpc[p] = "none"
  /\ srv \in {"killb", "reapb"} \cup After => \A p \in Player : hpc[p] = "none"
  /\ srv = "accept" => conn[cur] = "none" 
  /\ srv \in Waiting => \A p \in Player : p > cur => conn[p] = "none"
  /\ srv \in After => \A p \in Player : conn[p] = "none"

\* What the server has written while players are still awaited.
Early == [game : Nat, m : {Spawned, GameOver(1)}]

\* Streams and keys up to the registration: LoadsAlone, made inductive.
Quiet ==
  /\ srv \in Waiting => \A p \in Player : stream[p] \in Seq(Early) /\ (p > cur => stream[p] = << >>)
  /\ srv \in After => \A p \in Player : stream[p] = << >> /\ keys[p] = 0
  /\ Eager = {} /\ srv \in Waiting =>
       \A p \in Player : keys[p] = 0 /\ hpc[p] \in {"none", "read", "zombie"}
  /\ DOMAIN stream = Player

IInv == Placed /\ Exclusive /\ Swept /\ Quiet

-----------------------------------------------------------------------------
(* Control.                                                                *)

USE DEF Player, Waiting, Teardown, Gone, ServerPC, Critical, HandlerPC, BcastPC, After,
        server, clients, handlers, bcast

LEMMA InitIInv == Init => IInv
BY DEF Init, IInv, Placed, Exclusive, Swept, Quiet

\* Only what is early is written early.
LEMMA TagEarly == ASSUME Placed, NEW m \in {Spawned, GameOver(1)} PROVE Tag(m) \in Early
BY DEF Placed, Tag, Early

\* A player that has been told no more than that has not been told its id.
LEMMA EarlyUntold == ASSUME NEW p \in Player, stream[p] \in Seq(Early) PROVE ~Told(p, Registered(p))
<1>1. \A e \in Early : e.m # Registered(p)
  BY DEF Early, Spawned, GameOver, Registered
<1>2. \A i \in DOMAIN stream[p] : stream[p][i] \in Early
  OBVIOUS
<1> QED  BY <1>1, <1>2 DEF Told

\* One step per action of the server, the broadcaster, a handler and a client.
LEMMA NextIInv == IInv /\ [Next]_vars => IInv'
<1> SUFFICES ASSUME IInv, [Next]_vars PROVE IInv'
  OBVIOUS
<1> USE DEF IInv, Placed, Exclusive, Swept, Quiet
<1>1. ASSUME Accept PROVE IInv'
  BY <1>1 DEF Accept
<1>2. ASSUME LoadReset PROVE IInv'
  BY <1>2 DEF LoadReset
<1>3. ASSUME LoadTiles PROVE IInv'
  <2>1. Tag(Spawned) \in Early
    BY TagEarly
  <2>2. Quiet'
    BY <1>3, <2>1 DEF LoadTiles, Tell
  <2> QED  BY <1>3, <2>2 DEF LoadTiles
<1>4. ASSUME LoadEnd PROVE IInv'
  <2>1. Tag(GameOver(1)) \in Early
    BY TagEarly
  <2>2. stream' = stream \/ Tell(cur, GameOver(1))
    BY <1>4 DEF LoadEnd
  <2>3. DOMAIN stream' = Player
    BY <2>2 DEF Tell
  <2>4. ASSUME NEW p \in Player
        PROVE  stream'[p] \in Seq(Early) /\ (p > cur => stream'[p] = << >>)
    <3>1. CASE stream' = stream
      BY <1>4, <3>1 DEF LoadEnd
    <3>2. CASE Tell(cur, GameOver(1))
      <4>1. stream[p] \in Seq(Early) /\ (p > cur => stream[p] = << >>)
        BY <1>4 DEF LoadEnd
      <4>2. Append(stream[p], Tag(GameOver(1))) \in Seq(Early)
        BY <2>1, <4>1
      <4>3. stream'[p] = IF p = cur THEN Append(stream[p], Tag(GameOver(1))) ELSE stream[p]
        BY <3>2 DEF Tell
      <4> QED  BY <4>1, <4>2, <4>3
    <3> QED  BY <2>2, <3>1, <3>2
  <2>5. Quiet'
    BY <1>4, <2>3, <2>4 DEF LoadEnd
  <2> QED  BY <1>4, <2>5 DEF LoadEnd
<1>5. ASSUME SpawnHandler PROVE IInv'
  BY <1>5 DEF SpawnHandler, Loop
<1>6. ASSUME Alarm PROVE IInv'
  BY <1>6 DEF Alarm
<1>7. ASSUME SigPipe PROVE IInv'
  BY <1>7 DEF SigPipe
<1>8. ASSUME Sigint PROVE IInv'
  BY <1>8 DEF Sigint
<1>9. ASSUME SigintInSemop PROVE IInv'
  BY <1>9 DEF SigintInSemop
<1>10. ASSUME Register PROVE IInv'
  BY <1>10 DEF Register, Loop, Tell
<1>11. ASSUME ForkBroadcaster PROVE IInv'
  BY <1>11 DEF ForkBroadcaster
<1>12. ASSUME WaitBroadcaster PROVE IInv'
  BY <1>12 DEF WaitBroadcaster
<1>13. ASSUME CloseAndKill PROVE IInv'
  BY <1>13 DEF CloseAndKill, Loop
<1>14. ASSUME ReapHandler PROVE IInv'
  BY <1>14 DEF ReapHandler, Loop
<1>15. ASSUME KillBroadcaster PROVE IInv'
  BY <1>15 DEF KillBroadcaster
<1>16. ASSUME NoBroadcaster PROVE IInv'
  BY <1>16 DEF NoBroadcaster, HangUp
<1>17. ASSUME ReapBroadcaster PROVE IInv'
  BY <1>17 DEF ReapBroadcaster, HangUp
<1>18. ASSUME Lock PROVE IInv'
  BY <1>18 DEF Lock
<1>19. ASSUME Clear PROVE IInv'
  BY <1>19 DEF Clear
<1>20. ASSUME Unlock PROVE IInv'
  BY <1>20 DEF Unlock
<1>21. ASSUME Again PROVE IInv'
  <2>1. CASE sigint
    BY <1>21, <2>1 DEF Again
  <2>2. CASE ~sigint
    <3>1. srv' = "accept" /\ game' = game + 1
      BY <1>21, <2>2 DEF Again
    <3>2. \A p \in Player : stream'[p] = << >>
      BY <1>21 DEF Again
    <3>3. << >> \in Seq(Early)
      OBVIOUS
    <3>4. \A p \in Player : stream'[p] \in Seq(Early)
      BY <3>2, <3>3
    <3>5. Quiet'
      BY <1>21, <3>1, <3>2, <3>4 DEF Again
    <3> QED  BY <1>21, <2>2, <3>5 DEF Again
  <2> QED  BY <2>1, <2>2
<1>22. ASSUME BcastRead PROVE IInv'
  BY <1>22 DEF BcastRead
<1>23. ASSUME BcastFirst PROVE IInv'
  BY <1>23 DEF BcastFirst, Deliver
<1>24. ASSUME BcastSecond PROVE IInv'
  BY <1>24 DEF BcastSecond, Deliver
<1>25. ASSUME BcastDies PROVE IInv'
  BY <1>25 DEF BcastDies
<1>26. ASSUME NEW p \in Player, WaitHandler(p) PROVE IInv'
  BY <1>26 DEF WaitHandler
<1>27. ASSUME NEW p \in Player, Press(p) PROVE IInv'
  <2>1. srv \in Waiting => p \in Eager
    BY <1>27, EarlyUntold DEF Press
  <2> QED  BY <1>27, <2>1 DEF Press
<1>28. ASSUME NEW p \in Player, Quit(p) PROVE IInv'
  BY <1>28 DEF Quit
<1>29. ASSUME NEW p \in Player, ReadKey(p) PROVE IInv'
  BY <1>29 DEF ReadKey, Goto
<1>30. ASSUME NEW p \in Player, ReadEof(p) PROVE IInv'
  BY <1>30 DEF ReadEof, Goto
<1>31. ASSUME NEW p \in Player, Down(p) PROVE IInv'
  BY <1>31 DEF Down, Goto
<1>32. ASSUME NEW p \in Player, Test(p) PROVE IInv'
  BY <1>32 DEF Test, Goto
<1>33. ASSUME NEW p \in Player, Act(p) PROVE IInv'
  BY <1>33 DEF Act, Goto
<1>34. ASSUME NEW p \in Player, Send(p) PROVE IInv'
  BY <1>34 DEF Send
<1>35. ASSUME NEW p \in Player, Return(p) PROVE IInv'
  BY <1>35 DEF Return, Goto
<1>36. ASSUME NEW p \in Player, Up(p) PROVE IInv'
  BY <1>36 DEF Up, Goto
<1>37. ASSUME NEW p \in Player, SemopFails(p) PROVE IInv'
  BY <1>37 DEF SemopFails, Goto
<1>38. ASSUME NEW p \in Player, SendFails(p) PROVE IInv'
  BY <1>38 DEF SendFails, Goto
<1>39. ASSUME NEW p \in Player, Terminate(p) PROVE IInv'
  BY <1>39 DEF Terminate, Goto, Bcast
<1>40. CASE UNCHANGED vars
  BY <1>40 DEF vars
<1> QED  BY <1>1, <1>2, <1>3, <1>4, <1>5, <1>6, <1>7, <1>8,
             <1>9, <1>10, <1>11, <1>12, <1>13, <1>14, <1>15, <1>16, <1>17, <1>18, <1>19,
             <1>20, <1>21, <1>22, <1>23, <1>24, <1>25, <1>26, <1>27, <1>28, <1>29,
             <1>30, <1>31, <1>32, <1>33, <1>34, <1>35, <1>36, <1>37, <1>38, <1>39, <1>40
     DEF Next, ServerStep, Handler, Broadcaster

\* The invariant the theorems below share.
LEMMA AlwaysIInv == Spec => []IInv
BY InitIInv, NextIInv, PTL DEF Spec

-----------------------------------------------------------------------------

\* A set with at most one member, as the cardinality sees it.
LEMMA AtMostOne ==
  ASSUME NEW S, \A x, y \in S : x = y
  PROVE  Cardinality(S) \in {0, 1} /\ (S = {} => Cardinality(S) = 0)
<1>1. CASE S = {}
  BY <1>1, FS_EmptySet
<1>2. CASE S # {}
  <2>1. PICK x : x \in S
    BY <1>2
  <2>2. S = {x}
    BY <2>1
  <2> QED  BY <1>2, <2>2, FS_Singleton
<1> QED  BY <1>1, <1>2

\* The semaphore of pas_server.c keeps the handlers and the clearing of the state apart,
\* for any map and any clients, although a SIGTERM may strike a handler inside.
THEOREM MutualExclusion == Spec => []OneInside
<1>1. IInv => OneInside
  <2> SUFFICES ASSUME IInv, ipc PROVE Cardinality(Inside) + sem <= 1
    BY DEF OneInside
  <2>1. \A x, y \in Inside : x = y
    BY DEF Inside, IInv, Placed, Exclusive
  <2>2. sem = 1 => Inside = {}
    BY DEF Inside, IInv, Placed, Exclusive
  <2> QED  BY <2>1, <2>2, AtMostOne DEF IInv, Placed
<1> QED  BY <1>1, AlwaysIInv, PTL

\* The teardown of main leaves no child, connection or signal to the next game: each
\* child is dead and waited for before handle_new_players runs again.
THEOREM NothingLeft == Spec => []NoneLeft
<1>1. IInv => NoneLeft
  BY DEF IInv, Placed, Swept, Quiet, NoneLeft
<1> QED  BY <1>1, AlwaysIInv, PTL

\* load_map takes no semaphore and needs none as long as the clients wait for their
\* registration before they send keys.
THEOREM LoadsAreAlone == ASSUME Eager = {} PROVE Spec => []LoadsAlone
<1>1. IInv => LoadsAlone
  BY DEF IInv, Quiet, LoadsAlone
<1> QED  BY <1>1, AlwaysIInv, PTL

HIDE DEF ServerPC, Critical, HandlerPC, BcastPC, After

-----------------------------------------------------------------------------
(* Types.                                                                  *)

\* What the handlers write.
Message == {GameOver(w) : w \in Player}
             \cup {Moved(p, to) : p \in Player, to \in Position}
             \cup {Eaten(p, to, item) : p \in Player, to \in Position, item \in Item}

Tagged == [game : Nat, m : Message]

\* TypeOK, made inductive: what is counted from what, and what goes through the pipe.
Typed ==
  /\ game \in 1 .. MaxGames + 1 /\ (srv \notin {"accept"} \cup Gone => game <= MaxGames)
  /\ sigint \in BOOLEAN
  /\ state \in GameState
  /\ pipe \in Seq(Tagged) /\ Len(pipe) <= PipeCap
  /\ pressed \in [Player -> 0 .. MaxKeys]
  /\ \A p \in Player : keys[p] <= pressed[p]
  /\ next \in [Player -> Position]
  /\ todo \in [Player -> Seq(Message)]
  /\ bpc \in {"write", "writing"} => msg \in Tagged
  /\ term \subseteq Player \cup {Bcast}

LEMMA WinnerTold == ASSUME NEW st PROVE GameOver(Winner(st)) \in Message
BY DEF Winner, Message

LEMMA EnterTold ==
  ASSUME NEW p \in Player, NEW to \in Position, NEW item \in Item
  PROVE  EnterMessages(p, to, item) \in Seq(Message)
<1>1. Moved(p, to) \in Message /\ Eaten(p, to, item) \in Message
  BY DEF Message
<1>2. << >> \in Seq(Message)
  OBVIOUS
<1> QED  BY <1>1, <1>2 DEF EnterMessages, Edible

LEMMA TypedInit == Init => Typed
<1> SUFFICES ASSUME Init PROVE Typed
  OBVIOUS
<1>1. [ResetState EXCEPT !.game_over = FALSE] \in GameState
  BY ResetTyped DEF GameState
<1>2. Origin \in Position
  BY SizeAssumption DEF Origin, Position
<1>3. /\ << >> \in Seq(Message)
      /\ << >> \in Seq(Tagged) /\ Len(<< >>) = 0
  OBVIOUS
<1>4. /\ next \in [Player -> Position] /\ todo \in [Player -> Seq(Message)]
      /\ pipe \in Seq(Tagged) /\ Len(pipe) = 0
  BY <1>2, <1>3 DEF Init
<1>5. pressed \in [Player -> 0 .. MaxKeys] /\ \A p \in Player : keys[p] <= pressed[p]
  BY ServerAssumption DEF Init
<1>6. game \in 1 .. MaxGames + 1
  BY ServerAssumption DEF Init
<1>7. srv \in {"accept"} /\ bpc = "none" /\ term = {} /\ sigint \in BOOLEAN
  BY DEF Init
<1>8. state \in GameState
  BY <1>1 DEF Init
<1> QED  BY <1>4, <1>5, <1>6, <1>7, <1>8, ServerAssumption DEF Typed

LEMMA TypedNext == IInv /\ Typed /\ [Next]_vars => Typed'
<1> SUFFICES ASSUME IInv, Typed, [Next]_vars PROVE Typed'
  OBVIOUS
<1>1. Placed
  BY DEF IInv
<1> USE <1>1, ServerAssumption DEF Typed, Placed
<1>2. ASSUME Accept PROVE Typed'
  BY <1>2 DEF Accept
<1>3. ASSUME LoadReset PROVE Typed'
  BY <1>3, ResetTyped DEF LoadReset
<1>4. ASSUME LoadTiles PROVE Typed'
  <2>1. Load(Level) \in GameState
    BY LoadTyped
  <2> DEFINE map       == Load(Level).map
             positions == Load(Level).positions
             food      == state.food_count + Load(Level).food_count
  <2>2. map \in [Cells -> Item] /\ positions \in [Player -> Position] /\ food \in Int
    BY <2>1 DEF GameState
  <2>3. state' = [state EXCEPT !.map = map, !.positions = positions, !.food_count = food]
    BY <1>4 DEF LoadTiles
  <2> HIDE DEF map, positions, food
  <2>4. state' \in GameState
    BY <2>2, <2>3 DEF GameState
  <2> QED  BY <1>4, <2>4 DEF LoadTiles
<1>5. ASSUME LoadEnd PROVE Typed'
  <2>1. state' \in GameState
    BY <1>5 DEF LoadEnd, GameState
  <2> QED  BY <1>5, <2>1 DEF LoadEnd
<1>6. ASSUME SpawnHandler PROVE Typed'
  BY <1>6 DEF SpawnHandler, Loop
<1>7. ASSUME Alarm PROVE Typed'
  BY <1>7 DEF Alarm
<1>8. ASSUME SigPipe PROVE Typed'
  BY <1>8 DEF SigPipe
<1>9. ASSUME Sigint PROVE Typed'
  BY <1>9 DEF Sigint
<1>10. ASSUME SigintInSemop PROVE Typed'
  BY <1>10 DEF SigintInSemop
<1>11. ASSUME Register PROVE Typed'
  BY <1>11 DEF Register, Loop, Tell
<1>12. ASSUME ForkBroadcaster PROVE Typed'
  BY <1>12 DEF ForkBroadcaster
<1>13. ASSUME WaitBroadcaster PROVE Typed'
  BY <1>13 DEF WaitBroadcaster
<1>14. ASSUME CloseAndKill PROVE Typed'
  BY <1>14 DEF CloseAndKill, Loop
<1>15. ASSUME ReapHandler PROVE Typed'
  BY <1>15 DEF ReapHandler, Loop
<1>16. ASSUME KillBroadcaster PROVE Typed'
  BY <1>16 DEF KillBroadcaster
<1>17. ASSUME NoBroadcaster PROVE Typed'
  BY <1>17 DEF NoBroadcaster, HangUp
<1>18. ASSUME ReapBroadcaster PROVE Typed'
  <2>1. /\ pressed' \in [Player -> 0 .. MaxKeys]
        /\ \A p \in Player : keys'[p] <= pressed'[p]
    BY <1>18 DEF ReapBroadcaster, HangUp
  <2> QED  BY <1>18, <2>1 DEF ReapBroadcaster
<1>19. ASSUME Lock PROVE Typed'
  BY <1>19 DEF Lock
<1>20. ASSUME Clear PROVE Typed'
  BY <1>20, ResetTyped DEF Clear
<1>21. ASSUME Unlock PROVE Typed'
  BY <1>21 DEF Unlock
<1>22. ASSUME Again PROVE Typed'
  <2>1. CASE sigint
    BY <1>22, <2>1 DEF Again
  <2>2. CASE ~sigint
    BY <1>22, <2>2 DEF Again
  <2> QED  BY <2>1, <2>2
<1>23. ASSUME BcastRead PROVE Typed'
  BY <1>23 DEF BcastRead
<1>24. ASSUME BcastFirst PROVE Typed'
  BY <1>24 DEF BcastFirst, Deliver
<1>25. ASSUME BcastSecond PROVE Typed'
  BY <1>25 DEF BcastSecond, Deliver
<1>26. ASSUME BcastDies PROVE Typed'
  BY <1>26 DEF BcastDies
<1>27. ASSUME NEW p \in Player, WaitHandler(p) PROVE Typed'
  BY <1>27 DEF WaitHandler
<1>28. ASSUME NEW p \in Player, Press(p) PROVE Typed'
  BY <1>28 DEF Press
<1>29. ASSUME NEW p \in Player, Quit(p) PROVE Typed'
  BY <1>29 DEF Quit
<1>30. ASSUME NEW p \in Player, ReadKey(p) PROVE Typed'
  BY <1>30 DEF ReadKey, Goto
<1>31. ASSUME NEW p \in Player, ReadEof(p) PROVE Typed'
  BY <1>31 DEF ReadEof, Goto
<1>32. ASSUME NEW p \in Player, Down(p) PROVE Typed'
  BY <1>32 DEF Down, Goto
<1>33. ASSUME NEW p \in Player, Test(p) PROVE Typed'
  <2>1. \A d : NextPosition(state.positions[p], d) \in Position
    BY NextOnMap DEF GameState
  <2>2. Collide(state) \in GameState
    BY CollideFields
  <2>3. <<GameOver(Winner(state))>> \in Seq(Message)
    BY WinnerTold
  <2>4. state' \in GameState
    BY <1>33, <2>2 DEF Test
  <2>5. next' \in [Player -> Position]
    BY <1>33, <2>1 DEF Test
  <2>6. todo' \in [Player -> Seq(Message)]
    BY <1>33, <2>3 DEF Test
  <2> QED  BY <1>33, <2>4, <2>5, <2>6 DEF Test
<1>34. ASSUME NEW p \in Player, Act(p) PROVE Typed'
  <2> DEFINE item == state.map[Position2Index(next[p])]
  <2>1. next[p] \in Position /\ item \in Item /\ Origin \in Position
    <3>1. next[p] \in Position
      OBVIOUS
    <3>2. item \in Item
      BY <3>1, IndexInCells DEF GameState
    <3>3. Origin \in Position
      BY SizeAssumption DEF Origin, Position
    <3> QED  BY <3>1, <3>2, <3>3
  <2>2. Enter(state, p, next[p], item) \in GameState
    BY <2>1, EnterTyped
  <2>3. EnterMessages(p, next[p], item) \in Seq(Message)
    BY <2>1, EnterTold
  <2>4. /\ state' = Enter(state, p, next[p], item)
        /\ todo' = [todo EXCEPT ![p] = EnterMessages(p, next[p], item)]
        /\ next' = [next EXCEPT ![p] = Origin]
        /\ UNCHANGED <<server, sem, pipe, pressed, keys, bcast, term>>
    BY <1>34 DEF Act
  <2> HIDE DEF item
  <2> QED  BY <2>1, <2>2, <2>3, <2>4
<1>35. ASSUME NEW p \in Player, Send(p) PROVE Typed'
  <2>1. todo[p] \in Seq(Message) /\ todo[p] # << >>
    BY <1>35 DEF Send
  <2>2. Tag(Head(todo[p])) \in Tagged /\ Tail(todo[p]) \in Seq(Message)
    BY <2>1 DEF Tag, Tagged
  <2>3. pipe' \in Seq(Tagged) /\ Len(pipe') <= PipeCap
    BY <1>35, <2>2 DEF Send
  <2>4. todo' \in [Player -> Seq(Message)]
    BY <1>35, <2>2 DEF Send
  <2> QED  BY <1>35, <2>3, <2>4 DEF Send
<1>36. ASSUME NEW p \in Player, Return(p) PROVE Typed'
  <2>1. <<GameOver(Winner(state))>> \in Seq(Message)
    BY WinnerTold
  <2>2. todo' = todo \/ todo' = [todo EXCEPT ![p] = <<GameOver(Winner(state))>>]
    BY <1>36 DEF Return
  <2>3. todo' \in [Player -> Seq(Message)]
    BY <2>1, <2>2
  <2> QED  BY <1>36, <2>3 DEF Return
<1>37. ASSUME NEW p \in Player, Up(p) PROVE Typed'
  BY <1>37 DEF Up, Goto
<1>38. ASSUME NEW p \in Player, SemopFails(p) PROVE Typed'
  BY <1>38 DEF SemopFails, Goto
<1>39. ASSUME NEW p \in Player, SendFails(p) PROVE Typed'
  BY <1>39 DEF SendFails, Goto
<1>40. ASSUME NEW p \in Player, Terminate(p) PROVE Typed'
  <2>1. Origin \in Position /\ << >> \in Seq(Message)
    BY SizeAssumption DEF Origin, Position
  <2>2. next' \in [Player -> Position] /\ todo' \in [Player -> Seq(Message)]
    BY <1>40, <2>1 DEF Terminate
  <2> QED  BY <1>40, <2>2 DEF Terminate
<1>41. CASE UNCHANGED vars
  BY <1>41 DEF vars
<1> QED  BY <1>2, <1>3, <1>4, <1>5, <1>6, <1>7, <1>8, <1>9, <1>10, <1>11, <1>12, <1>13,
             <1>14, <1>15, <1>16, <1>17, <1>18, <1>19, <1>20, <1>21, <1>22, <1>23,
             <1>24, <1>25, <1>26, <1>27, <1>28, <1>29, <1>30, <1>31, <1>32, <1>33,
             <1>34, <1>35, <1>36, <1>37, <1>38, <1>39, <1>40, <1>41
     DEF Next, ServerStep, Handler, Broadcaster

\* Server's type invariant, whatever the clients do, and wherever the handlers are when
\* the server restarts or exits.
THEOREM ServerTypeCorrect == Spec => []TypeOK
<1>1. IInv /\ Typed => TypeOK
  <2> SUFFICES ASSUME Placed, Typed PROVE TypeOK
    BY DEF IInv
  <2>1. keys \in [Player -> 0 .. MaxKeys]
    <3>1. \A p \in Player : keys[p] \in 0 .. MaxKeys
      BY ServerAssumption DEF Placed, Typed
    <3> QED  BY <3>1 DEF Placed
  <2> QED  BY <2>1 DEF Placed, Typed, TypeOK
<1>2. Spec => []Typed
  BY AlwaysIInv, TypedInit, TypedNext, PTL DEF Spec
<1> QED  BY <1>1, <1>2, AlwaysIInv, PTL

-----------------------------------------------------------------------------
(* The state between the steps of the handlers.                            *)

\* StateSound, made inductive: what a load_map starts from, and what a handler has
\* tested and relies on when it acts.
Sound == /\ srv = "tiles" => state = ResetState
         /\ srv = "end" => state.scores = [p \in Player |-> 0]
         /\ Counted(state)
         /\ srv \in {"end", "spawn", "register", "fork", "wait"} => Standing(state)
         /\ \A p \in Player : ipc /\ hpc[p] = "act" =>
              ~state.game_over /\ ~Collides(state, p, next[p])

\* The steps that leave the state alone, and what the handlers rely on.
Stateless ==
  /\ UNCHANGED <<state, next>>
  /\ \/ srv' = srv
     \/ srv' \notin {"tiles", "end", "spawn", "register", "fork", "wait"}
     \/ srv' \notin {"tiles", "end"} /\ srv \in {"end", "spawn", "register", "fork", "wait"}
  /\ \A p \in Player : hpc'[p] = "act" => hpc[p] = "act"
  /\ ipc' => ipc

LEMMA SoundStateless == Sound /\ Stateless => Sound'
BY DEF Sound, Stateless

LEMMA SoundInit == Init => Sound
<1> SUFFICES ASSUME Init PROVE Sound
  OBVIOUS
<1>1. state.food_count = 0 /\ state.map = [c \in Cells |-> "NONE"]
  BY DEF Init, ResetState
<1>2. EdibleCells(state.map) = {}
  BY <1>1 DEF EdibleCells, Edible
<1>3. Counted(state)
  BY <1>1, <1>2, FS_EmptySet DEF Counted
<1> QED  BY <1>3 DEF Init, Sound

LEMMA ResetCounted == Counted(ResetState)
<1>1. EdibleCells(ResetState.map) = {}
  BY DEF ResetState, EdibleCells, Edible
<1> QED  BY <1>1, FS_EmptySet DEF Counted, ResetState

\* load_map starts from what reset_gamestate left, because the handlers are quiet.
LEMMA SoundLoad ==
  ASSUME Eager = {}, IInv, Typed, Sound, LoadReset \/ LoadTiles \/ LoadEnd
  PROVE  Sound'
<1>1. hpc' = hpc /\ \A p \in Player : hpc[p] \in {"none", "read", "zombie"}
  BY DEF IInv, Quiet, LoadReset, LoadTiles, LoadEnd
<1>2. CASE LoadReset
  BY <1>1, <1>2, ResetCounted DEF LoadReset, Sound
<1>3. CASE LoadTiles
  <2>1. /\ srv' = "end" /\ state = ResetState
        /\ state' = [state EXCEPT !.map        = Load(Level).map,
                                  !.positions  = Load(Level).positions,
                                  !.food_count = @ + Load(Level).food_count]
    BY <1>3 DEF LoadTiles, Sound
  <2>2. Load(Level) \in GameState
    BY LoadTyped, ServerAssumption
  <2>3. /\ state'.map = Load(Level).map /\ state'.positions = Load(Level).positions
        /\ state'.food_count = Load(Level).food_count
        /\ state'.scores = [p \in Player |-> 0]
    BY <2>1, <2>2 DEF ResetState, GameState
  <2>4. Counted(state')
    BY <2>3, LoadCounted DEF Counted
  <2>5. Standing(state')
    BY <2>3, LoadStanding, ServerAssumption DEF Standing
  <2> QED  BY <1>1, <2>1, <2>3, <2>4, <2>5 DEF Sound
<1>4. CASE LoadEnd
  <2>1. /\ state'.map = state.map /\ state'.positions = state.positions
        /\ state'.food_count = state.food_count
    BY <1>4 DEF LoadEnd, Typed, GameState
  <2>2. srv = "end" /\ srv' = "spawn"
    BY <1>4 DEF LoadEnd
  <2> QED  BY <1>1, <2>1, <2>2 DEF Sound, Counted, Standing
<1> QED  BY <1>2, <1>3, <1>4

\* What a handler has tested stays true until it acts: nobody else is inside.
LEMMA SoundTest == ASSUME Eager = {}, IInv, Typed, Sound, NEW p \in Player, Test(p) PROVE Sound'
<1>1. state \in GameState /\ srv' = srv /\ ipc' = ipc /\ hpc[p] = "test"
  BY DEF Typed, Test
<1>2. ASSUME NEW q \in Player, q # p, ipc PROVE hpc[q] # "act" /\ hpc'[q] # "act"
  <2>1. hpc[q] # "act"
    BY <1>1, <1>2 DEF IInv, Exclusive, Critical
  <2>2. hpc'[q] = hpc[q]
    BY <1>2 DEF Test, Goto, IInv, Placed
  <2> QED  BY <2>1, <2>2
<1>3. CASE state' = Collide(state) /\ hpc'[p] = "last"
  <2>1. Counted(state') /\ (Standing(state) => Standing(state'))
    BY <1>1, <1>3, CollideFields DEF Sound, Counted, Standing
  <2>2. srv \notin {"tiles", "end"}
    BY <1>1 DEF IInv, Exclusive, Swept, Quiet
  <2> QED  BY <1>1, <1>2, <1>3, <2>1, <2>2 DEF Sound
<1>4. CASE state' = state /\ hpc'[p] = "last"
  BY <1>1, <1>2, <1>4 DEF Sound
<1>5. CASE state' = state /\ ~state.game_over /\ ~Collides(state, p, next'[p])
  BY <1>1, <1>2, <1>5 DEF Sound
<1> QED  BY <1>3, <1>4, <1>5 DEF Test, Goto, Typed, IInv, Placed

\* Entering a cell keeps the count, and the players apart.
LEMMA SoundAct == ASSUME Eager = {}, IInv, Typed, Sound, NEW p \in Player, Act(p) PROVE Sound'
<1>1. /\ state \in GameState /\ next[p] \in Position
      /\ srv' = srv /\ ipc' = ipc /\ hpc[p] = "act" /\ hpc' = [hpc EXCEPT ![p] = "send"]
      /\ state' = Enter(state, p, next[p], state.map[Position2Index(next[p])])
  BY DEF Typed, Act, Goto
<1>2. srv \notin Waiting
  BY <1>1 DEF IInv, Quiet
<1>3. Counted(state')
  BY <1>1, EnterCounted DEF Sound
<1>4. ASSUME srv \in {"register", "fork", "wait"} PROVE Standing(state')
  <2>1. ipc
    BY <1>4 DEF IInv, Placed
  <2>2. Standing(state) /\ ~Collides(state, p, next[p])
    BY <1>1, <1>4, <2>1 DEF Sound
  <2> QED  BY <1>1, <2>2, EnterStanding
<1>5. ASSUME NEW q \in Player, ipc PROVE hpc'[q] # "act"
  BY <1>1, <1>5 DEF IInv, Placed, Exclusive, Critical
<1> QED  BY <1>1, <1>2, <1>3, <1>4, <1>5 DEF Sound

LEMMA SoundNext == ASSUME Eager = {} PROVE IInv /\ Typed /\ Sound /\ [Next]_vars => Sound'
<1> SUFFICES ASSUME IInv, Typed, Sound, [Next]_vars PROVE Sound'
  OBVIOUS
<1>1. Placed
  BY DEF IInv
<1>2. CASE LoadReset \/ LoadTiles \/ LoadEnd
  BY <1>2, SoundLoad
<1>3. CASE Clear
  <2>1. \A p \in Player : hpc[p] = "none"
    BY <1>3 DEF Clear, IInv, Swept, After
  <2> QED  BY <1>3, <2>1, ResetCounted DEF Clear, Sound
<1>4. ASSUME NEW p \in Player, Test(p) PROVE Sound'
  BY <1>4, SoundTest
<1>5. ASSUME NEW p \in Player, Act(p) PROVE Sound'
  BY <1>5, SoundAct
<1>6. ASSUME NEW p \in Player, Terminate(p) PROVE Sound'
  BY <1>1, <1>6 DEF Terminate, Goto, Placed, Sound
<1>7. ASSUME Accept PROVE Stateless
  BY <1>1, <1>7 DEF Stateless, Placed, Accept
<1>8. ASSUME SpawnHandler PROVE Stateless
  BY <1>1, <1>8 DEF Stateless, Placed, SpawnHandler, Loop
<1>9. ASSUME Alarm PROVE Stateless
  BY <1>1, <1>9 DEF Stateless, Placed, Alarm
<1>10. ASSUME SigPipe PROVE Stateless
  BY <1>1, <1>10 DEF Stateless, Placed, SigPipe
<1>11. ASSUME Sigint PROVE Stateless
  BY <1>1, <1>11 DEF Stateless, Placed, Sigint
<1>12. ASSUME SigintInSemop PROVE Stateless
  BY <1>1, <1>12 DEF Stateless, Placed, SigintInSemop
<1>13. ASSUME Register PROVE Stateless
  BY <1>1, <1>13 DEF Stateless, Placed, Register, Loop
<1>14. ASSUME ForkBroadcaster PROVE Stateless
  BY <1>1, <1>14 DEF Stateless, Placed, ForkBroadcaster
<1>15. ASSUME WaitBroadcaster PROVE Stateless
  BY <1>1, <1>15 DEF Stateless, Placed, WaitBroadcaster
<1>16. ASSUME CloseAndKill PROVE Stateless
  BY <1>1, <1>16 DEF Stateless, Placed, CloseAndKill, Loop
<1>17. ASSUME ReapHandler PROVE Stateless
  BY <1>1, <1>17 DEF Stateless, Placed, ReapHandler, Loop
<1>18. ASSUME KillBroadcaster PROVE Stateless
  BY <1>1, <1>18 DEF Stateless, Placed, KillBroadcaster
<1>19. ASSUME NoBroadcaster PROVE Stateless
  BY <1>1, <1>19 DEF Stateless, Placed, NoBroadcaster
<1>20. ASSUME ReapBroadcaster PROVE Stateless
  BY <1>1, <1>20 DEF Stateless, Placed, ReapBroadcaster
<1>21. ASSUME Lock PROVE Stateless
  BY <1>1, <1>21 DEF Stateless, Placed, Lock
<1>22. ASSUME Unlock PROVE Stateless
  BY <1>1, <1>22 DEF Stateless, Placed, Unlock
<1>23. ASSUME Again PROVE Stateless
  BY <1>1, <1>23 DEF Stateless, Placed, Again
<1>24. ASSUME BcastRead PROVE Stateless
  BY <1>1, <1>24 DEF Stateless, Placed, BcastRead
<1>25. ASSUME BcastFirst PROVE Stateless
  BY <1>1, <1>25 DEF Stateless, Placed, BcastFirst
<1>26. ASSUME BcastSecond PROVE Stateless
  BY <1>1, <1>26 DEF Stateless, Placed, BcastSecond
<1>27. ASSUME BcastDies PROVE Stateless
  BY <1>1, <1>27 DEF Stateless, Placed, BcastDies
<1>28. ASSUME NEW p \in Player, WaitHandler(p) PROVE Stateless
  BY <1>1, <1>28 DEF Stateless, Placed, WaitHandler
<1>29. ASSUME NEW p \in Player, Press(p) PROVE Stateless
  BY <1>1, <1>29 DEF Stateless, Placed, Press
<1>30. ASSUME NEW p \in Player, Quit(p) PROVE Stateless
  BY <1>1, <1>30 DEF Stateless, Placed, Quit
<1>31. ASSUME NEW p \in Player, ReadKey(p) PROVE Stateless
  BY <1>1, <1>31 DEF Stateless, Placed, ReadKey, Goto
<1>32. ASSUME NEW p \in Player, ReadEof(p) PROVE Stateless
  BY <1>1, <1>32 DEF Stateless, Placed, ReadEof, Goto
<1>33. ASSUME NEW p \in Player, Down(p) PROVE Stateless
  BY <1>1, <1>33 DEF Stateless, Placed, Down, Goto
<1>34. ASSUME NEW p \in Player, Send(p) PROVE Stateless
  BY <1>1, <1>34 DEF Stateless, Placed, Send
<1>35. ASSUME NEW p \in Player, Return(p) PROVE Stateless
  BY <1>1, <1>35 DEF Stateless, Placed, Return, Goto
<1>36. ASSUME NEW p \in Player, Up(p) PROVE Stateless
  BY <1>1, <1>36 DEF Stateless, Placed, Up, Goto
<1>37. ASSUME NEW p \in Player, SemopFails(p) PROVE Stateless
  BY <1>1, <1>37 DEF Stateless, Placed, SemopFails, Goto
<1>38. ASSUME NEW p \in Player, SendFails(p) PROVE Stateless
  BY <1>1, <1>38 DEF Stateless, Placed, SendFails, Goto
<1>39. CASE UNCHANGED vars
  BY <1>39 DEF vars, Sound
<1> QED  BY SoundStateless, <1>2, <1>3, <1>4, <1>5, <1>6, <1>7, <1>8, <1>9, <1>10, <1>11, <1>12,
             <1>13, <1>14, <1>15, <1>16, <1>17, <1>18, <1>19, <1>20, <1>21, <1>22, <1>23, <1>24,
             <1>25, <1>26, <1>27, <1>28, <1>29, <1>30, <1>31, <1>32, <1>33, <1>34, <1>35, <1>36,
             <1>37, <1>38, <1>39
     DEF Next, ServerStep, Handler, Broadcaster

\* The three layers of the invariant, when the clients wait for their registration.
LEMMA AlwaysSound == ASSUME Eager = {} PROVE Spec => [](IInv /\ Typed /\ Sound)
BY InitIInv, NextIInv, TypedInit, TypedNext, SoundInit, SoundNext, PTL DEF Spec

\* During a game food_count is what is left on the map and the players stand on the
\* floor, apart, at every step of every interleaving, on any map.
THEOREM SharedStateIsSound == ASSUME Eager = {} PROVE Spec => []StateSound
<1>1. Sound => StateSound
  BY DEF Sound, Counted, Standing, StateSound
<1> QED  BY <1>1, AlwaysSound, PTL

-----------------------------------------------------------------------------
(* The refinement: what a step does to the race is seen in Visible alone.  *)

Worths(map) == [c \in EdibleCells(map) |-> Value(map[c])]

LEMMA RaceStutters == Visible' = Visible => UNCHANGED Race!race
BY DEF Race!race

LEMMA RaceClears == Visible' = ResetState => Race!Clear
<1> SUFFICES ASSUME Visible' = ResetState PROVE Race!Clear
  OBVIOUS
<1>1. /\ Visible'.map = [c \in Cells |-> "NONE"]
      /\ Visible'.scores = [p \in Player |-> 0]
      /\ Visible'.game_over = TRUE
  BY DEF ResetState
<1>2. EdibleCells(Visible'.map) = {}
  BY <1>1 DEF EdibleCells, Edible
<1> QED  BY <1>1, <1>2 DEF Race!Clear, Race!NoPoints

\* The last load_map before a game is over with starts the race.
LEMMA RaceStarts == ASSUME Typed, Sound, Placed, LoadEnd PROVE Race!Start
<1>1. /\ state \in GameState /\ Counted(state) /\ state.scores = [p \in Player |-> 0]
      /\ state' = [state EXCEPT !.game_over = (state.food_count = 0)]
      /\ srv' = "spawn" /\ ipc'
  BY DEF LoadEnd, Typed, Sound, Placed
<1>2. Visible' = state'
  BY <1>1 DEF Visible
<1>3. /\ Visible'.map = state.map /\ Visible'.scores = [p \in Player |-> 0]
      /\ Visible'.game_over = (state.food_count = 0)
  BY <1>1, <1>2 DEF GameState
<1>4. state.food_count = 0 <=> EdibleCells(state.map) = {}
  BY <1>1, EdiblesFinite, FS_EmptySet DEF Counted
<1>5. \A c \in EdibleCells(state.map) : Value(state.map[c]) > 0
  BY DEF Value
<1> QED  BY <1>3, <1>4, <1>5 DEF Race!Start, Race!NoPoints

LEMMA RaceBumps ==
  ASSUME state \in GameState, ~state.game_over, Visible = state, Visible' = Collide(state)
  PROVE  Race!Bump
<1>1. /\ Visible'.map = state.map
      /\ Visible'.scores = state.scores
      /\ Visible'.game_over = TRUE
  BY DEF Collide, GameState
<1> QED  BY <1>1 DEF Race!Bump

LEMMA RaceTakes ==
  ASSUME Counted(state), state \in GameState, Visible = state,
         NEW p \in Player, NEW c \in Cells, ~state.game_over, state.map[c] \in Edible,
         Visible'.map = [state.map EXCEPT ![c] = "FLOOR"],
         Visible'.scores = [state.scores EXCEPT ![p] = @ + Value(state.map[c])],
         Visible'.game_over = (state.game_over \/ state.food_count = 1)
  PROVE  Race!Take(p, c)
<1>1. state.map \in [Cells -> Item] /\ state.food_count \in Int
  BY DEF GameState
<1>2. /\ c \in EdibleCells(state.map)
      /\ EdibleCells(Visible'.map) = EdibleCells(state.map) \ {c}
  BY <1>1, EatenCell
<1>3. Worths(Visible'.map) = [d \in EdibleCells(state.map) \ {c} |-> Worths(state.map)[d]]
  <2>1. \A d \in EdibleCells(state.map) \ {c} : Visible'.map[d] = state.map[d]
    BY <1>1 DEF EdibleCells
  <2> QED  BY <1>2, <2>1 DEF Worths
<1>4. Visible'.game_over = (EdibleCells(Visible'.map) = {})
  <2>1. Cardinality(EdibleCells(Visible'.map)) = state.food_count - 1
    BY <1>2, EdiblesFinite, FS_RemoveElement DEF Counted
  <2>2. EdibleCells(Visible'.map) = {} <=> state.food_count - 1 = 0
    BY <2>1, EdiblesFinite, FS_EmptySet
  <2> QED  BY <1>1, <2>2
<1>5. Worths(state.map)[c] = Value(state.map[c])
  BY <1>2 DEF Worths
<1>6. /\ DOMAIN Worths(state.map) = EdibleCells(state.map)
      /\ DOMAIN Worths(Visible'.map) = EdibleCells(Visible'.map)
  BY DEF Worths
<1>7. /\ Worths(Visible'.map) = [d \in DOMAIN Worths(state.map) \ {c} |-> Worths(state.map)[d]]
      /\ Visible'.scores = [state.scores EXCEPT ![p] = @ + Worths(state.map)[c]]
      /\ Visible'.game_over = (DOMAIN Worths(Visible'.map) = {})
  BY <1>3, <1>4, <1>5, <1>6
<1> QED  BY <1>7 DEF Race!Take, Worths

\* A handler enters a cell: one prize changes hands, or none.
LEMMA RaceEnters ==
  ASSUME Typed, Sound, NEW p \in Player, Act(p), ipc, Visible = state, Visible' = state'
  PROVE  Race!Next \/ UNCHANGED Race!race
<1> DEFINE to   == next[p]
           c    == Position2Index(to)
           item == state.map[c]
<1>1. state \in GameState /\ to \in Position /\ c \in Cells
  BY IndexInCells DEF Typed
<1>2. /\ hpc[p] = "act" /\ ~state.game_over /\ Counted(state)
      /\ state' = Enter(state, p, to, item)
  BY DEF Act, Sound
<1>3. CASE item \in Edible
  <2>1. state' = Eat(state, p, to, item)
    <3>1. item # "FLOOR"
      BY <1>3 DEF Edible
    <3> HIDE DEF item, to
    <3> QED  BY <1>2, <1>3, <3>1 DEF Enter
  <2>2. /\ state'.map = [state.map EXCEPT ![c] = "FLOOR"]
        /\ state'.scores = [state.scores EXCEPT ![p] = @ + Value(item)]
        /\ state'.game_over = (state.game_over \/ state.food_count = 1)
    <3> HIDE DEF item, to
    <3> QED  BY <1>1, <2>1 DEF Eat, GameState
  <2>3. Race!Take(p, c)
    <3> HIDE DEF c
    <3> QED  BY <1>1, <1>2, <1>3, <2>2, RaceTakes
  <2>4. c \in EdibleCells(Visible.map)
    BY <1>1, <1>3 DEF EdibleCells
  <2> HIDE DEF c
  <2> QED  BY <2>3, <2>4 DEF Race!Next
<1>4. CASE item \notin Edible
  <2>1. state' = Walk(state, p, to) \/ state' = state
    <3> HIDE DEF item, to
    <3> QED  BY <1>2, <1>4 DEF Enter
  <2>2. /\ state'.map = state.map
        /\ state'.scores = state.scores
        /\ state'.game_over = state.game_over
    <3> HIDE DEF to
    <3> QED  BY <1>1, <2>1 DEF Walk, GameState
  <2> QED  BY <2>2 DEF Race!race
<1> QED  BY <1>3, <1>4

LEMMA RaceInit == Init => Race!Init
<1> SUFFICES ASSUME Init PROVE Race!Init
  OBVIOUS
<1>1. Visible = state
  BY DEF Init, Visible
<1>2. /\ Visible.map = [c \in Cells |-> "NONE"]
      /\ Visible.scores = [p \in Player |-> 0]
      /\ Visible.game_over = FALSE
  BY <1>1 DEF Init, ResetState
<1>3. EdibleCells(Visible.map) = {}
  BY <1>2 DEF EdibleCells, Edible
<1> QED  BY <1>2, <1>3 DEF Race!Init, Race!NoPoints

LEMMA RaceNext ==
  ASSUME Eager = {}
  PROVE  IInv /\ Typed /\ Sound /\ [Next]_vars => [Race!Next]_(Race!race)
<1> DEFINE Unseen == Visible' \in {Visible, ResetState}
<1> SUFFICES ASSUME IInv, Typed, Sound, [Next]_vars
             PROVE  Race!Next \/ UNCHANGED Race!race
  OBVIOUS
<1>1. Placed
  BY DEF IInv
<1>2. ASSUME Unseen PROVE Race!Next \/ UNCHANGED Race!race
  BY <1>2, RaceStutters, RaceClears DEF Race!Next
<1>3. CASE LoadEnd
  BY <1>1, <1>3, RaceStarts DEF Race!Next
<1>4. ASSUME NEW p \in Player, Test(p) PROVE Race!Next \/ UNCHANGED Race!race
  <2>1. state \in GameState /\ srv \notin {"tiles", "end"} /\ srv' = srv /\ ipc' = ipc
    BY <1>4 DEF Typed, Test, IInv, Quiet
  <2>2. CASE ~ipc \/ state' = state
    <3>1. Unseen
      BY <2>1, <2>2 DEF Visible
    <3> QED  BY <1>2, <3>1
  <2>3. CASE ipc /\ state' # state
    <3>1. ~state.game_over /\ state' = Collide(state)
      BY <1>4, <2>3 DEF Test
    <3>2. Visible = state /\ Visible' = state'
      BY <2>1, <2>3 DEF Visible
    <3> QED  BY <2>1, <3>1, <3>2, RaceBumps DEF Race!Next
  <2> QED  BY <2>2, <2>3
<1>5. ASSUME NEW p \in Player, Act(p) PROVE Race!Next \/ UNCHANGED Race!race
  <2>1. srv \notin {"tiles", "end"} /\ srv' = srv /\ ipc' = ipc
    BY <1>5 DEF Act, IInv, Quiet
  <2>2. CASE ipc
    <3>1. Visible = state /\ Visible' = state'
      BY <2>1, <2>2 DEF Visible
    <3> QED  BY <1>5, <2>2, <3>1, RaceEnters
  <2>3. CASE ~ipc
    <3>1. Unseen
      BY <2>1, <2>3 DEF Visible
    <3> QED  BY <1>2, <3>1
  <2> QED  BY <2>2, <2>3
<1> USE <1>1
<1>6. ASSUME Accept PROVE Unseen
  BY <1>6 DEF Visible, Placed, Sound, Accept
<1>7. ASSUME LoadReset PROVE Unseen
  BY <1>7 DEF Visible, Placed, Sound, LoadReset
<1>8. ASSUME LoadTiles PROVE Unseen
  BY <1>8 DEF Visible, Placed, Sound, LoadTiles
<1>9. ASSUME SpawnHandler PROVE Unseen
  BY <1>9 DEF Visible, Placed, Sound, SpawnHandler, Loop
<1>10. ASSUME Alarm PROVE Unseen
  BY <1>10 DEF Visible, Placed, Sound, Alarm
<1>11. ASSUME SigPipe PROVE Unseen
  BY <1>11 DEF Visible, Placed, Sound, SigPipe
<1>12. ASSUME Sigint PROVE Unseen
  BY <1>12 DEF Visible, Placed, Sound, Sigint
<1>13. ASSUME SigintInSemop PROVE Unseen
  BY <1>13 DEF Visible, Placed, Sound, SigintInSemop
<1>14. ASSUME Register PROVE Unseen
  BY <1>14 DEF Visible, Placed, Sound, Register, Loop
<1>15. ASSUME ForkBroadcaster PROVE Unseen
  BY <1>15 DEF Visible, Placed, Sound, ForkBroadcaster
<1>16. ASSUME WaitBroadcaster PROVE Unseen
  BY <1>16 DEF Visible, Placed, Sound, WaitBroadcaster
<1>17. ASSUME CloseAndKill PROVE Unseen
  BY <1>17 DEF Visible, Placed, Sound, CloseAndKill, Loop
<1>18. ASSUME ReapHandler PROVE Unseen
  BY <1>18 DEF Visible, Placed, Sound, ReapHandler, Loop
<1>19. ASSUME KillBroadcaster PROVE Unseen
  BY <1>19 DEF Visible, Placed, Sound, KillBroadcaster
<1>20. ASSUME NoBroadcaster PROVE Unseen
  BY <1>20 DEF Visible, Placed, Sound, NoBroadcaster
<1>21. ASSUME ReapBroadcaster PROVE Unseen
  BY <1>21 DEF Visible, Placed, Sound, ReapBroadcaster
<1>22. ASSUME Lock PROVE Unseen
  BY <1>22 DEF Visible, Placed, Sound, Lock
<1>23. ASSUME Clear PROVE Unseen
  BY <1>23 DEF Visible, Placed, Sound, Clear
<1>24. ASSUME Unlock PROVE Unseen
  BY <1>24 DEF Visible, Placed, Sound, Unlock
<1>25. ASSUME Again PROVE Unseen
  BY <1>25 DEF Visible, Placed, Sound, Again
<1>26. ASSUME BcastRead PROVE Unseen
  BY <1>26 DEF Visible, Placed, Sound, BcastRead
<1>27. ASSUME BcastFirst PROVE Unseen
  BY <1>27 DEF Visible, Placed, Sound, BcastFirst
<1>28. ASSUME BcastSecond PROVE Unseen
  BY <1>28 DEF Visible, Placed, Sound, BcastSecond
<1>29. ASSUME BcastDies PROVE Unseen
  BY <1>29 DEF Visible, Placed, Sound, BcastDies
<1>30. ASSUME NEW p \in Player, WaitHandler(p) PROVE Unseen
  BY <1>30 DEF Visible, WaitHandler
<1>31. ASSUME NEW p \in Player, Press(p) PROVE Unseen
  BY <1>31 DEF Visible, Press
<1>32. ASSUME NEW p \in Player, Quit(p) PROVE Unseen
  BY <1>32 DEF Visible, Quit
<1>33. ASSUME NEW p \in Player, ReadKey(p) PROVE Unseen
  BY <1>33 DEF Visible, ReadKey
<1>34. ASSUME NEW p \in Player, ReadEof(p) PROVE Unseen
  BY <1>34 DEF Visible, ReadEof
<1>35. ASSUME NEW p \in Player, Down(p) PROVE Unseen
  BY <1>35 DEF Visible, Down
<1>36. ASSUME NEW p \in Player, Send(p) PROVE Unseen
  BY <1>36 DEF Visible, Send
<1>37. ASSUME NEW p \in Player, Return(p) PROVE Unseen
  BY <1>37 DEF Visible, Return
<1>38. ASSUME NEW p \in Player, Up(p) PROVE Unseen
  BY <1>38 DEF Visible, Up
<1>39. ASSUME NEW p \in Player, SemopFails(p) PROVE Unseen
  BY <1>39 DEF Visible, SemopFails
<1>40. ASSUME NEW p \in Player, SendFails(p) PROVE Unseen
  BY <1>40 DEF Visible, SendFails
<1>41. ASSUME NEW p \in Player, Terminate(p) PROVE Unseen
  BY <1>41 DEF Visible, Terminate
<1>42. ASSUME UNCHANGED vars PROVE Unseen
  BY <1>42 DEF vars, Visible
<1> HIDE DEF Unseen
<1> QED  BY <1>2, <1>3, <1>4, <1>5, <1>6, <1>7, <1>8, <1>9, <1>10, <1>11, <1>12, <1>13,
             <1>14, <1>15, <1>16, <1>17, <1>18, <1>19, <1>20, <1>21, <1>22, <1>23,
             <1>24, <1>25, <1>26, <1>27, <1>28, <1>29, <1>30, <1>31, <1>32, <1>33,
             <1>34, <1>35, <1>36, <1>37, <1>38, <1>39, <1>40, <1>41, <1>42
     DEF Next, ServerStep, Handler, Broadcaster

\* The server, the handlers and the broadcaster, whatever their interleaving and whoever
\* dies, implement the race that game.c promises: each prize is taken once, is worth what
\* it was, and the last one ends the game.
THEOREM ServerImplementsRace == ASSUME Eager = {} PROVE Spec => RaceSpec
BY RaceInit, RaceNext, AlwaysSound, PTL DEF Spec, RaceSpec, Race!Spec

-----------------------------------------------------------------------------
(* What the clients are sent, and when.                                    *)

Line == [game : Nat, m : Message \cup {Spawned} \cup {Registered(p) : p \in Player}]

\* A stream before the map, after the map, and from the registration on.
Blank(s)   == s = << >>
Mapped(s)  == s \in Seq(Line) /\ Len(s) = 1 /\ s[1].m.msgt = "SPAWN"
Started(s) == /\ s \in Seq(Line) /\ Len(s) >= 2
              /\ s[1].m.msgt = "SPAWN" /\ s[2].m.msgt = "REGISTRATION"
              /\ \A i \in 3 .. Len(s) : s[i].m.msgt \notin {"SPAWN", "REGISTRATION"}

\* RegisteredFirst, made inductive: how far each stream is in each phase.
Ordered ==
  /\ srv = "end" => state.food_count # 0
  /\ srv \in Gone => bpc = "none"
  /\ DOMAIN stream = Player
  /\ \A p \in Player :
       /\ Blank(stream[p]) \/ Mapped(stream[p]) \/ Started(stream[p])
       /\ srv \in {"accept", "reset", "tiles"} /\ p >= cur => Blank(stream[p])
       /\ srv \in {"end", "spawn"} /\ p > cur => Blank(stream[p])
       /\ srv \in After => Blank(stream[p])
       /\ srv \in {"accept", "reset", "tiles"} /\ p < cur => Mapped(stream[p])
       /\ srv \in {"end", "spawn"} /\ p <= cur => Mapped(stream[p])
       /\ srv = "register" /\ p >= cur => Mapped(stream[p])
       /\ srv = "register" /\ p < cur => Started(stream[p])
       /\ srv \in {"fork", "wait"} \cup Teardown => Started(stream[p])

\* The messages of a game are neither of the two that precede it.
LEMMA MessageKinds == \A m \in Message : m.msgt \notin {"SPAWN", "REGISTRATION"}
BY DEF Message, GameOver, Moved, Eaten

LEMMA BlankMapped ==
  ASSUME NEW s, Blank(s), Placed PROVE Mapped(Append(s, Tag(Spawned)))
<1>1. Tag(Spawned) \in Line /\ Tag(Spawned).m.msgt = "SPAWN"
  BY DEF Line, Tag, Spawned, Placed
<1>2. s \in Seq(Line) /\ Len(s) = 0
  BY DEF Blank
<1> QED  BY <1>1, <1>2 DEF Mapped

LEMMA LastAppended ==
  ASSUME NEW S, NEW s \in Seq(S), NEW e \in S PROVE Append(s, e)[Len(s) + 1] = e
OBVIOUS

LEMMA MappedStarted ==
  ASSUME NEW s, Mapped(s), NEW p \in Player, Placed
  PROVE  Started(Append(s, Tag(Registered(p))))
<1>1. Tag(Registered(p)) \in Line /\ Tag(Registered(p)).m.msgt = "REGISTRATION"
  BY DEF Line, Tag, Registered, Placed
<1>2. ASSUME NEW e \in Line, e.m.msgt = "REGISTRATION" PROVE Started(Append(s, e))
  <2>1. s \in Seq(Line) /\ Len(s) = 1
    BY DEF Mapped
  <2>2. Append(s, e) \in Seq(Line) /\ Len(Append(s, e)) = 2
    BY <2>1
  <2>3. Append(s, e)[1] = s[1]
    BY <2>1
  <2>4. Append(s, e)[Len(s) + 1] = e
    BY <2>1, LastAppended
  <2> QED  BY <1>2, <2>1, <2>2, <2>3, <2>4 DEF Started, Mapped
<1> QED  BY <1>1, <1>2

LEMMA StartedGoesOn ==
  ASSUME NEW s, Started(s), NEW e \in Tagged PROVE Started(Append(s, e))
<1>1. e \in Line /\ e.m.msgt \notin {"SPAWN", "REGISTRATION"}
  BY MessageKinds DEF Line, Tagged
<1> QED  BY <1>1 DEF Started

LEMMA OrderedInit == Init => Ordered
BY DEF Init, Ordered, Blank, After

LEMMA OrderedNext ==
  ASSUME Eager = {}, EdibleCells(Load(Level).map) # {}
  PROVE  IInv /\ Typed /\ Sound /\ Ordered /\ [Next]_vars => Ordered'
<1> SUFFICES ASSUME IInv, Typed, Sound, Ordered, [Next]_vars PROVE Ordered'
  OBVIOUS
<1>1. Placed /\ Swept
  BY DEF IInv
<1> USE <1>1
<1>2. ASSUME Accept PROVE Ordered'
  BY <1>2 DEF Ordered, Placed, Swept, After, Accept
<1>3. ASSUME LoadReset PROVE Ordered'
  BY <1>3 DEF Ordered, Placed, Swept, After, LoadReset
<1>4. ASSUME LoadTiles PROVE Ordered'
  <2>1. /\ srv = "tiles" /\ srv' = "end" /\ UNCHANGED <<cur, bpc>>
        /\ stream' = [stream EXCEPT ![cur] = Append(@, Tag(Spawned))]
        /\ state = ResetState
        /\ state' = [state EXCEPT !.map        = Load(Level).map,
                                  !.positions  = Load(Level).positions,
                                  !.food_count = @ + Load(Level).food_count]
    BY <1>4 DEF LoadTiles, Tell, Sound
  <2>2. state'.food_count # 0
    <3>1. Load(Level) \in GameState /\ Counted(Load(Level))
      BY LoadTyped, LoadCounted, ServerAssumption
    <3>2. Load(Level).food_count # 0 /\ Load(Level).food_count \in Int
      BY <3>1, EdiblesFinite, FS_EmptySet DEF Counted, GameState
    <3>3. state'.food_count = Load(Level).food_count
      BY <2>1, <3>2 DEF ResetState
    <3> QED  BY <3>2, <3>3
  <2>3. Blank(stream[cur]) /\ DOMAIN stream = Player
    BY <2>1 DEF Ordered, Placed
  <2>4. Mapped(stream'[cur])
    BY <2>1, <2>3, BlankMapped DEF Placed
  <2>5. \A p \in Player : p # cur => stream'[p] = stream[p]
    BY <2>1, <2>3
  <2>6. DOMAIN stream' = Player
    BY <2>1, <2>3
  <2> QED  BY <2>1, <2>2, <2>4, <2>5, <2>6 DEF Ordered, Placed, After
<1>5. ASSUME LoadEnd PROVE Ordered'
  BY <1>5 DEF Ordered, Placed, Swept, After, LoadEnd
<1>6. ASSUME SpawnHandler PROVE Ordered'
  BY <1>6 DEF Ordered, Placed, Swept, After, SpawnHandler, Loop
<1>7. ASSUME Alarm PROVE Ordered'
  BY <1>7 DEF Ordered, Placed, Swept, After, Alarm
<1>8. ASSUME SigPipe PROVE Ordered'
  BY <1>8 DEF Ordered, Placed, Swept, After, SigPipe
<1>9. ASSUME Sigint PROVE Ordered'
  BY <1>9 DEF Ordered, Placed, Swept, After, Sigint
<1>10. ASSUME SigintInSemop PROVE Ordered'
  BY <1>10 DEF Ordered, Placed, Swept, After, SigintInSemop
<1>11. ASSUME Register PROVE Ordered'
  <2>1. /\ srv = "register" /\ UNCHANGED <<bpc>>
        /\ stream' = [stream EXCEPT ![cur] = Append(@, Tag(Registered(cur)))]
        /\ \/ cur = 1 /\ cur' = 2 /\ srv' = "register"
           \/ cur = 2 /\ cur' = 1 /\ srv' = "fork"
    BY <1>11 DEF Register, Tell, Loop, Placed
  <2>2. Mapped(stream[cur]) /\ DOMAIN stream = Player
    BY <2>1 DEF Ordered, Placed
  <2>3. Started(stream'[cur])
    BY <2>1, <2>2, MappedStarted DEF Placed
  <2>4. /\ \A p \in Player : p # cur => stream'[p] = stream[p]
        /\ DOMAIN stream' = Player
    BY <2>1, <2>2
  <2> QED  BY <2>1, <2>3, <2>4 DEF Ordered, Placed, After
<1>12. ASSUME ForkBroadcaster PROVE Ordered'
  BY <1>12 DEF Ordered, Placed, Swept, After, ForkBroadcaster
<1>13. ASSUME WaitBroadcaster PROVE Ordered'
  BY <1>13 DEF Ordered, Placed, Swept, After, WaitBroadcaster
<1>14. ASSUME CloseAndKill PROVE Ordered'
  BY <1>14 DEF Ordered, Placed, Swept, After, CloseAndKill, Loop
<1>15. ASSUME ReapHandler PROVE Ordered'
  BY <1>15 DEF Ordered, Placed, Swept, After, ReapHandler, Loop
<1>16. ASSUME KillBroadcaster PROVE Ordered'
  BY <1>16 DEF Ordered, Placed, Swept, After, KillBroadcaster
<1>17. ASSUME NoBroadcaster PROVE Ordered'
  <2>1. DOMAIN stream' = Player /\ \A p \in Player : Blank(stream'[p])
    BY <1>17 DEF NoBroadcaster, HangUp, Blank
  <2>2. srv' = "lock"
    BY <1>17 DEF NoBroadcaster
  <2> QED  BY <2>1, <2>2 DEF Ordered, After
<1>18. ASSUME ReapBroadcaster PROVE Ordered'
  <2>1. DOMAIN stream' = Player /\ \A p \in Player : Blank(stream'[p])
    BY <1>18 DEF ReapBroadcaster, HangUp, Blank
  <2>2. srv' = "lock"
    BY <1>18 DEF ReapBroadcaster
  <2> QED  BY <2>1, <2>2 DEF Ordered, After
<1>19. ASSUME Lock PROVE Ordered'
  BY <1>19 DEF Ordered, Placed, Swept, After, Lock
<1>20. ASSUME Clear PROVE Ordered'
  BY <1>20 DEF Ordered, Placed, Swept, After, Clear
<1>21. ASSUME Unlock PROVE Ordered'
  BY <1>21 DEF Ordered, Placed, Swept, After, Unlock
<1>22. ASSUME Again PROVE Ordered'
  <2>1. stream' = stream /\ cur' = 1 /\ bpc' = "none" /\ srv' \in {"accept", "exited"}
    BY <1>22 DEF Again, Swept, After
  <2>2. \A p \in Player : Blank(stream[p])
    BY <1>22 DEF Again, Ordered, After
  <2> QED  BY <2>1, <2>2 DEF Ordered, After
<1>23. ASSUME BcastRead PROVE Ordered'
  BY <1>23 DEF Ordered, Placed, Swept, After, BcastRead
<1>24. ASSUME BcastFirst PROVE Ordered'
  <2>1. /\ bpc \in {"write", "writing"} /\ UNCHANGED <<srv, cur, state>>
        /\ stream' = [stream EXCEPT ![1] = Append(@, msg)]
    BY <1>24 DEF BcastFirst, Deliver
  <2>2. srv \in {"wait"} \cup Teardown /\ msg \in Tagged
    BY <2>1 DEF Ordered, Swept, Placed, ServerPC, After, Typed
  <2>3. \A p \in Player : Started(stream[p]) /\ stream'[p] \in {stream[p], Append(stream[p], msg)}
    BY <2>1, <2>2 DEF Ordered
  <2>4. DOMAIN stream' = Player /\ \A p \in Player : Started(stream'[p])
    BY <2>1, <2>2, <2>3, StartedGoesOn DEF Ordered
  <2> QED  BY <2>1, <2>2, <2>4 DEF Ordered, After
<1>25. ASSUME BcastSecond PROVE Ordered'
  <2>1. /\ bpc \in {"write", "writing"} /\ UNCHANGED <<srv, cur, state>>
        /\ stream' = [stream EXCEPT ![2] = Append(@, msg)]
    BY <1>25 DEF BcastSecond, Deliver
  <2>2. srv \in {"wait"} \cup Teardown /\ msg \in Tagged
    BY <2>1 DEF Ordered, Swept, Placed, ServerPC, After, Typed
  <2>3. \A p \in Player : Started(stream[p]) /\ stream'[p] \in {stream[p], Append(stream[p], msg)}
    BY <2>1, <2>2 DEF Ordered
  <2>4. DOMAIN stream' = Player /\ \A p \in Player : Started(stream'[p])
    BY <2>1, <2>2, <2>3, StartedGoesOn DEF Ordered
  <2> QED  BY <2>1, <2>2, <2>4 DEF Ordered, After
<1>26. ASSUME BcastDies PROVE Ordered'
  BY <1>26 DEF Ordered, Placed, Swept, After, BcastDies
<1>27. ASSUME NEW p \in Player, WaitHandler(p) PROVE Ordered'
  <2>1. srv = "wait" /\ srv' = "close" /\ UNCHANGED stream
    BY <1>27 DEF WaitHandler
  <2> QED  BY <2>1 DEF Ordered, After
<1>28. ASSUME NEW p \in Player, Press(p) PROVE Ordered'
  BY <1>28 DEF Ordered, Press
<1>29. ASSUME NEW p \in Player, Quit(p) PROVE Ordered'
  BY <1>29 DEF Ordered, Quit
<1>30. ASSUME NEW p \in Player, ReadKey(p) PROVE Ordered'
  BY <1>30 DEF Ordered, ReadKey
<1>31. ASSUME NEW p \in Player, ReadEof(p) PROVE Ordered'
  BY <1>31 DEF Ordered, ReadEof
<1>32. ASSUME NEW p \in Player, Down(p) PROVE Ordered'
  BY <1>32 DEF Ordered, Down
<1>33. ASSUME NEW p \in Player, Test(p) PROVE Ordered'
  <2>1. srv # "end" /\ UNCHANGED <<srv, cur, stream, bpc>>
    BY <1>33 DEF Test, IInv, Quiet
  <2> QED  BY <2>1 DEF Ordered
<1>34. ASSUME NEW p \in Player, Act(p) PROVE Ordered'
  <2>1. srv # "end" /\ UNCHANGED <<srv, cur, stream, bpc>>
    BY <1>34 DEF Act, IInv, Quiet
  <2> QED  BY <2>1 DEF Ordered
<1>35. ASSUME NEW p \in Player, Send(p) PROVE Ordered'
  BY <1>35 DEF Ordered, Send
<1>36. ASSUME NEW p \in Player, Return(p) PROVE Ordered'
  BY <1>36 DEF Ordered, Return
<1>37. ASSUME NEW p \in Player, Up(p) PROVE Ordered'
  BY <1>37 DEF Ordered, Up
<1>38. ASSUME NEW p \in Player, SemopFails(p) PROVE Ordered'
  BY <1>38 DEF Ordered, SemopFails
<1>39. ASSUME NEW p \in Player, SendFails(p) PROVE Ordered'
  BY <1>39 DEF Ordered, SendFails
<1>40. ASSUME NEW p \in Player, Terminate(p) PROVE Ordered'
  BY <1>40 DEF Ordered, Terminate
<1>41. ASSUME UNCHANGED vars PROVE Ordered'
  BY <1>41 DEF vars, Ordered
<1> QED  BY <1>2, <1>3, <1>4, <1>5, <1>6, <1>7, <1>8, <1>9, <1>10, <1>11, <1>12, <1>13,
             <1>14, <1>15, <1>16, <1>17, <1>18, <1>19, <1>20, <1>21, <1>22, <1>23,
             <1>24, <1>25, <1>26, <1>27, <1>28, <1>29, <1>30, <1>31, <1>32, <1>33,
             <1>34, <1>35, <1>36, <1>37, <1>38, <1>39, <1>40, <1>41
     DEF Next, ServerStep, Handler, Broadcaster

\* A client is sent the map, then its registration, then the game, and each of the first
\* two once: nothing that a handler of the other player does can get in between.
THEOREM RegistrationComesFirst ==
  ASSUME Eager = {}, EdibleCells(Load(Level).map) # {}
  PROVE  Spec => []RegisteredFirst
<1>1. Ordered => RegisteredFirst
  <2> SUFFICES ASSUME Ordered, NEW p \in Player, NEW i \in DOMAIN stream[p]
               PROVE  stream[p][i].m.msgt =
                        CASE i = 1 -> "SPAWN"
                          [] i = 2 -> "REGISTRATION"
                          [] OTHER -> IF stream[p][i].m.msgt \in {"SPAWN", "REGISTRATION"}
                                        THEN "NONE" ELSE stream[p][i].m.msgt
    BY DEF RegisteredFirst
  <2>1. CASE Blank(stream[p])
    BY <2>1 DEF Blank
  <2>2. CASE Mapped(stream[p])
    BY <2>2 DEF Mapped
  <2>3. CASE Started(stream[p])
    <3>1. i \in 1 .. Len(stream[p]) /\ Len(stream[p]) \in Nat
      BY <2>3 DEF Started
    <3>2. i = 1 \/ i = 2 \/ i \in 3 .. Len(stream[p])
      BY <3>1
    <3> QED  BY <2>3, <3>2 DEF Started
  <2> QED  BY <2>1, <2>2, <2>3 DEF Ordered
<1>2. Spec => []Ordered
  BY AlwaysSound, OrderedInit, OrderedNext, PTL DEF Spec
<1> QED  BY <1>1, <1>2, PTL

-----------------------------------------------------------------------------
(* Both players are told the same.                                         *)

\* What a load_map writes for a player, and what has been written when it is registered.
Opening   == IF EdibleCells(Load(Level).map) = {} THEN Append(<<Tag(Spawned)>>, Tag(GameOver(1)))
                                                  ELSE <<Tag(Spawned)>>
Opened(p) == Append(Opening, Tag(Registered(p)))

\* Agreement while the broadcaster is at work: it has told player 2 all that it has told
\* player 1 but the message in its buffer.
Aligned ==
  /\ Len(stream[2]) \in {Len(stream[1]), Len(stream[1]) - 1}
  /\ \A i \in DOMAIN stream[2] : SameLine(stream[1][i], stream[2][i])
  /\ bpc \in {"read", "write"} => Len(stream[2]) = Len(stream[1])
  /\ bpc = "writing" => /\ Len(stream[1]) = Len(stream[2]) + 1
                        /\ stream[1][Len(stream[1])] = msg

\* Agreement, made inductive: how far each stream is in each phase.
Lined ==
  /\ stream \in [Player -> Seq(Line)]
  /\ srv \in Gone => bpc = "none"
  /\ \A p \in Player :
       /\ srv \in Waiting /\ p < cur => stream[p] = Opening
       /\ srv \in Waiting /\ p > cur => stream[p] = << >>
       /\ srv \in {"accept", "reset", "tiles"} /\ p = cur => stream[p] = << >>
       /\ srv = "end" /\ p = cur => stream[p] = <<Tag(Spawned)>>
       /\ srv = "spawn" /\ p = cur => stream[p] = Opening
       /\ srv = "register" => stream[p] = IF p < cur THEN Opened(p) ELSE Opening
       /\ srv = "fork" => stream[p] = Opened(p)
       /\ srv \in After => stream[p] = << >>
  /\ srv \in {"wait"} \cup Teardown => Aligned

\* What the load_map that has just ended has made of the state.
Fresh ==
  /\ srv \in {"end", "spawn"} => /\ state.map = Load(Level).map
                                 /\ state.positions = Load(Level).positions
                                 /\ state.food_count = Load(Level).food_count
  /\ srv = "spawn" => (state.game_over <=> state.food_count = 0)

-----------------------------------------------------------------------------
(* What they are told is what has happened.                                *)

\* What player p has been told and what is still on its way to it, in this order.
Held(p) == IF bpc = "write" \/ (bpc = "writing" /\ p = 2) THEN <<msg>> ELSE << >>

Underway(p) == stream[p] \o Held(p) \o pipe

\* The lines of a story that are of game g and of one kind.
Said(g, story, kind) == {i \in DOMAIN story : story[i].game = g /\ story[i].m.msgt = kind}

MovesOf(g, story, q) == {i \in Said(g, story, "MOVEMENT") : story[i].m.id = PlayerId(q)}

\* A story in which player q ends up where st has it.
Locates(g, story, q, st) ==
  LET moves == MovesOf(g, story, q) IN
  /\ moves = {} => st.positions[q] = Load(Level).positions[q]
  /\ \A i \in moves : (\A j \in moves : j <= i) => story[i].m.pos = st.positions[q]

\* The messages that game g still has to put into the pipe, as they will be there.
Marked(g, ms) == [i \in DOMAIN ms |-> [game |-> g, m |-> ms[i]]]

\* What p will have been told when the handler inside has written all it has to.
Story(p) == Underway(p) \o (Marked(game, todo[1]) \o Marked(game, todo[2]))

\* No piece of food is eaten twice in a story.
EatsOnce(g, story) ==
  \A i, j \in Said(g, story, "EAT_FOOD") : story[i].m.food = story[j].m.food => i = j

Foods(g, story) == {story[i].m.food : i \in Said(g, story, "EAT_FOOD")}

Ended(g, story) == Said(g, story, "GAME_OVER") # {}

\* Nothing happens any more in a story of which the end has been told.
EndsLast(g, story) ==
  \A i \in Said(g, story, "GAME_OVER"), j \in DOMAIN story :
    i < j /\ story[j].game = g => story[j].m.msgt \notin {"MOVEMENT", "EAT_FOOD"}

\* A story that leads to the state st.
LeadsTo(g, story, st) == /\ EatsOnce(g, story)
                         /\ Foods(g, story) = Missing(st)
                         /\ \A q \in Player : Locates(g, story, q, st)
                         /\ EndsLast(g, story)

Present == \A p \in Player : conn[p] # "closed"

\* A handler that has acted and has not said yet whether that ends the game.
Undecided == \E q \in Player : hpc[q] = "send"

\* Announced, made inductive: the stories lead to the state at every step when what the
\* handler inside has still to write is added, and they end if and only if the game is
\* over, unless that handler has not come to it yet.
Telling ==
  srv \in {"register", "fork", "wait"} /\ Present =>
    \A p \in Player :
      /\ LeadsTo(game, Story(p), state)
      /\ IF Undecided THEN ~Ended(game, Story(p)) ELSE state.game_over <=> Ended(game, Story(p))

\* A broadcaster that has ended by itself has told both players the end of a game.
Finished ==
  srv = "wait" /\ bpc = "zombie" /\ Present =>
    \A p \in Player : \E i \in DOMAIN stream[p] : stream[p][i].m.msgt = "GAME_OVER"

\* A handler has something to write only where it writes, and what is left in the pipe
\* when a game ends is of that game or an earlier one.
Tidy ==
  /\ \A p \in Player : hpc[p] \notin {"send", "last"} => todo[p] = << >>
  /\ \A i \in DOMAIN pipe : pipe[i].game <= game /\ (srv \in Waiting => pipe[i].game < game)
  /\ srv \in {"register", "fork", "wait"} =>
       EdibleCells(state.map) \subseteq EdibleCells(Load(Level).map)

LEMMA OpeningLine ==
  ASSUME Placed
  PROVE  Opening \in Seq(Line) /\ \A p \in Player : Opened(p) \in Seq(Line)
<1>1. /\ Tag(Spawned) \in Line /\ Tag(GameOver(1)) \in Line
      /\ \A p \in Player : Tag(Registered(p)) \in Line
  BY DEF Tag, Line, Message, Placed
<1> QED  BY <1>1 DEF Opening, Opened

\* Two steps of a load_map write the opening, one after the other.
LEMMA OpeningWritten ==
  ASSUME NEW s, s = <<Tag(Spawned)>>
  PROVE  /\ Append(<< >>, Tag(Spawned)) = s
         /\ Opening = IF EdibleCells(Load(Level).map) = {} THEN Append(s, Tag(GameOver(1))) ELSE s
BY DEF Opening

\* The two streams are equal, line by line, once both players are registered.
LEMMA BothOpened ==
  ASSUME Placed, NEW s1, NEW s2, s1 = Opened(1), s2 = Opened(2)
  PROVE  Len(s2) = Len(s1) /\ \A i \in DOMAIN s2 : SameLine(s1[i], s2[i])
<1> DEFINE o == Opening
           a == Tag(Registered(1))
           b == Tag(Registered(2))
<1>1. /\ a.m.msgt = "REGISTRATION" /\ b.m.msgt = "REGISTRATION"
      /\ o \in Seq(Line) /\ a \in Line /\ b \in Line
  BY OpeningLine DEF Tag, Registered, Line, Placed
<1>2. s1 = Append(o, a) /\ s2 = Append(o, b)
  BY DEF Opened
<1> HIDE DEF o, a, b
<1>3. Len(s1) = Len(o) + 1 /\ Len(s2) = Len(o) + 1
  BY <1>1, <1>2
<1>4. ASSUME NEW i \in DOMAIN s2 PROVE SameLine(s1[i], s2[i])
  <2>1. i \in 1 .. Len(o) \/ i = Len(o) + 1
    BY <1>1, <1>2, <1>4
  <2>2. CASE i \in 1 .. Len(o)
    BY <1>1, <1>2, <2>2 DEF SameLine
  <2>3. CASE i = Len(o) + 1
    BY <1>1, <1>2, <2>3, LastAppended DEF SameLine
  <2> QED  BY <2>1, <2>2, <2>3
<1> QED  BY <1>3, <1>4

LEMMA ToldLine ==
  ASSUME NEW streams \in [Player -> Seq(Line)], NEW p \in Player, NEW e \in Line
  PROVE  [streams EXCEPT ![p] = Append(@, e)] \in [Player -> Seq(Line)]
OBVIOUS

LEMMA LinedInit == Init => Lined
<1>1. << >> \in Seq(Line)
  OBVIOUS
<1> QED  BY <1>1 DEF Init, Lined, After

LEMMA FreshInit == Init => Fresh
BY DEF Init, Fresh

\* The steps that write nothing on the connections and let the broadcaster be.
LEMMA LinedSilent ==
  ASSUME Lined, UNCHANGED <<srv, cur, game, stream, bpc, msg>> PROVE Lined'
<1>1. Opening' = Opening /\ \A p \in Player : Opened(p)' = Opened(p)
  BY DEF Opening, Opened, Tag
<1>2. Aligned' <=> Aligned
  BY DEF Aligned
<1>3. ASSUME NEW p \in Player PROVE Opened(p)' = Opened(p)
  BY <1>1
<1> HIDE DEF Player, Waiting, Teardown, Gone
<1> QED  BY <1>1, <1>2, <1>3 DEF Lined, Tag

LEMMA LinedNext ==
  ASSUME Eager = {}
  PROVE  IInv /\ Typed /\ Sound /\ Fresh /\ Lined /\ [Next]_vars => Lined'
<1> SUFFICES ASSUME IInv, Typed, Sound, Fresh, Lined, [Next]_vars PROVE Lined'
  OBVIOUS
<1>1. Placed /\ Swept
  BY DEF IInv
<1>0. game' = game => Opening' = Opening /\ \A p \in Player : Opened(p)' = Opened(p)
  BY DEF Opening, Opened, Tag
<1> USE <1>1
<1>2. ASSUME Accept PROVE Lined'
  BY <1>2, <1>0 DEF Lined, Aligned, Placed, Swept, After, Accept
<1>3. ASSUME LoadReset PROVE Lined'
  BY <1>3, <1>0 DEF Lined, Aligned, Placed, Swept, After, LoadReset
<1>4. ASSUME LoadTiles PROVE Lined'
  <2>1. stream[cur] = << >> /\ stream'[cur] = Append(stream[cur], Tag(Spawned))
    BY <1>4 DEF Lined, Placed, LoadTiles, Tell
  <2>2. stream'[cur] = <<Tag(Spawned)>>
    BY <2>1, OpeningWritten
  <2>3. Tag(Spawned) \in Line
    BY DEF Tag, Line, Placed
  <2>4. /\ \A p \in Player : p # cur => stream'[p] = stream[p]
        /\ DOMAIN stream' = Player /\ \A p \in Player : stream'[p] \in Seq(Line)
    BY <1>4, <2>2, <2>3 DEF LoadTiles, Tell, Lined, Placed
  <2>5. stream' \in [Player -> Seq(Line)]
    BY <1>4, <2>3, ToldLine DEF LoadTiles, Tell, Lined, Placed
  <2> QED  BY <1>4, <1>0, <2>2, <2>4, <2>5 DEF Lined, Placed, Swept, After, LoadTiles, Tag
<1>5. ASSUME LoadEnd PROVE Lined'
  <2>1. stream[cur] = <<Tag(Spawned)>> /\ srv = "end"
    BY <1>5 DEF Lined, Placed, LoadEnd
  <2>2. state.food_count = 0 <=> EdibleCells(Load(Level).map) = {}
    BY <2>1, LoadCounted, EdiblesFinite, FS_EmptySet DEF Fresh, Counted
  <2>3. stream'[cur] = IF state.food_count = 0 THEN Append(stream[cur], Tag(GameOver(1)))
                                               ELSE stream[cur]
    BY <1>5 DEF Lined, Placed, LoadEnd, Tell
  <2>4. stream'[cur] = Opening
    BY <2>1, <2>2, <2>3, OpeningWritten
  <2>5. DOMAIN stream' = Player /\ \A p \in Player : p # cur => stream'[p] = stream[p]
    BY <1>5 DEF LoadEnd, Tell, Lined, Placed
  <2>6. stream' \in [Player -> Seq(Line)]
    <3>1. Tag(GameOver(1)) \in Line
      BY DEF Tag, Line, Message, Placed
    <3>2. stream' = stream \/ stream' = [stream EXCEPT ![cur] = Append(@, Tag(GameOver(1)))]
      BY <1>5 DEF LoadEnd, Tell
    <3>3. stream \in [Player -> Seq(Line)] /\ cur \in Player
      BY DEF Lined, Placed
    <3>4. [stream EXCEPT ![cur] = Append(@, Tag(GameOver(1)))] \in [Player -> Seq(Line)]
      BY <3>1, <3>3, ToldLine
    <3> QED  BY <3>2, <3>3, <3>4
  <2> QED  BY <1>5, <1>0, <2>4, <2>5, <2>6 DEF Lined, Placed, Swept, After, LoadEnd
<1>6. ASSUME SpawnHandler PROVE Lined'
  BY <1>6, <1>0 DEF Lined, Aligned, Placed, Swept, After, SpawnHandler, Loop
<1>7. ASSUME Alarm PROVE Lined'
  BY <1>7, <1>0 DEF Lined, Aligned, Placed, Swept, After, Alarm
<1>8. ASSUME SigPipe PROVE Lined'
  BY <1>8, <1>0 DEF Lined, Aligned, Placed, Swept, After, SigPipe
<1>9. ASSUME Sigint PROVE Lined'
  BY <1>9, LinedSilent DEF Sigint
<1>10. ASSUME SigintInSemop PROVE Lined'
  BY <1>10, <1>0 DEF Lined, Aligned, Placed, Swept, After, SigintInSemop
<1>11. ASSUME Register PROVE Lined'
  <2>1. stream[cur] = Opening /\ stream'[cur] = Opened(cur)
    BY <1>11 DEF Lined, Placed, Register, Tell, Opened
  <2>2. DOMAIN stream' = Player /\ \A p \in Player : p # cur => stream'[p] = stream[p]
    BY <1>11 DEF Register, Tell, Lined, Placed
  <2>3. stream' \in [Player -> Seq(Line)]
    <3>1. \A p \in Player : stream'[p] \in Seq(Line)
      BY <2>1, <2>2, OpeningLine DEF Lined, Placed
    <3>2. stream' = [p \in Player |-> stream'[p]]
      BY <1>11 DEF Register, Tell, Lined
    <3> QED  BY <3>1, <3>2
  <2> QED  BY <1>11, <1>0, <2>1, <2>2, <2>3 DEF Lined, Placed, Swept, After, Register, Loop
<1>12. ASSUME ForkBroadcaster PROVE Lined'
  <2>1. stream[1] = Opened(1) /\ stream[2] = Opened(2)
    BY <1>12 DEF Lined, ForkBroadcaster
  <2>2. Len(stream[1]) \in Nat
    BY DEF Lined
  <2>3. Aligned'
    BY <1>12, <2>1, <2>2, BothOpened DEF Aligned, ForkBroadcaster
  <2> QED  BY <1>12, <1>0, <2>3 DEF ForkBroadcaster, Lined, After
<1>13. ASSUME WaitBroadcaster PROVE Lined'
  BY <1>13, <1>0 DEF Lined, Aligned, Placed, Swept, After, WaitBroadcaster
<1>14. ASSUME CloseAndKill PROVE Lined'
  BY <1>14, <1>0 DEF Lined, Aligned, Placed, Swept, After, CloseAndKill, Loop
<1>15. ASSUME ReapHandler PROVE Lined'
  BY <1>15, <1>0 DEF Lined, Aligned, Placed, Swept, After, ReapHandler, Loop
<1>16. ASSUME KillBroadcaster PROVE Lined'
  BY <1>16, <1>0 DEF Lined, Aligned, Placed, Swept, After, KillBroadcaster
<1>17. ASSUME NoBroadcaster PROVE Lined'
  <2>1. << >> \in Seq(Line)
    OBVIOUS
  <2>2. srv' = "lock" /\ stream' = [p \in Player |-> << >>]
    BY <1>17 DEF NoBroadcaster, HangUp
  <2> QED  BY <2>1, <2>2, <1>0 DEF Lined, After
<1>18. ASSUME ReapBroadcaster PROVE Lined'
  <2>1. << >> \in Seq(Line)
    OBVIOUS
  <2>2. srv' = "lock" /\ stream' = [p \in Player |-> << >>]
    BY <1>18 DEF ReapBroadcaster, HangUp
  <2> QED  BY <2>1, <2>2, <1>0 DEF Lined, After
<1>19. ASSUME Lock PROVE Lined'
  BY <1>19, <1>0 DEF Lined, Aligned, Placed, Swept, After, Lock
<1>20. ASSUME Clear PROVE Lined'
  BY <1>20, <1>0 DEF Lined, Aligned, Placed, Swept, After, Clear
<1>21. ASSUME Unlock PROVE Lined'
  BY <1>21, <1>0 DEF Lined, Aligned, Placed, Swept, After, Unlock
<1>22. ASSUME Again PROVE Lined'
  <2>1. /\ stream' = stream /\ cur' = 1 /\ bpc' = "none" /\ srv' \in {"accept", "exited"}
        /\ \A p \in Player : stream[p] = << >>
    BY <1>22 DEF Again, Swept, After, Lined
  <2> QED  BY <2>1 DEF Lined, After
<1>23. ASSUME BcastRead PROVE Lined'
  BY <1>23, <1>0 DEF Lined, Aligned, Placed, Swept, After, BcastRead
<1>24. ASSUME BcastFirst PROVE Lined'
  <2>1. bpc = "write" /\ srv \in {"wait"} \cup Teardown /\ msg \in Tagged
    BY <1>24 DEF BcastFirst, Swept, Placed, ServerPC, After, Lined, Typed
  <2>2. msg \in Line
    BY <2>1 DEF Line, Tagged
  <2>3. /\ stream' = [stream EXCEPT ![1] = Append(@, msg)]
        /\ UNCHANGED <<srv, msg>> /\ bpc' = "writing"
    BY <1>24 DEF BcastFirst, Deliver
  <2>4. /\ stream[1] \in Seq(Line) /\ stream[2] \in Seq(Line)
        /\ stream'[1] = Append(stream[1], msg) /\ stream'[2] = stream[2]
        /\ stream' \in [Player -> Seq(Line)]
    BY <2>2, <2>3 DEF Lined
  <2>5. /\ Len(stream[2]) = Len(stream[1])
        /\ \A i \in DOMAIN stream[2] : SameLine(stream[1][i], stream[2][i])
    BY <2>1 DEF Lined, Aligned
  <2>6. Aligned'
    <3>1. Append(stream[1], msg)[Len(stream[1]) + 1] = msg
      BY <2>2, <2>4, LastAppended
    <3>2. Len(stream'[1]) = Len(stream[1]) + 1
      BY <2>2, <2>4
    <3>3. \A i \in DOMAIN stream[2] : stream'[1][i] = stream[1][i]
      BY <2>2, <2>4, <2>5
    <3>4. Len(stream[1]) \in Nat
      BY <2>4
    <3> QED  BY <2>3, <2>4, <2>5, <3>1, <3>2, <3>3, <3>4 DEF Aligned
  <2> QED  BY <2>1, <2>3, <2>4, <2>6 DEF Lined, After
<1>25. ASSUME BcastSecond PROVE Lined'
  <2>1. bpc = "writing" /\ srv \in {"wait"} \cup Teardown /\ msg \in Tagged
    BY <1>25 DEF BcastSecond, Swept, Placed, ServerPC, After, Lined, Typed
  <2>2. msg \in Line
    BY <2>1 DEF Line, Tagged
  <2>3. /\ stream' = [stream EXCEPT ![2] = Append(@, msg)]
        /\ UNCHANGED <<srv>> /\ bpc' \in {"zombie", "read"}
    BY <1>25 DEF BcastSecond, Deliver
  <2>4. /\ stream[1] \in Seq(Line) /\ stream[2] \in Seq(Line)
        /\ stream'[2] = Append(stream[2], msg) /\ stream'[1] = stream[1]
        /\ stream' \in [Player -> Seq(Line)]
    BY <2>2, <2>3 DEF Lined
  <2>5. /\ Len(stream[1]) = Len(stream[2]) + 1
        /\ stream[1][Len(stream[1])] = msg
        /\ \A i \in DOMAIN stream[2] : SameLine(stream[1][i], stream[2][i])
    BY <2>1 DEF Lined, Aligned
  <2>6. Aligned'
    <3>1. Append(stream[2], msg)[Len(stream[2]) + 1] = msg
      BY <2>2, <2>4, LastAppended
    <3>2. Len(stream'[2]) = Len(stream[1])
      BY <2>2, <2>4, <2>5
    <3>3. ASSUME NEW i \in DOMAIN stream'[2] PROVE SameLine(stream[1][i], stream'[2][i])
      <4>1. i \in DOMAIN stream[2] \/ i = Len(stream[2]) + 1
        BY <2>2, <2>4
      <4>2. CASE i \in DOMAIN stream[2]
        BY <2>2, <2>4, <2>5, <4>2
      <4>3. CASE i = Len(stream[2]) + 1
        BY <2>4, <2>5, <3>1, <4>3 DEF SameLine
      <4> QED  BY <4>1, <4>2, <4>3
    <3> QED  BY <2>3, <2>4, <3>2, <3>3 DEF Aligned
  <2> QED  BY <2>1, <2>3, <2>4, <2>6 DEF Lined, After
<1>26. ASSUME BcastDies PROVE Lined'
  BY <1>26, <1>0 DEF Lined, Aligned, Placed, Swept, After, BcastDies
<1>27. ASSUME NEW p \in Player, WaitHandler(p) PROVE Lined'
  BY <1>27, <1>0 DEF Lined, Aligned, Placed, Swept, After, WaitHandler
<1>28. ASSUME NEW p \in Player, Press(p) PROVE Lined'
  BY <1>28, LinedSilent DEF Press
<1>29. ASSUME NEW p \in Player, Quit(p) PROVE Lined'
  BY <1>29, LinedSilent DEF Quit
<1>30. ASSUME NEW p \in Player, ReadKey(p) PROVE Lined'
  BY <1>30, LinedSilent DEF ReadKey
<1>31. ASSUME NEW p \in Player, ReadEof(p) PROVE Lined'
  BY <1>31, LinedSilent DEF ReadEof
<1>32. ASSUME NEW p \in Player, Down(p) PROVE Lined'
  BY <1>32, LinedSilent DEF Down
<1>33. ASSUME NEW p \in Player, Test(p) PROVE Lined'
  BY <1>33, LinedSilent DEF Test
<1>34. ASSUME NEW p \in Player, Act(p) PROVE Lined'
  BY <1>34, LinedSilent DEF Act
<1>35. ASSUME NEW p \in Player, Send(p) PROVE Lined'
  BY <1>35, LinedSilent DEF Send
<1>36. ASSUME NEW p \in Player, Return(p) PROVE Lined'
  BY <1>36, LinedSilent DEF Return
<1>37. ASSUME NEW p \in Player, Up(p) PROVE Lined'
  BY <1>37, LinedSilent DEF Up
<1>38. ASSUME NEW p \in Player, SemopFails(p) PROVE Lined'
  BY <1>38, LinedSilent DEF SemopFails
<1>39. ASSUME NEW p \in Player, SendFails(p) PROVE Lined'
  BY <1>39, LinedSilent DEF SendFails
<1>40. ASSUME NEW p \in Player, Terminate(p) PROVE Lined'
  BY <1>40, LinedSilent DEF Terminate
<1>41. ASSUME UNCHANGED vars PROVE Lined'
  BY <1>41, LinedSilent DEF vars
<1> QED  BY <1>2, <1>3, <1>4, <1>5, <1>6, <1>7, <1>8, <1>9, <1>10, <1>11, <1>12, <1>13,
             <1>14, <1>15, <1>16, <1>17, <1>18, <1>19, <1>20, <1>21, <1>22, <1>23, <1>24,
             <1>25, <1>26, <1>27, <1>28, <1>29, <1>30, <1>31, <1>32, <1>33, <1>34, <1>35,
             <1>36, <1>37, <1>38, <1>39, <1>40, <1>41
     DEF Next, ServerStep, Handler, Broadcaster

\* Nothing but load_map changes the state before the game: the handlers are quiet.
LEMMA FreshNext ==
  ASSUME Eager = {}
  PROVE  IInv /\ Typed /\ Sound /\ Fresh /\ [Next]_vars => Fresh'
<1> SUFFICES ASSUME IInv, Typed, Sound, Fresh, [Next]_vars PROVE Fresh'
  OBVIOUS
<1>1. Placed
  BY DEF IInv
<1>2. ASSUME Accept PROVE Fresh'
  BY <1>2 DEF Fresh, Accept
<1>3. ASSUME LoadReset PROVE Fresh'
  BY <1>3 DEF Fresh, LoadReset
<1>4. ASSUME LoadTiles PROVE Fresh'
  <2>1. /\ srv' = "end" /\ state = ResetState
        /\ state' = [state EXCEPT !.map        = Load(Level).map,
                                  !.positions  = Load(Level).positions,
                                  !.food_count = @ + Load(Level).food_count]
    BY <1>4 DEF LoadTiles, Sound
  <2>2. Load(Level).food_count \in Int
    BY LoadTyped, ServerAssumption DEF GameState
  <2> QED  BY <2>1, <2>2 DEF ResetState, Fresh
<1>5. ASSUME LoadEnd PROVE Fresh'
  <2>1. /\ srv = "end"
        /\ state' = [state EXCEPT !.game_over = (state.food_count = 0)] /\ state \in GameState
    BY <1>5 DEF LoadEnd, Typed
  <2> QED  BY <2>1 DEF Fresh, GameState
<1>6. ASSUME SpawnHandler PROVE Fresh'
  BY <1>6 DEF Fresh, SpawnHandler, Loop
<1>7. ASSUME Alarm PROVE Fresh'
  BY <1>7 DEF Fresh, Alarm
<1>8. ASSUME SigPipe PROVE Fresh'
  BY <1>8 DEF Fresh, SigPipe
<1>9. ASSUME Sigint PROVE Fresh'
  BY <1>9 DEF Fresh, Sigint
<1>10. ASSUME SigintInSemop PROVE Fresh'
  BY <1>10 DEF Fresh, SigintInSemop
<1>11. ASSUME Register PROVE Fresh'
  BY <1>11 DEF Fresh, Register, Loop
<1>12. ASSUME ForkBroadcaster PROVE Fresh'
  BY <1>12 DEF Fresh, ForkBroadcaster
<1>13. ASSUME WaitBroadcaster PROVE Fresh'
  BY <1>13 DEF Fresh, WaitBroadcaster
<1>14. ASSUME CloseAndKill PROVE Fresh'
  BY <1>14 DEF Fresh, CloseAndKill, Loop
<1>15. ASSUME ReapHandler PROVE Fresh'
  BY <1>15 DEF Fresh, ReapHandler, Loop
<1>16. ASSUME KillBroadcaster PROVE Fresh'
  BY <1>16 DEF Fresh, KillBroadcaster
<1>17. ASSUME NoBroadcaster PROVE Fresh'
  BY <1>17 DEF Fresh, NoBroadcaster, HangUp
<1>18. ASSUME ReapBroadcaster PROVE Fresh'
  BY <1>18 DEF Fresh, ReapBroadcaster, HangUp
<1>19. ASSUME Lock PROVE Fresh'
  BY <1>19 DEF Fresh, Lock
<1>20. ASSUME Clear PROVE Fresh'
  BY <1>20 DEF Fresh, Clear
<1>21. ASSUME Unlock PROVE Fresh'
  BY <1>21 DEF Fresh, Unlock
<1>22. ASSUME Again PROVE Fresh'
  BY <1>22 DEF Fresh, Again
<1>23. ASSUME BcastRead PROVE Fresh'
  BY <1>23 DEF Fresh, BcastRead
<1>24. ASSUME BcastFirst PROVE Fresh'
  BY <1>24 DEF Fresh, BcastFirst
<1>25. ASSUME BcastSecond PROVE Fresh'
  BY <1>25 DEF Fresh, BcastSecond
<1>26. ASSUME BcastDies PROVE Fresh'
  BY <1>26 DEF Fresh, BcastDies
<1>27. ASSUME NEW p \in Player, WaitHandler(p) PROVE Fresh'
  BY <1>27 DEF Fresh, WaitHandler
<1>28. ASSUME NEW p \in Player, Press(p) PROVE Fresh'
  BY <1>28 DEF Fresh, Press
<1>29. ASSUME NEW p \in Player, Quit(p) PROVE Fresh'
  BY <1>29 DEF Fresh, Quit
<1>30. ASSUME NEW p \in Player, ReadKey(p) PROVE Fresh'
  BY <1>30 DEF Fresh, ReadKey, Goto
<1>31. ASSUME NEW p \in Player, ReadEof(p) PROVE Fresh'
  BY <1>31 DEF Fresh, ReadEof, Goto
<1>32. ASSUME NEW p \in Player, Down(p) PROVE Fresh'
  BY <1>32 DEF Fresh, Down, Goto
<1>33. ASSUME NEW p \in Player, Test(p) PROVE Fresh'
  <2>1. srv \notin {"end", "spawn"} /\ srv' = srv
    BY <1>33 DEF Test, IInv, Quiet
  <2> QED  BY <2>1 DEF Fresh
<1>34. ASSUME NEW p \in Player, Act(p) PROVE Fresh'
  <2>1. srv \notin {"end", "spawn"} /\ srv' = srv
    BY <1>34 DEF Act, IInv, Quiet
  <2> QED  BY <2>1 DEF Fresh
<1>35. ASSUME NEW p \in Player, Send(p) PROVE Fresh'
  BY <1>35 DEF Fresh, Send
<1>36. ASSUME NEW p \in Player, Return(p) PROVE Fresh'
  BY <1>36 DEF Fresh, Return, Goto
<1>37. ASSUME NEW p \in Player, Up(p) PROVE Fresh'
  BY <1>37 DEF Fresh, Up, Goto
<1>38. ASSUME NEW p \in Player, SemopFails(p) PROVE Fresh'
  BY <1>38 DEF Fresh, SemopFails, Goto
<1>39. ASSUME NEW p \in Player, SendFails(p) PROVE Fresh'
  BY <1>39 DEF Fresh, SendFails, Goto
<1>40. ASSUME NEW p \in Player, Terminate(p) PROVE Fresh'
  BY <1>40 DEF Fresh, Terminate, Goto
<1>41. ASSUME UNCHANGED vars PROVE Fresh'
  BY <1>41 DEF vars, Fresh
<1> QED  BY <1>2, <1>3, <1>4, <1>5, <1>6, <1>7, <1>8, <1>9, <1>10, <1>11, <1>12, <1>13,
             <1>14, <1>15, <1>16, <1>17, <1>18, <1>19, <1>20, <1>21, <1>22, <1>23, <1>24,
             <1>25, <1>26, <1>27, <1>28, <1>29, <1>30, <1>31, <1>32, <1>33, <1>34, <1>35,
             <1>36, <1>37, <1>38, <1>39, <1>40, <1>41
     DEF Next, ServerStep, Handler, Broadcaster

\* Both players are told the same, on any map and wherever the broadcaster is stopped:
\* player 2 never lacks more than the message that player 1 has just got.
THEOREM PlayersAgree == ASSUME Eager = {} PROVE Spec => []Agreement
<1>1. IInv /\ Lined => Agreement
  <2> SUFFICES ASSUME Placed, Lined, srv \notin Waiting \cup Gone PROVE Agreement
    BY DEF IInv, Agreement
  <2>1. CASE srv \in {"wait"} \cup Teardown
    BY <2>1 DEF Lined, Aligned, Agreement
  <2>2. CASE srv = "fork"
    <3>1. stream[1] = Opened(1) /\ stream[2] = Opened(2)
      BY <2>2 DEF Lined
    <3>2. Len(stream[1]) \in Nat
      BY DEF Lined
    <3> QED  BY <3>1, <3>2, BothOpened DEF Agreement
  <2>3. CASE srv = "register"
    <3>1. stream[2] = Opening /\ (stream[1] = Opening \/ stream[1] = Opened(1))
      BY <2>3 DEF Lined, Placed
    <3>2. Opening \in Seq(Line) /\ Tag(Registered(1)) \in Line
      BY OpeningLine DEF Tag, Line, Placed
    <3>3. \A i \in DOMAIN stream[2] : stream[1][i] = stream[2][i]
      BY <3>1, <3>2 DEF Opened
    <3>4. Len(stream[2]) \in {Len(stream[1]), Len(stream[1]) - 1}
      BY <3>1, <3>2 DEF Opened
    <3> QED  BY <3>3, <3>4 DEF Agreement, SameLine
  <2>4. CASE srv \in After
    <3>1. stream[1] = << >> /\ stream[2] = << >>
      BY <2>4 DEF Lined
    <3> QED  BY <3>1 DEF Agreement
  <2> QED  BY <2>1, <2>2, <2>3, <2>4 DEF Placed, ServerPC, After
<1>2. Spec => []Lined
  BY AlwaysSound, LinedInit, LinedNext, FreshInit, FreshNext, PTL DEF Spec
<1> QED  BY <1>1, <1>2, AlwaysIInv, PTL

-----------------------------------------------------------------------------
(* Stories: what a message more does to where they lead.                   *)

LEMMA SaidAppended ==
  ASSUME NEW s \in Seq(Line), NEW e \in Line, NEW g, NEW kind
  PROVE  /\ Said(g, Append(s, e), kind)
              = Said(g, s, kind) \cup (IF e.game = g /\ e.m.msgt = kind THEN {Len(s) + 1} ELSE {})
         /\ \A i \in Said(g, s, kind) : Append(s, e)[i] = s[i] /\ i \in 1 .. Len(s)
         /\ Append(s, e)[Len(s) + 1] = e
<1>1. /\ Len(s) \in Nat /\ DOMAIN s = 1 .. Len(s)
      /\ Append(s, e) \in Seq(Line) /\ DOMAIN Append(s, e) = 1 .. Len(s) + 1
      /\ \A i \in 1 .. Len(s) : Append(s, e)[i] = s[i]
      /\ Append(s, e)[Len(s) + 1] = e
  BY AppendProperties, LenProperties
<1>2. 1 .. Len(s) + 1 = (1 .. Len(s)) \cup {Len(s) + 1}
  BY <1>1
<1> QED  BY <1>1, <1>2 DEF Said

\* A line that is no meal leaves the meals as they are.
LEMMA MealsKept ==
  ASSUME NEW s \in Seq(Line), NEW e \in Line, NEW g, ~(e.game = g /\ e.m.msgt = "EAT_FOOD")
  PROVE  /\ EatsOnce(g, s) => EatsOnce(g, Append(s, e))
         /\ Foods(g, Append(s, e)) = Foods(g, s)
<1> DEFINE S == Said(g, s, "EAT_FOOD")
           T == Said(g, Append(s, e), "EAT_FOOD")
           u == Append(s, e)
<1>1. T = S
  <2>1. T = S \cup (IF e.game = g /\ e.m.msgt = "EAT_FOOD" THEN {Len(s) + 1} ELSE {})
    BY SaidAppended
  <2> QED  BY <2>1
<1>2. \A i \in S : u[i] = s[i]
  BY SaidAppended
<1> HIDE DEF S, T, u
<1>3. {u[i].m.food : i \in T} = {s[i].m.food : i \in S}
  BY <1>1, <1>2
<1>4. ASSUME \A i, j \in S : s[i].m.food = s[j].m.food => i = j,
             NEW i \in T, NEW j \in T, u[i].m.food = u[j].m.food
      PROVE  i = j
  BY <1>1, <1>2, <1>4
<1> QED  BY <1>3, <1>4 DEF EatsOnce, Foods, S, T, u

\* A line that is no movement of q leaves q where it is.
LEMMA PlaceKept ==
  ASSUME NEW s \in Seq(Line), NEW e \in Line, NEW g, NEW q, NEW st,
         ~(e.game = g /\ e.m.msgt = "MOVEMENT" /\ e.m.id = PlayerId(q)),
         Locates(g, s, q, st)
  PROVE  Locates(g, Append(s, e), q, st)
<1> DEFINE S == MovesOf(g, s, q)
           T == MovesOf(g, Append(s, e), q)
<1>1. T = S /\ \A i \in S : Append(s, e)[i] = s[i]
  BY SaidAppended DEF MovesOf
<1>2. /\ S = {} => st.positions[q] = Load(Level).positions[q]
      /\ \A i \in S : (\A j \in S : j <= i) => s[i].m.pos = st.positions[q]
  BY DEF Locates
<1> HIDE DEF S, T
<1>3. /\ T = {} => st.positions[q] = Load(Level).positions[q]
      /\ \A i \in T : (\A j \in T : j <= i) => Append(s, e)[i].m.pos = st.positions[q]
  BY <1>1, <1>2
<1> QED  BY <1>3 DEF Locates, T

\* A movement of q puts q where it says.
LEMMA PlaceTold ==
  ASSUME NEW s \in Seq(Line), NEW e \in Line, NEW g, NEW q, NEW st,
         e.game = g /\ e.m.msgt = "MOVEMENT" /\ e.m.id = PlayerId(q),
         e.m.pos = st.positions[q]
  PROVE  Locates(g, Append(s, e), q, st)
<1> DEFINE T == MovesOf(g, Append(s, e), q)
           n == Len(s) + 1
<1>1. n \in T /\ Append(s, e)[n] = e /\ \A i \in T : i \in 1 .. n
  BY SaidAppended, LenProperties DEF MovesOf
<1>2. Len(s) \in Nat
  BY LenProperties
<1> HIDE DEF T
<1>3. \A i \in T : (\A j \in T : j <= i) => i = n
  BY <1>1, <1>2
<1>4. /\ T = {} => st.positions[q] = Load(Level).positions[q]
      /\ \A i \in T : (\A j \in T : j <= i) => Append(s, e)[i].m.pos = st.positions[q]
  BY <1>1, <1>3
<1> QED  BY <1>4 DEF Locates, T

\* A line in which nothing happens, or that comes before the end, leaves the end last.
LEMMA EndStays ==
  ASSUME NEW s \in Seq(Line), NEW e \in Line, NEW g, EndsLast(g, s),
         e.game = g /\ e.m.msgt \in {"MOVEMENT", "EAT_FOOD"} => ~Ended(g, s)
  PROVE  EndsLast(g, Append(s, e))
<1> DEFINE u == Append(s, e)
           n == Len(s)
<1>1. /\ n \in Nat /\ DOMAIN s = 1 .. n /\ DOMAIN u = 1 .. n + 1 /\ u[n + 1] = e
      /\ \A i \in 1 .. n : u[i] = s[i]
  BY AppendProperties, LenProperties
<1> HIDE DEF u, n
<1>2. ASSUME NEW i \in Said(g, u, "GAME_OVER"), NEW j \in DOMAIN u, i < j, u[j].game = g
      PROVE  u[j].m.msgt \notin {"MOVEMENT", "EAT_FOOD"}
  <2>1. i \in 1 .. n /\ i \in Said(g, s, "GAME_OVER")
    BY <1>1, <1>2 DEF Said
  <2>2. CASE j = n + 1
    BY <1>1, <1>2, <2>1, <2>2 DEF Ended
  <2>3. CASE j # n + 1
    BY <1>1, <1>2, <2>1, <2>3 DEF EndsLast
  <2> QED  BY <2>2, <2>3
<1> QED  BY <1>2 DEF EndsLast, u

\* Where a story leads depends on the map and the positions alone.
LEMMA SameBoard ==
  ASSUME NEW s, NEW g, NEW st, NEW after,
         after.map = st.map, after.positions = st.positions, LeadsTo(g, s, st)
  PROVE  LeadsTo(g, s, after)
BY DEF LeadsTo, Locates, Missing

\* A line of another kind, or of another game, changes nothing.
LEMMA LeadsOn ==
  ASSUME NEW s \in Seq(Line), NEW e \in Line, NEW g, NEW st, LeadsTo(g, s, st),
         e.game = g => e.m.msgt \notin {"EAT_FOOD", "MOVEMENT"}
  PROVE  LeadsTo(g, Append(s, e), st)
BY MealsKept, PlaceKept, EndStays DEF LeadsTo

LEMMA PlayerIds == \A p, q \in Player : PlayerId(p) = PlayerId(q) => p = q
<1>1. MAP_SIZE \in Nat
  BY SizeAssumption DEF MAP_SIZE
<1> QED  BY <1>1 DEF PlayerId

LEMMA LeadsMoved ==
  ASSUME NEW s \in Seq(Line), NEW e \in Line, NEW g, NEW st, NEW after, NEW p \in Player, NEW to,
         LeadsTo(g, s, st), ~Ended(g, s), e.game = g, e.m = Moved(p, to),
         st.positions \in [Player -> Position],
         after.map = st.map, after.positions = [st.positions EXCEPT ![p] = to]
  PROVE  LeadsTo(g, Append(s, e), after)
<1>1. e.m.msgt = "MOVEMENT" /\ e.m.id = PlayerId(p) /\ e.m.pos = to
  BY DEF Moved
<1>2. EatsOnce(g, Append(s, e)) /\ Foods(g, Append(s, e)) = Missing(after)
  BY <1>1, MealsKept DEF LeadsTo, Missing
<1>3. Locates(g, Append(s, e), p, after)
  <2>1. after.positions[p] = to
    OBVIOUS
  <2> QED  BY <1>1, <2>1, PlaceTold
<1>4. ASSUME NEW q \in Player, q # p PROVE Locates(g, Append(s, e), q, after)
  <2>1. Locates(g, Append(s, e), q, st)
    BY <1>1, <1>4, PlayerIds, PlaceKept DEF LeadsTo
  <2>2. after.positions[q] = st.positions[q]
    BY <1>4
  <2> QED  BY <2>1, <2>2 DEF Locates
<1>5. EndsLast(g, Append(s, e))
  BY EndStays DEF LeadsTo
<1> QED  BY <1>2, <1>3, <1>4, <1>5 DEF LeadsTo

\* The identifier of a piece of food is its cell.
LEMMA FoodId ==
  ASSUME NEW to \in Position, NEW item \in Edible
  PROVE  Id(to.x, to.y, item) = Position2Index(to)
<1>1. to.y * WIDTH + to.x \in Int
  BY SizeAssumption DEF Position
<1> QED  BY <1>1 DEF Id, BaseId, Edible, Position2Index

LEMMA LeadsEaten ==
  ASSUME NEW s \in Seq(Line), NEW e \in Line, NEW g, NEW st, NEW after,
         NEW p \in Player, NEW to \in Position, NEW item \in Edible,
         LeadsTo(g, s, st), ~Ended(g, s), e.game = g, e.m = Eaten(p, to, item),
         st.map \in [Cells -> Item],
         EdibleCells(st.map) \subseteq EdibleCells(Load(Level).map),
         st.map[Position2Index(to)] = item,
         after.map = [st.map EXCEPT ![Position2Index(to)] = "FLOOR"],
         after.positions = st.positions
  PROVE  LeadsTo(g, Append(s, e), after)
<1> DEFINE c == Position2Index(to)
           S == Said(g, s, "EAT_FOOD")
           T == Said(g, Append(s, e), "EAT_FOOD")
           n == Len(s) + 1
           u == Append(s, e)
<1>1. c \in Cells /\ e.m.msgt = "EAT_FOOD" /\ e.m.food = c
  BY IndexInCells, FoodId DEF Eaten
<1>2. T = S \cup {n} /\ (\A i \in S : u[i] = s[i] /\ i \in 1 .. Len(s)) /\ u[n] = e
  BY <1>1, SaidAppended
<1>3. c \in EdibleCells(st.map) /\ EdibleCells(after.map) = EdibleCells(st.map) \ {c}
  BY <1>1, EatenCell
<1>4. c \notin Missing(st) /\ Missing(after) = Missing(st) \cup {c}
  BY <1>3 DEF Missing
<1>5. \A i \in S : s[i].m.food # c
  BY <1>4 DEF LeadsTo, Foods
<1>6. \A i, j \in S : s[i].m.food = s[j].m.food => i = j
  BY DEF LeadsTo, EatsOnce
<1>7. {s[i].m.food : i \in S} = Missing(st)
  BY DEF LeadsTo, Foods
<1>8. ASSUME NEW q \in Player PROVE Locates(g, u, q, after)
  <2>1. Locates(g, u, q, st)
    BY <1>1, PlaceKept DEF LeadsTo
  <2> QED  BY <2>1 DEF Locates
<1>9. EndsLast(g, u)
  BY EndStays DEF LeadsTo
<1> HIDE DEF c, S, T, n, u
<1>10. {u[i].m.food : i \in T} = Missing(after)
  BY <1>1, <1>2, <1>4, <1>7
<1>11. \A i, j \in T : u[i].m.food = u[j].m.food => i = j
  BY <1>1, <1>2, <1>5, <1>6
<1> QED  BY <1>8, <1>9, <1>10, <1>11 DEF LeadsTo, EatsOnce, Foods, T, u

LEMMA EndKept ==
  ASSUME NEW s \in Seq(Line), NEW e \in Line, NEW g
  PROVE  Ended(g, Append(s, e)) <=> Ended(g, s) \/ (e.game = g /\ e.m.msgt = "GAME_OVER")
BY SaidAppended DEF Ended

-----------------------------------------------------------------------------
(* Stories as the concatenation of what lies between handler and client.   *)

LEMMA HeadFirst ==
  ASSUME NEW S, NEW s \in Seq(S), s # << >>
  PROVE  /\ Head(s) \in S /\ Tail(s) \in Seq(S)
         /\ s = <<Head(s)>> \o Tail(s)
<1>1. /\ Head(s) \in S /\ Tail(s) \in Seq(S) /\ Len(Tail(s)) = Len(s) - 1 /\ Len(s) \in Nat
      /\ \A i \in 1 .. Len(Tail(s)) : Tail(s)[i] = s[i + 1]
      /\ Len(s) > 0
  BY HeadTailProperties, LenProperties, EmptySeq
<1> DEFINE h == Head(s)
           t == Tail(s)
           u == <<h>>
<1>2. u \in Seq(S) /\ Len(u) = 1 /\ u[1] = h /\ h = s[1]
  BY <1>1
<1> HIDE DEF h, t, u
<1>3. /\ u \o t \in Seq(S) /\ Len(u \o t) = Len(s)
      /\ \A i \in 1 .. Len(s) : (u \o t)[i] = IF i <= 1 THEN u[i] ELSE t[i - 1]
  <2>1. t \in Seq(S) /\ Len(t) = Len(s) - 1
    BY <1>1 DEF t
  <2>2. /\ u \o t \in Seq(S) /\ Len(u \o t) = Len(u) + Len(t)
        /\ \A i \in 1 .. Len(u) + Len(t) :
             (u \o t)[i] = IF i <= Len(u) THEN u[i] ELSE t[i - Len(u)]
    BY <1>2, <2>1, ConcatProperties
  <2> QED  BY <1>1, <1>2, <2>1, <2>2
<1>4. \A i \in 1 .. Len(s) : (u \o t)[i] = s[i]
  BY <1>1, <1>2, <1>3 DEF t
<1>5. u \o t = s
  BY <1>3, <1>4, SeqEqual
<1> QED  BY <1>1, <1>5 DEF u, h, t

\* One message moves on: from the pipe to the buffer, from there to a client.
LEMMA MovesOn ==
  ASSUME NEW S, NEW a \in Seq(S), NEW b \in Seq(S), NEW e \in S
  PROVE  /\ (a \o << >>) \o b = a \o b
         /\ (Append(a, e) \o << >>) \o b = (a \o <<e>>) \o b
         /\ (a \o <<e>>) \o b = a \o (<<e>> \o b)
<1>1. <<e>> \in Seq(S) /\ Append(a, e) \in Seq(S)
  OBVIOUS
<1>2. Append(a, e) = a \o <<e>>
  BY AppendIsConcat
<1>3. (a \o <<e>>) \o b = a \o (<<e>> \o b)
  BY <1>1, ConcatAssociative
<1>4. a \o << >> = a /\ Append(a, e) \o << >> = Append(a, e)
  BY <1>1, ConcatEmptySeq
<1> QED  BY <1>2, <1>3, <1>4

\* A message moves from a handler into the pipe.
LEMMA MovesIn ==
  ASSUME NEW a \in Seq(Line), NEW b \in Seq(Line), NEW c \in Seq(Line), NEW e \in Line
  PROVE  (a \o Append(b, e)) \o c = (a \o b) \o (<<e>> \o c)
<1>1. /\ <<e>> \in Seq(Line) /\ b \o <<e>> \in Seq(Line)
      /\ a \o b \in Seq(Line) /\ <<e>> \o c \in Seq(Line)
  OBVIOUS
<1>2. Append(b, e) = b \o <<e>>
  BY AppendIsConcat
<1>3. a \o (b \o <<e>>) = (a \o b) \o <<e>>
  BY <1>1, ConcatAssociative
<1>4. ((a \o b) \o <<e>>) \o c = (a \o b) \o (<<e>> \o c)
  BY <1>1, ConcatAssociative
<1> QED  BY <1>2, <1>3, <1>4

LEMMA MarkedLine ==
  ASSUME NEW g \in Nat, NEW ms \in Seq(Message)
  PROVE  /\ Marked(g, ms) \in Seq(Line)
         /\ ms = << >> => Marked(g, ms) = << >>
         /\ ms # << >> =>
              /\ [game |-> g, m |-> Head(ms)] \in Line
              /\ Marked(g, ms) = <<[game |-> g, m |-> Head(ms)]>> \o Marked(g, Tail(ms))
<1>1. \A m \in Message : [game |-> g, m |-> m] \in Line
  BY DEF Line
<1>2. ASSUME NEW t \in Seq(Message)
      PROVE  /\ Marked(g, t) \in Seq(Line) /\ Len(Marked(g, t)) = Len(t)
             /\ \A i \in 1 .. Len(t) : Marked(g, t)[i] = [game |-> g, m |-> t[i]]
  <2>1. DOMAIN t = 1 .. Len(t) /\ Len(t) \in Nat /\ \A i \in 1 .. Len(t) : t[i] \in Message
    BY <1>2
  <2>2. Marked(g, t) = [i \in 1 .. Len(t) |-> [game |-> g, m |-> t[i]]]
    BY <2>1 DEF Marked
  <2> QED  BY <1>1, <2>1, <2>2
<1>3. ASSUME ms = << >> PROVE Marked(g, ms) = << >>
  <2>1. Len(Marked(g, ms)) = 0 /\ Marked(g, ms) \in Seq(Line)
    BY <1>2, <1>3
  <2> QED  BY <2>1
<1>4. ASSUME ms # << >>
      PROVE  /\ [game |-> g, m |-> Head(ms)] \in Line
             /\ Marked(g, ms) = <<[game |-> g, m |-> Head(ms)]>> \o Marked(g, Tail(ms))
  <2>1. Head(ms) \in Message /\ Tail(ms) \in Seq(Message) /\ Len(Tail(ms)) = Len(ms) - 1
        /\ (\A i \in 1 .. Len(Tail(ms)) : Tail(ms)[i] = ms[i + 1]) /\ Head(ms) = ms[1]
        /\ Len(ms) \in Nat /\ Len(ms) > 0
    BY <1>4, HeadTailProperties, LenProperties, EmptySeq
  <2> DEFINE e == [game |-> g, m |-> Head(ms)]
             u == <<e>>
             r == Marked(g, Tail(ms))
             w == Marked(g, ms)
  <2>2. /\ e \in Line /\ u \in Seq(Line) /\ Len(u) = 1 /\ u[1] = e
        /\ r \in Seq(Line) /\ Len(r) = Len(ms) - 1
        /\ w \in Seq(Line) /\ Len(w) = Len(ms)
    <3>1. e \in Line
      BY <1>1, <2>1
    <3>2. u \in Seq(Line) /\ Len(u) = 1 /\ u[1] = e
      BY <3>1
    <3>3. r \in Seq(Line) /\ Len(r) = Len(ms) - 1
      BY <1>2, <2>1
    <3>4. w \in Seq(Line) /\ Len(w) = Len(ms)
      BY <1>2
    <3> QED  BY <3>1, <3>2, <3>3, <3>4
  <2>3. /\ w[1] = e
        /\ \A i \in 2 .. Len(ms) : w[i] = r[i - 1]
    <3>1. w[1] = [game |-> g, m |-> ms[1]]
      BY <1>2, <2>1
    <3>2. ASSUME NEW i \in 2 .. Len(ms) PROVE w[i] = r[i - 1]
      <4>1. i \in 1 .. Len(ms) /\ i - 1 \in 1 .. Len(Tail(ms)) /\ (i - 1) + 1 = i
        BY <2>1, <3>2
      <4>2. w[i] = [game |-> g, m |-> ms[i]] /\ r[i - 1] = [game |-> g, m |-> Tail(ms)[i - 1]]
        BY <1>2, <2>1, <4>1
      <4>3. Tail(ms)[i - 1] = ms[i]
        BY <2>1, <4>1
      <4> QED  BY <4>2, <4>3
    <3> QED  BY <2>1, <3>1, <3>2
  <2> HIDE DEF e, u, r, w
  <2>4. /\ u \o r \in Seq(Line) /\ Len(u \o r) = Len(w)
        /\ \A i \in 1 .. Len(w) : (u \o r)[i] = IF i <= 1 THEN u[i] ELSE r[i - 1]
    <3>1. u \in Seq(Line) /\ r \in Seq(Line)
      BY <2>2
    <3>2. /\ u \o r \in Seq(Line) /\ Len(u \o r) = Len(u) + Len(r)
          /\ \A i \in 1 .. Len(u) + Len(r) :
               (u \o r)[i] = IF i <= Len(u) THEN u[i] ELSE r[i - Len(u)]
      BY <3>1, ConcatProperties
    <3> QED  BY <2>1, <2>2, <3>2
  <2>5. \A i \in 1 .. Len(w) : (u \o r)[i] = w[i]
    BY <2>1, <2>2, <2>3, <2>4
  <2>6. u \o r = w
    BY <2>2, <2>4, <2>5, SeqEqual
  <2> QED  BY <2>2, <2>6 DEF e, u, r, w
<1> QED  BY <1>2, <1>3, <1>4

\* Where each part of a story comes from.
LEMMA StoryParts ==
  ASSUME Placed, Typed, Lined, NEW p \in Player
  PROVE  /\ stream[p] \in Seq(Line) /\ Held(p) \in Seq(Line) /\ pipe \in Seq(Line)
         /\ Underway(p) \in Seq(Line)
         /\ \A q \in Player : Marked(game, todo[q]) \in Seq(Line)
         /\ Story(p) \in Seq(Line)
<1>1. \A e \in Tagged : e \in Line
  BY DEF Tagged, Line
<1>2. stream[p] \in Seq(Line) /\ pipe \in Seq(Line)
  BY <1>1 DEF Lined, Typed
<1>3. Held(p) \in Seq(Line)
  <2>1. << >> \in Seq(Line)
    OBVIOUS
  <2>2. ASSUME msg \in Tagged PROVE <<msg>> \in Seq(Line)
    BY <1>1, <2>2
  <2> QED  BY <2>1, <2>2 DEF Held, Typed
<1>4. \A q \in Player : Marked(game, todo[q]) \in Seq(Line)
  BY MarkedLine DEF Typed, Placed
<1>5. Underway(p) \in Seq(Line)
  BY <1>2, <1>3 DEF Underway
<1>6. Story(p) \in Seq(Line)
  BY <1>4, <1>5 DEF Story
<1> QED  BY <1>2, <1>3, <1>4, <1>5, <1>6

\* Without anything left to write, or with one handler that has.
LEMMA StoryRests ==
  ASSUME Placed, Typed, Lined, NEW p \in Player
  PROVE  /\ todo[1] = << >> => Story(p) = Underway(p) \o Marked(game, todo[2])
         /\ todo[2] = << >> => Story(p) = Underway(p) \o Marked(game, todo[1])
         /\ todo[1] = << >> /\ todo[2] = << >> => Story(p) = Underway(p)
<1> DEFINE m1 == Marked(game, todo[1])
           m2 == Marked(game, todo[2])
           u  == Underway(p)
<1>1. /\ m1 \in Seq(Line) /\ m2 \in Seq(Line) /\ u \in Seq(Line)
      /\ todo[1] = << >> => m1 = << >>
      /\ todo[2] = << >> => m2 = << >>
  BY StoryParts, MarkedLine DEF Typed, Placed
<1>2. Story(p) = u \o (m1 \o m2)
  BY DEF Story
<1> HIDE DEF m1, m2, u
<1>3. << >> \o m2 = m2 /\ m1 \o << >> = m1 /\ u \o << >> = u
  BY <1>1, ConcatEmptySeq
<1> QED  BY <1>1, <1>2, <1>3 DEF m1, m2, u

\* The broadcaster moves a message from the pipe to its buffer and from there to each of
\* the clients: no story changes.
LEMMA BroadcasterTellsOn ==
  ASSUME Placed, Typed, Lined, BcastRead \/ BcastFirst \/ BcastSecond, NEW p \in Player
  PROVE  Story(p)' = Story(p)
<1> DEFINE s == stream[p]
<1>1. /\ s \in Seq(Line) /\ pipe \in Seq(Line)
      /\ bpc \in {"write", "writing"} => msg \in Line
  BY StoryParts DEF Typed, Tagged, Line
<1>2. game' = game /\ todo' = todo
  BY DEF BcastRead, BcastFirst, BcastSecond
<1>3. CASE BcastRead
  <2>1. Underway(p) = (s \o << >>) \o pipe
    BY <1>3 DEF BcastRead, Underway, Held
  <2>2. Underway(p)' = (s \o <<Head(pipe)>>) \o Tail(pipe)
    BY <1>3 DEF BcastRead, Underway, Held
  <2>3. pipe # << >>
    BY <1>3 DEF BcastRead
  <2> HIDE DEF s
  <2>4. Head(pipe) \in Line /\ Tail(pipe) \in Seq(Line) /\ pipe = <<Head(pipe)>> \o Tail(pipe)
    BY <1>1, <2>3, HeadFirst
  <2>5. (s \o << >>) \o pipe = s \o pipe
    BY <1>1, ConcatEmptySeq
  <2>6. (s \o <<Head(pipe)>>) \o Tail(pipe) = s \o pipe
    <3>1. PICK h, t : h = Head(pipe) /\ t = Tail(pipe)
      OBVIOUS
    <3>2. (s \o <<h>>) \o t = s \o (<<h>> \o t)
      BY <1>1, <2>4, <3>1, MovesOn
    <3> QED  BY <2>4, <3>1, <3>2
  <2>7. Underway(p)' = Underway(p)
    BY <2>1, <2>2, <2>5, <2>6
  <2> QED  BY <1>2, <2>7 DEF Story
<1>4. CASE BcastFirst \/ BcastSecond
  <2>1. /\ bpc \in {"write", "writing"} /\ pipe' = pipe
        /\ Held(p) = << >> \/ Held(p) = <<msg>>
    BY <1>4 DEF BcastFirst, BcastSecond, Held
  <2>2. \/ Held(p)' = Held(p) /\ stream'[p] = s
        \/ Held(p) = <<msg>> /\ Held(p)' = << >> /\ stream'[p] = Append(s, msg)
    BY <1>4 DEF BcastFirst, BcastSecond, Deliver, Held, Lined
  <2>3. Underway(p) = (s \o Held(p)) \o pipe /\ Underway(p)' = (stream'[p] \o Held(p)') \o pipe
    BY <2>1 DEF Underway
  <2>4. Underway(p)' = Underway(p)
    <3> HIDE DEF s
    <3>1. CASE Held(p)' = Held(p) /\ stream'[p] = s
      BY <2>3, <3>1
    <3>2. CASE Held(p) = <<msg>> /\ Held(p)' = << >> /\ stream'[p] = Append(s, msg)
      <4>1. (Append(s, msg) \o << >>) \o pipe = (s \o <<msg>>) \o pipe
        BY <1>1, <2>1, MovesOn
      <4> QED  BY <2>3, <3>2, <4>1
    <3> QED  BY <2>2, <3>1, <3>2
  <2> QED  BY <1>2, <2>4 DEF Story
<1> QED  BY <1>3, <1>4

\* Who is inside is alone with something to write.
LEMMA AloneInside ==
  ASSUME Placed, Exclusive, Tidy, srv \notin Gone,
         NEW p \in Player, hpc[p] \in Critical, NEW q \in Player, q # p
  PROVE  todo[q] = << >> /\ hpc[q] \notin Critical
BY DEF Placed, Exclusive, Tidy, Critical

\* A handler moves a message into the pipe: no story changes.
LEMMA HandlerTellsOn ==
  ASSUME Placed, Exclusive, Typed, Lined, Tidy, srv \notin Gone,
         NEW h \in Player, Send(h), NEW p \in Player
  PROVE  Story(p)' = Story(p)
<1> DEFINE ms == todo[h]
           e  == Tag(Head(ms))
           r  == Marked(game, Tail(ms))
           w  == stream[p] \o Held(p)
<1>1. /\ ms # << >> /\ hpc[h] \in Critical /\ UNCHANGED <<game, stream, bpc, msg>>
      /\ pipe' = Append(pipe, e) /\ todo' = [todo EXCEPT ![h] = Tail(ms)]
  BY DEF Send, Critical
<1>2. /\ ms \in Seq(Message) /\ game \in Nat
  BY DEF Typed, Placed
<1>3. e \in Line /\ Marked(game, ms) = <<e>> \o r /\ r \in Seq(Line)
  <2>1. Tail(ms) \in Seq(Message)
    BY <1>1, <1>2, HeadFirst
  <2> QED  BY <1>1, <1>2, <2>1, MarkedLine DEF Tag
<1>4. w \in Seq(Line) /\ pipe \in Seq(Line)
  BY StoryParts
<1>5. /\ Underway(p) = w \o pipe
      /\ Underway(p)' = w \o Append(pipe, e)
  BY <1>1 DEF Underway, Held
<1>6. Story(p) = (w \o pipe) \o Marked(game, ms)
  <2>1. \A q \in Player : q # h => todo[q] = << >>
    BY <1>1, AloneInside
  <2>2. CASE h = 1
    <3>1. todo[2] = << >>
      BY <2>1, <2>2
    <3>2. Story(p) = Underway(p) \o Marked(game, todo[1])
      BY <3>1, StoryRests
    <3> QED  BY <1>5, <2>2, <3>2
  <2>3. CASE h = 2
    <3>1. todo[1] = << >>
      BY <2>1, <2>3
    <3>2. Story(p) = Underway(p) \o Marked(game, todo[2])
      BY <3>1, StoryRests
    <3> QED  BY <1>5, <2>3, <3>2
  <2> QED  BY <2>2, <2>3
<1>7. Story(p)' = (w \o Append(pipe, e)) \o r
  <2>1. \A q \in Player : q # h => Marked(game', todo'[q]) = << >>
    BY <1>1, <1>2, AloneInside, MarkedLine DEF Typed
  <2>2. Marked(game', todo'[h]) = r
    BY <1>1 DEF Typed
  <2>3. Story(p)' = Underway(p)' \o (Marked(game', todo'[1]) \o Marked(game', todo'[2]))
    BY DEF Story
  <2> HIDE DEF r, w, e, ms
  <2>4. << >> \o r = r /\ r \o << >> = r
    BY <1>3, ConcatEmptySeq
  <2>5. Marked(game', todo'[1]) \o Marked(game', todo'[2]) = r
    <3>1. CASE h = 1
      <4>1. Marked(game', todo'[1]) = r
        BY <2>2, <3>1
      <4>2. Marked(game', todo'[2]) = << >>
        BY <2>1, <3>1
      <4> QED  BY <2>4, <4>1, <4>2
    <3>2. CASE h = 2
      <4>1. Marked(game', todo'[2]) = r
        BY <2>2, <3>2
      <4>2. Marked(game', todo'[1]) = << >>
        BY <2>1, <3>2
      <4> QED  BY <2>4, <4>1, <4>2
    <3> QED  BY <3>1, <3>2
  <2> QED  BY <1>5, <2>3, <2>5
<1> HIDE DEF ms, e, r, w
<1>8. (w \o Append(pipe, e)) \o r = (w \o pipe) \o (<<e>> \o r)
  <2>1. e \in Line /\ r \in Seq(Line)
    BY <1>3
  <2>2. PICK a, b, c, x : a = w /\ b = pipe /\ c = r /\ x = e
    OBVIOUS
  <2>3. a \in Seq(Line) /\ b \in Seq(Line) /\ c \in Seq(Line) /\ x \in Line
    BY <1>4, <2>1, <2>2
  <2>4. (a \o Append(b, x)) \o c = (a \o b) \o (<<x>> \o c)
    BY <2>3, MovesIn
  <2> QED  BY <2>2, <2>4
<1> QED  BY <1>3, <1>6, <1>7, <1>8

\* A handler that has nothing to write has now: every story gets longer.
LEMMA StoryGrows ==
  ASSUME Placed, Typed, Lined, NEW h \in Player, \A q \in Player : todo[q] = << >>,
         NEW ms \in Seq(Message), todo' = [todo EXCEPT ![h] = ms],
         UNCHANGED <<game, stream, bpc, msg, pipe>>, NEW p \in Player
  PROVE  Story(p)' = Story(p) \o Marked(game, ms)
<1>1. Story(p) = Underway(p) /\ Underway(p)' = Underway(p)
  BY StoryRests DEF Underway, Held
<1>2. /\ \A q \in Player : q # h => todo'[q] = << >>
      /\ todo'[h] = ms
  BY DEF Typed
<1>3. << >> \in Seq(Message) /\ game \in Nat
  BY DEF Placed
<1>4. /\ \A q \in Player : q # h => Marked(game', todo'[q]) = << >>
      /\ Marked(game', todo'[h]) = Marked(game, ms) /\ Marked(game, ms) \in Seq(Line)
  BY <1>2, <1>3, MarkedLine
<1>5. Marked(game', todo'[1]) \o Marked(game', todo'[2]) = Marked(game, ms)
  <2>1. PICK r : r = Marked(game, ms)
    OBVIOUS
  <2>2. << >> \o r = r /\ r \o << >> = r
    BY <1>4, <2>1, ConcatEmptySeq
  <2> QED  BY <1>4, <2>1, <2>2
<1> QED  BY <1>1, <1>5 DEF Story

\* One message more, or two.
LEMMA GrowsBy ==
  ASSUME NEW s \in Seq(Line), NEW g \in Nat, NEW a \in Message, NEW b \in Message
  PROVE  /\ [game |-> g, m |-> a] \in Line /\ [game |-> g, m |-> b] \in Line
         /\ s \o Marked(g, << >>) = s
         /\ s \o Marked(g, <<a>>) = Append(s, [game |-> g, m |-> a])
         /\ s \o Marked(g, <<a, b>>)
              = Append(Append(s, [game |-> g, m |-> a]), [game |-> g, m |-> b])
<1> DEFINE e == [game |-> g, m |-> a]
           f == [game |-> g, m |-> b]
<1>1. e \in Line /\ f \in Line
  BY DEF Line
<1>2. Marked(g, << >>) = << >>
  <2>1. << >> \in Seq(Message)
    OBVIOUS
  <2> QED  BY <2>1, MarkedLine
<1>3. Marked(g, <<a>>) = <<e>>
  BY DEF Marked
<1>4. Marked(g, <<a, b>>) = <<e>> \o <<f>>
  <2>1. PICK ms : ms = <<a, b>>
    OBVIOUS
  <2>2. ms \in Seq(Message) /\ ms # << >> /\ Head(ms) = a /\ Tail(ms) = <<b>>
    BY <2>1
  <2>3. Marked(g, <<b>>) = <<f>>
    BY DEF Marked
  <2> QED  BY <2>1, <2>2, <2>3, MarkedLine
<1> HIDE DEF e, f
<1>5. /\ Append(s, e) = s \o <<e>>
      /\ Append(Append(s, e), f) = Append(s, e) \o <<f>>
      /\ (s \o <<e>>) \o <<f>> = s \o (<<e>> \o <<f>>)
  <2>1. <<e>> \in Seq(Line) /\ <<f>> \in Seq(Line) /\ Append(s, e) \in Seq(Line)
    BY <1>1
  <2>2. Append(s, e) = s \o <<e>>
    BY <1>1, AppendIsConcat
  <2>3. Append(Append(s, e), f) = Append(s, e) \o <<f>>
    BY <1>1, <2>1, AppendIsConcat
  <2>4. (s \o <<e>>) \o <<f>> = s \o (<<e>> \o <<f>>)
    BY <2>1, ConcatAssociative
  <2> QED  BY <2>2, <2>3, <2>4
<1>6. s \o << >> = s
  BY ConcatEmptySeq
<1> QED  BY <1>1, <1>2, <1>3, <1>4, <1>5, <1>6 DEF e, f

-----------------------------------------------------------------------------
(* The registration comes in before what the other player has done.        *)

\* The story t is s with a registration more, h telling where each line has gone.
Respaced(h, s, t) ==
  /\ \A i \in DOMAIN s : h[i] \in DOMAIN t /\ t[h[i]] = s[i]
  /\ \A i, j \in DOMAIN s : i <= j <=> h[i] <= h[j]
  /\ \A j \in DOMAIN t : (\E i \in DOMAIN s : j = h[i]) \/ t[j].m.msgt = "REGISTRATION"

LEMMA RespacedLeads ==
  ASSUME NEW s \in Seq(Line), NEW t \in Seq(Line), NEW g, NEW st, NEW h, Respaced(h, s, t)
  PROVE  /\ LeadsTo(g, s, st) => LeadsTo(g, t, st)
         /\ Ended(g, t) <=> Ended(g, s)
<1> USE DEF Respaced
<1>1. ASSUME NEW kind, kind # "REGISTRATION", NEW j
      PROVE  j \in Said(g, t, kind) <=> \E i \in Said(g, s, kind) : j = h[i]
  BY <1>1 DEF Said
<1>2. \A i, j \in DOMAIN s : h[i] = h[j] => i = j
  <2>1. \A i \in DOMAIN s : i \in Int /\ h[i] \in Int
    BY LenProperties
  <2> QED  BY <2>1
<1>3. Ended(g, t) <=> Ended(g, s)
  BY <1>1 DEF Ended
<1>4. ASSUME LeadsTo(g, s, st) PROVE EatsOnce(g, t) /\ Foods(g, t) = Missing(st)
  <2> DEFINE S == Said(g, s, "EAT_FOOD")
             T == Said(g, t, "EAT_FOOD")
  <2>1. /\ \A j : j \in T <=> \E i \in S : j = h[i]
        /\ \A i \in S : i \in DOMAIN s /\ t[h[i]] = s[i]
    <3>1. \A j : j \in T <=> \E i \in S : j = h[i]
      BY <1>1
    <3> QED  BY <3>1 DEF Said
  <2>2. /\ \A i, j \in S : s[i].m.food = s[j].m.food => i = j
        /\ {s[i].m.food : i \in S} = Missing(st)
    BY <1>4 DEF LeadsTo, EatsOnce, Foods
  <2> HIDE DEF S, T
  <2>3. \A i, j \in T : t[i].m.food = t[j].m.food => i = j
    BY <2>1, <2>2
  <2>4. {t[i].m.food : i \in T} = Missing(st)
    BY <2>1, <2>2
  <2> QED  BY <2>3, <2>4 DEF EatsOnce, Foods, T
<1>5. ASSUME LeadsTo(g, s, st), NEW q \in Player PROVE Locates(g, t, q, st)
  <2> DEFINE S == MovesOf(g, s, q)
             T == MovesOf(g, t, q)
  <2>1. /\ \A j : j \in T <=> \E i \in S : j = h[i]
        /\ \A i \in S : i \in DOMAIN s /\ t[h[i]] = s[i]
    <3>1. \A j : j \in Said(g, t, "MOVEMENT") <=> \E i \in Said(g, s, "MOVEMENT") : j = h[i]
      BY <1>1
    <3> QED  BY <3>1 DEF MovesOf, Said
  <2>2. /\ S = {} => st.positions[q] = Load(Level).positions[q]
        /\ \A i \in S : (\A j \in S : j <= i) => s[i].m.pos = st.positions[q]
    BY <1>5 DEF LeadsTo, Locates
  <2> HIDE DEF S, T
  <2>3. T = {} => S = {}
    BY <2>1
  <2>4. ASSUME NEW k \in T, \A j \in T : j <= k PROVE t[k].m.pos = st.positions[q]
    <3>1. PICK i \in S : k = h[i]
      BY <2>1
    <3>2. \A j \in S : j <= i
      BY <2>1, <2>4, <3>1
    <3> QED  BY <2>1, <2>2, <3>1, <3>2
  <2>5. /\ T = {} => st.positions[q] = Load(Level).positions[q]
        /\ \A k \in T : (\A j \in T : j <= k) => t[k].m.pos = st.positions[q]
    BY <2>2, <2>3, <2>4
  <2> QED  BY <2>5 DEF Locates, T
<1>6. ASSUME LeadsTo(g, s, st) PROVE EndsLast(g, t)
  <2>1. ASSUME NEW k \in Said(g, t, "GAME_OVER"), NEW l \in DOMAIN t, k < l, t[l].game = g,
               t[l].m.msgt \in {"MOVEMENT", "EAT_FOOD"}
        PROVE  FALSE
    <3>1. PICK i \in Said(g, s, "GAME_OVER") : k = h[i]
      BY <1>1, <2>1
    <3>2. PICK j \in DOMAIN s : l = h[j] /\ t[l] = s[j]
      BY <2>1
    <3>3. /\ i \in DOMAIN s /\ DOMAIN s \subseteq Int /\ DOMAIN t \subseteq Int
          /\ h[i] \in DOMAIN t /\ h[j] \in DOMAIN t
      BY LenProperties DEF Said
    <3>4. i < j
      BY <2>1, <3>1, <3>2, <3>3
    <3> QED  BY <1>6, <2>1, <3>1, <3>2, <3>4 DEF LeadsTo, EndsLast
  <2> QED  BY <2>1 DEF EndsLast
<1> QED  BY <1>3, <1>4, <1>5, <1>6 DEF LeadsTo

LEMMA RegistrationLeads ==
  ASSUME NEW a \in Seq(Line), NEW b \in Seq(Line), NEW e \in Line, NEW g, NEW st,
         e.m.msgt = "REGISTRATION"
  PROVE  /\ LeadsTo(g, a \o b, st) => LeadsTo(g, Append(a, e) \o b, st)
         /\ Ended(g, Append(a, e) \o b) <=> Ended(g, a \o b)
<1> DEFINE c == Append(a, e)
           s == a \o b
           t == c \o b
           n == Len(a)
           h == [i \in DOMAIN s |-> IF i <= n THEN i ELSE i + 1]
<1>1. /\ c \in Seq(Line) /\ Len(c) = n + 1 /\ n \in Nat /\ Len(b) \in Nat
      /\ c[n + 1] = e /\ \A i \in 1 .. n : c[i] = a[i]
  BY AppendProperties, LenProperties
<1> HIDE DEF c
<1>2. /\ s \in Seq(Line) /\ DOMAIN s = 1 .. n + Len(b)
      /\ \A i \in 1 .. n + Len(b) : s[i] = IF i <= n THEN a[i] ELSE b[i - n]
  <2>1. s \in Seq(Line) /\ Len(s) = n + Len(b)
    BY ConcatProperties
  <2>2. DOMAIN s = 1 .. n + Len(b)
    BY <2>1, LenProperties
  <2> QED  BY <2>1, <2>2, ConcatProperties
<1>3. /\ t \in Seq(Line) /\ DOMAIN t = 1 .. (n + 1) + Len(b)
      /\ \A i \in 1 .. (n + 1) + Len(b) : t[i] = IF i <= n + 1 THEN c[i] ELSE b[i - (n + 1)]
  <2>1. /\ t \in Seq(Line) /\ Len(t) = Len(c) + Len(b)
        /\ \A i \in 1 .. Len(c) + Len(b) : t[i] = IF i <= Len(c) THEN c[i] ELSE b[i - Len(c)]
    BY <1>1, ConcatProperties
  <2>2. DOMAIN t = 1 .. Len(t)
    BY <2>1, LenProperties
  <2> QED  BY <1>1, <2>1, <2>2
<1>4. /\ DOMAIN h = DOMAIN s
      /\ \A i \in DOMAIN s : h[i] = IF i <= n THEN i ELSE i + 1
  OBVIOUS
<1> HIDE DEF s, t, n, h
<1>5. ASSUME NEW i \in DOMAIN s PROVE h[i] \in DOMAIN t /\ t[h[i]] = s[i]
  <2>1. CASE i <= n
    BY <1>1, <1>2, <1>3, <1>4, <2>1
  <2>2. CASE ~(i <= n)
    <3>1. h[i] = i + 1 /\ i \in 1 .. n + Len(b) /\ i > n /\ (i + 1) - (n + 1) = i - n
      BY <1>1, <1>2, <1>4, <2>2
    <3>2. t[i + 1] = b[(i + 1) - (n + 1)] /\ i + 1 \in DOMAIN t
      BY <1>1, <1>3, <3>1
    <3> QED  BY <1>2, <2>2, <3>1, <3>2
  <2> QED  BY <2>1, <2>2
<1>6. \A i, j \in DOMAIN s : i <= j <=> h[i] <= h[j]
  BY <1>1, <1>2, <1>4
<1>7. ASSUME NEW j \in DOMAIN t
      PROVE  (\E i \in DOMAIN s : j = h[i]) \/ t[j].m.msgt = "REGISTRATION"
  <2>1. CASE j <= n
    <3>1. j \in DOMAIN s /\ h[j] = j
      BY <1>1, <1>2, <1>3, <1>4, <2>1
    <3> QED  BY <3>1
  <2>2. CASE j = n + 1
    BY <1>1, <1>3, <2>2
  <2>3. CASE j > n + 1
    <3>1. j - 1 \in DOMAIN s /\ h[j - 1] = j
      BY <1>1, <1>2, <1>3, <1>4, <2>3
    <3> QED  BY <3>1
  <2> QED  BY <1>1, <1>3, <2>1, <2>2, <2>3
<1>8. /\ LeadsTo(g, s, st) => LeadsTo(g, t, st)
      /\ Ended(g, t) <=> Ended(g, s)
  <2>1. s \in Seq(Line) /\ t \in Seq(Line)
    BY <1>2, <1>3
  <2>2. Respaced(h, s, t)
    BY <1>5, <1>6, <1>7 DEF Respaced
  <2> QED  BY <2>1, <2>2, RespacedLeads
<1> QED  BY <1>8 DEF s, t, c

-----------------------------------------------------------------------------
(* Every step tells what it does.                                          *)

\* A game begins with streams that tell its map and nothing else; what is still in the
\* pipe is of another game.
LEMMA OpeningLeads ==
  ASSUME Placed, NEW b \in Seq(Line), \A i \in DOMAIN b : b[i].game # game, NEW st,
         st.map = Load(Level).map, st.positions = Load(Level).positions
  PROVE  /\ LeadsTo(game, Opening \o b, st)
         /\ Ended(game, Opening \o b) <=> EdibleCells(Load(Level).map) = {}
<1> DEFINE o == Opening
           s == Opening \o b
           none == EdibleCells(Load(Level).map) = {}
<1>1. /\ Tag(Spawned).m.msgt = "SPAWN" /\ Tag(GameOver(1)).m.msgt = "GAME_OVER"
      /\ Tag(Spawned) \in Line /\ Tag(GameOver(1)) \in Line
      /\ Tag(GameOver(1)).game = game
  BY DEF Tag, Spawned, GameOver, Line, Message, Placed
<1>2. /\ o \in Seq(Line) /\ Len(o) \in Nat
      /\ \A i \in 1 .. Len(o) : o[i].m.msgt \in {"SPAWN", "GAME_OVER"}
      /\ none => /\ Len(o) >= 2 /\ o[2].m.msgt = "GAME_OVER" /\ o[2].game = game
      /\ ~none => \A i \in 1 .. Len(o) : o[i].m.msgt = "SPAWN"
  <2> DEFINE a == Tag(Spawned)
             e == Tag(GameOver(1))
  <2>1. /\ none => o = Append(<<a>>, e)
        /\ ~none => o = <<a>>
    BY DEF Opening
  <2>2. <<a>> \in Seq(Line) /\ Len(<<a>>) = 1 /\ <<a>>[1] = a
    BY <1>1
  <2> HIDE DEF a, e, o, none
  <2>3. /\ Append(<<a>>, e) \in Seq(Line) /\ Len(Append(<<a>>, e)) = 2
        /\ Append(<<a>>, e)[1] = a /\ Append(<<a>>, e)[2] = e
    <3>1. a \in Line /\ e \in Line
      BY <1>1 DEF a, e
    <3> QED  BY <2>2, <3>1
  <2>4. /\ a.m.msgt = "SPAWN" /\ e.m.msgt = "GAME_OVER" /\ e.game = game
    BY <1>1 DEF a, e
  <2>5. CASE none
    <3>1. o \in Seq(Line) /\ Len(o) = 2 /\ o[1] = a /\ o[2] = e
      BY <2>1, <2>3, <2>5
    <3>2. \A i \in 1 .. Len(o) : i = 1 \/ i = 2
      BY <3>1
    <3>3. \A i \in 1 .. Len(o) : o[i].m.msgt \in {"SPAWN", "GAME_OVER"}
      BY <2>4, <3>1, <3>2
    <3> QED  BY <2>4, <2>5, <3>1, <3>3
  <2>6. CASE ~none
    <3>1. \A i \in 1 .. 1 : i = 1
      OBVIOUS
    <3> QED  BY <2>1, <2>2, <2>4, <2>6, <3>1
  <2> QED  BY <2>5, <2>6
<1> HIDE DEF o, none
<1>3. /\ s \in Seq(Line) /\ DOMAIN s = 1 .. Len(o) + Len(b) /\ Len(b) \in Nat
      /\ \A i \in 1 .. Len(o) + Len(b) : s[i] = IF i <= Len(o) THEN o[i] ELSE b[i - Len(o)]
  <2>1. /\ s \in Seq(Line) /\ Len(s) = Len(o) + Len(b)
        /\ \A i \in 1 .. Len(o) + Len(b) : s[i] = IF i <= Len(o) THEN o[i] ELSE b[i - Len(o)]
    BY <1>2, ConcatProperties DEF o
  <2> QED  BY <2>1, LenProperties
<1> HIDE DEF s
<1>4. ASSUME NEW i \in DOMAIN s
      PROVE  \/ i \in 1 .. Len(o) /\ s[i] = o[i]
             \/ s[i].game # game
  <2>1. CASE i <= Len(o)
    BY <1>2, <1>3, <2>1
  <2>2. CASE ~(i <= Len(o))
    <3>1. i - Len(o) \in 1 .. Len(b) /\ s[i] = b[i - Len(o)]
      BY <1>2, <1>3, <2>2
    <3>2. 1 .. Len(b) = DOMAIN b
      BY LenProperties
    <3> QED  BY <3>1, <3>2
  <2> QED  BY <2>1, <2>2
<1>5. Said(game, s, "EAT_FOOD") = {} /\ Said(game, s, "MOVEMENT") = {}
  BY <1>2, <1>4 DEF Said
<1>6. LeadsTo(game, s, st)
  <2>1. Missing(st) = {}
    BY DEF Missing
  <2>2. EatsOnce(game, s) /\ Foods(game, s) = {}
    BY <1>5 DEF EatsOnce, Foods
  <2>3. \A q \in Player : Locates(game, s, q, st)
    BY <1>5 DEF Locates, MovesOf
  <2>4. EndsLast(game, s)
    BY <1>2, <1>4 DEF EndsLast
  <2> QED  BY <2>1, <2>2, <2>3, <2>4 DEF LeadsTo
<1>7. Ended(game, s) <=> none
  <2>1. ASSUME none PROVE 2 \in Said(game, s, "GAME_OVER")
    BY <1>2, <1>3, <2>1 DEF Said
  <2>2. ASSUME ~none PROVE Said(game, s, "GAME_OVER") = {}
    BY <1>2, <1>4, <2>2 DEF Said
  <2> QED  BY <2>1, <2>2 DEF Ended
<1> QED  BY <1>6, <1>7 DEF s, none

LEMMA TidyInit == Init => Tidy
BY DEF Init, Tidy

LEMMA TidyNext ==
  ASSUME Eager = {}
  PROVE  IInv /\ Typed /\ Sound /\ Fresh /\ Tidy /\ [Next]_vars => Tidy'
<1> SUFFICES ASSUME IInv, Typed, Sound, Fresh, Tidy, [Next]_vars PROVE Tidy'
  OBVIOUS
<1>1. Placed
  BY DEF IInv
<1> USE <1>1
<1>2. ASSUME Accept PROVE Tidy'
  BY <1>2 DEF Tidy, Placed, Typed, Accept
<1>3. ASSUME LoadReset PROVE Tidy'
  BY <1>3 DEF Tidy, Placed, Typed, LoadReset
<1>4. ASSUME LoadTiles PROVE Tidy'
  BY <1>4 DEF Tidy, Placed, Typed, LoadTiles
<1>5. ASSUME LoadEnd PROVE Tidy'
  BY <1>5 DEF Tidy, Placed, Typed, LoadEnd
<1>6. ASSUME SpawnHandler PROVE Tidy'
  <2>1. /\ todo' = todo /\ pipe' = pipe /\ game' = game /\ state' = state /\ srv = "spawn"
        /\ srv' \in {"accept", "register"} /\ \A p \in Player : hpc'[p] \in {hpc[p], "read"}
    BY <1>6 DEF SpawnHandler, Loop, Placed
  <2>2. \A p \in Player : hpc[p] \notin {"send", "last"}
    BY <1>6 DEF SpawnHandler, IInv, Quiet
  <2>3. state.map = Load(Level).map
    BY <2>1 DEF Fresh
  <2> QED  BY <2>1, <2>2, <2>3 DEF Tidy
<1>7. ASSUME Alarm PROVE Tidy'
  BY <1>7 DEF Tidy, Placed, Typed, Alarm
<1>8. ASSUME SigPipe PROVE Tidy'
  BY <1>8 DEF Tidy, Placed, Typed, SigPipe
<1>9. ASSUME Sigint PROVE Tidy'
  BY <1>9 DEF Tidy, Placed, Typed, Sigint
<1>10. ASSUME SigintInSemop PROVE Tidy'
  BY <1>10 DEF Tidy, Placed, Typed, SigintInSemop
<1>11. ASSUME Register PROVE Tidy'
  BY <1>11 DEF Tidy, Placed, Typed, Register, Loop
<1>12. ASSUME ForkBroadcaster PROVE Tidy'
  BY <1>12 DEF Tidy, Placed, Typed, ForkBroadcaster
<1>13. ASSUME WaitBroadcaster PROVE Tidy'
  BY <1>13 DEF Tidy, Placed, Typed, WaitBroadcaster
<1>14. ASSUME CloseAndKill PROVE Tidy'
  BY <1>14 DEF Tidy, Placed, Typed, CloseAndKill, Loop
<1>15. ASSUME ReapHandler PROVE Tidy'
  BY <1>15 DEF Tidy, Placed, Typed, ReapHandler, Loop
<1>16. ASSUME KillBroadcaster PROVE Tidy'
  BY <1>16 DEF Tidy, Placed, Typed, KillBroadcaster
<1>17. ASSUME NoBroadcaster PROVE Tidy'
  BY <1>17 DEF Tidy, Placed, Typed, NoBroadcaster, HangUp
<1>18. ASSUME ReapBroadcaster PROVE Tidy'
  BY <1>18 DEF Tidy, Placed, Typed, ReapBroadcaster, HangUp
<1>19. ASSUME Lock PROVE Tidy'
  BY <1>19 DEF Tidy, Placed, Typed, Lock
<1>20. ASSUME Clear PROVE Tidy'
  BY <1>20 DEF Tidy, Placed, Typed, Clear
<1>21. ASSUME Unlock PROVE Tidy'
  BY <1>21 DEF Tidy, Placed, Typed, Unlock
<1>22. ASSUME Again PROVE Tidy'
  <2>1. /\ UNCHANGED <<hpc, todo, pipe, state>> /\ game \in Nat
        /\ \/ srv' = "exited" /\ game' = game
           \/ srv' = "accept" /\ game' = game + 1
    <3>1. CASE sigint
      BY <1>22, <3>1 DEF Again, Placed
    <3>2. CASE ~sigint
      BY <1>22, <3>2 DEF Again, Placed
    <3> QED  BY <3>1, <3>2
  <2>2. \A i \in DOMAIN pipe : pipe[i].game <= game /\ pipe[i].game \in Nat
    <3>1. \A i \in DOMAIN pipe : pipe[i] \in Tagged
      BY DEF Typed
    <3> QED  BY <3>1 DEF Tidy, Tagged
  <2>3. /\ \A i \in DOMAIN pipe : pipe[i].game <= game'
        /\ srv' = "accept" => \A i \in DOMAIN pipe : pipe[i].game < game'
    BY <2>1, <2>2
  <2> QED  BY <2>1, <2>3 DEF Tidy
<1>23. ASSUME BcastRead PROVE Tidy'
  <2>1. /\ pipe' = Tail(pipe) /\ pipe # << >> /\ pipe \in Seq(Tagged)
        /\ UNCHANGED <<srv, game, state, hpc, todo>>
    BY <1>23 DEF BcastRead, Typed
  <2>2. \A i \in DOMAIN pipe' : i + 1 \in DOMAIN pipe /\ pipe'[i] = pipe[i + 1]
    BY <2>1
  <2> QED  BY <2>1, <2>2 DEF Tidy
<1>24. ASSUME BcastFirst PROVE Tidy'
  BY <1>24 DEF Tidy, Placed, Typed, BcastFirst
<1>25. ASSUME BcastSecond PROVE Tidy'
  BY <1>25 DEF Tidy, Placed, Typed, BcastSecond
<1>26. ASSUME BcastDies PROVE Tidy'
  BY <1>26 DEF Tidy, Placed, Typed, BcastDies
<1>27. ASSUME NEW p \in Player, WaitHandler(p) PROVE Tidy'
  BY <1>27 DEF Tidy, Placed, Typed, WaitHandler
<1>28. ASSUME NEW p \in Player, Press(p) PROVE Tidy'
  BY <1>28 DEF Tidy, Placed, Typed, Press
<1>29. ASSUME NEW p \in Player, Quit(p) PROVE Tidy'
  BY <1>29 DEF Tidy, Placed, Typed, Quit
<1>30. ASSUME NEW p \in Player, ReadKey(p) PROVE Tidy'
  BY <1>30 DEF Tidy, Placed, Typed, ReadKey, Goto
<1>31. ASSUME NEW p \in Player, ReadEof(p) PROVE Tidy'
  BY <1>31 DEF Tidy, Placed, Typed, ReadEof, Goto
<1>32. ASSUME NEW p \in Player, Down(p) PROVE Tidy'
  BY <1>32 DEF Tidy, Placed, Typed, Down, Goto
<1>33. ASSUME NEW p \in Player, Test(p) PROVE Tidy'
  <2>1. /\ hpc[p] = "test" /\ UNCHANGED <<srv, game, pipe>>
        /\ \/ hpc'[p] = "last" /\ \A q \in Player : q # p => todo'[q] = todo[q]
           \/ todo' = todo
        /\ \A q \in Player : q # p => hpc'[q] = hpc[q]
    BY <1>33 DEF Test, Goto, Placed, Typed
  <2>2. state'.map = state.map
    BY <1>33, CollideFields DEF Test, Typed
  <2>3. \A q \in Player : hpc'[q] \notin {"send", "last"} => todo'[q] = << >>
    BY <2>1 DEF Tidy
  <2> QED  BY <2>1, <2>2, <2>3 DEF Tidy
<1>34. ASSUME NEW p \in Player, Act(p) PROVE Tidy'
  <2> DEFINE c    == Position2Index(next[p])
             item == state.map[c]
  <2>1. /\ UNCHANGED <<srv, game, pipe>> /\ state' = Enter(state, p, next[p], item)
        /\ hpc' = [hpc EXCEPT ![p] = "send"]
        /\ todo' = [todo EXCEPT ![p] = EnterMessages(p, next[p], item)]
        /\ next[p] \in Position /\ state \in GameState /\ c \in Cells
        /\ state.map \in [Cells -> Item]
    BY <1>34, IndexInCells DEF Act, Goto, Typed, GameState
  <2>2. \/ state'.map = state.map
        \/ item \in Edible /\ state'.map = [state.map EXCEPT ![c] = "FLOOR"]
    <3>1. PICK to, it : to = next[p] /\ it = item
      OBVIOUS
    <3>2. /\ to \in Position /\ it \in Item /\ state' = Enter(state, p, to, it)
          /\ c = Position2Index(to)
      BY <2>1, <3>1
    <3> HIDE DEF item, c
    <3>3. CASE it = "FLOOR"
      <4>1. Walked(state, Enter(state, p, to, it), p, to)
        BY <2>1, <3>3, EnterFloor
      <4> QED  BY <3>2, <4>1 DEF Walked
    <3>4. CASE it \in Edible
      <4>1. Ate(state, Enter(state, p, to, it), p, to)
        BY <2>1, <3>4, EnterFood
      <4> QED  BY <3>1, <3>2, <3>4, <4>1 DEF Ate
    <3>5. CASE it \notin {"FLOOR"} \cup Edible
      BY <2>1, <3>2, <3>5, EnterElse
    <3> QED  BY <3>3, <3>4, <3>5
  <2>3. EdibleCells(state'.map) \subseteq EdibleCells(state.map)
    BY <2>1, <2>2, EatenCell
  <2> HIDE DEF c, item
  <2>4. \A q \in Player : hpc'[q] \notin {"send", "last"} => todo'[q] = << >>
    BY <2>1 DEF Tidy, Placed, Typed
  <2> QED  BY <2>1, <2>3, <2>4 DEF Tidy
<1>35. ASSUME NEW p \in Player, Send(p) PROVE Tidy'
  <2>1. /\ srv \notin Waiting /\ UNCHANGED <<srv, game, state, hpc>>
        /\ todo' = [todo EXCEPT ![p] = Tail(@)] /\ hpc[p] \in {"send", "last"}
        /\ pipe' = Append(pipe, Tag(Head(todo[p])))
    BY <1>35 DEF Send, IInv, Quiet
  <2>2. \A q \in Player : hpc[q] \notin {"send", "last"} => todo'[q] = << >>
    BY <2>1 DEF Tidy
  <2>3. \A i \in DOMAIN pipe' : pipe'[i].game <= game
    <3>1. PICK e : e = Tag(Head(todo[p]))
      OBVIOUS
    <3>2. e \in Tagged /\ e.game = game
      <4>1. Head(todo[p]) \in Message
        BY <1>35, HeadFirst DEF Send, Typed
      <4> QED  BY <3>1, <4>1 DEF Tag, Tagged, Placed
    <3>3. pipe \in Seq(Tagged) /\ \A i \in DOMAIN pipe : pipe[i].game <= game
      BY DEF Typed, Tidy
    <3>4. DOMAIN pipe' = 1 .. Len(pipe) + 1 /\ Len(pipe) \in Nat /\ DOMAIN pipe = 1 .. Len(pipe)
      BY <2>1, <3>1, <3>2, <3>3
    <3>5. ASSUME NEW i \in DOMAIN pipe'
          PROVE  pipe'[i] = e \/ (i \in DOMAIN pipe /\ pipe'[i] = pipe[i])
      BY <2>1, <3>1, <3>2, <3>3, <3>4, <3>5, AppendProperties
    <3> QED  BY <3>2, <3>3, <3>5 DEF Placed
  <2> QED  BY <2>1, <2>2, <2>3 DEF Tidy
<1>36. ASSUME NEW p \in Player, Return(p) PROVE Tidy'
  BY <1>36 DEF Tidy, Placed, Typed, Return, Goto
<1>37. ASSUME NEW p \in Player, Up(p) PROVE Tidy'
  BY <1>37 DEF Tidy, Placed, Typed, Up, Goto
<1>38. ASSUME NEW p \in Player, SemopFails(p) PROVE Tidy'
  BY <1>38 DEF Tidy, Placed, Typed, SemopFails, Goto
<1>39. ASSUME NEW p \in Player, SendFails(p) PROVE Tidy'
  BY <1>39 DEF Tidy, Placed, Typed, SendFails, Goto
<1>40. ASSUME NEW p \in Player, Terminate(p) PROVE Tidy'
  BY <1>40 DEF Tidy, Placed, Typed, Terminate, Goto
<1>41. ASSUME UNCHANGED vars PROVE Tidy'
  BY <1>41 DEF vars, Tidy
<1> QED  BY <1>2, <1>3, <1>4, <1>5, <1>6, <1>7, <1>8, <1>9, <1>10, <1>11, <1>12, <1>13,
             <1>14, <1>15, <1>16, <1>17, <1>18, <1>19, <1>20, <1>21, <1>22, <1>23, <1>24,
             <1>25, <1>26, <1>27, <1>28, <1>29, <1>30, <1>31, <1>32, <1>33, <1>34, <1>35,
             <1>36, <1>37, <1>38, <1>39, <1>40, <1>41
     DEF Next, ServerStep, Handler, Broadcaster

LEMMA TellingKept ==
  ASSUME Telling, UNCHANGED <<game, state>>,
         srv' \in {"register", "fork", "wait"} => srv \in {"register", "fork", "wait"},
         Present' => Present, \A p \in Player : Story(p)' = Story(p), Undecided' <=> Undecided
  PROVE  Telling'
BY DEF Telling

LEMMA StoryStays ==
  ASSUME UNCHANGED <<game, stream, bpc, msg, pipe, todo>>, NEW p \in Player
  PROVE  Story(p)' = Story(p)
BY DEF Story, Underway, Held

\* The step of a handler that writes nothing and does not act.
LEMMA TellingIdle ==
  ASSUME Placed, Telling, UNCHANGED <<server, state, stream, bpc, msg, pipe, todo, conn>>,
         NEW h \in Player, hpc[h] # "send", NEW pc, pc # "send", hpc' = [hpc EXCEPT ![h] = pc]
  PROVE  Telling'
<1>1. Undecided' <=> Undecided
  BY DEF Undecided, Placed
<1>2. Present' => Present
  BY DEF Present
<1> QED  BY <1>1, <1>2, StoryStays, TellingKept

\* A map without food is one whose food counts nothing.
LEMMA FoodlessMap ==
  ASSUME NEW lev PROVE Load(lev).food_count = 0 <=> EdibleCells(Load(lev).map) = {}
<1>1. IsFiniteSet(EdibleCells(Load(lev).map))
  BY EdiblesFinite
<1>2. Load(lev).food_count = Cardinality(EdibleCells(Load(lev).map))
  BY DEF Load
<1> QED  BY <1>1, <1>2, FS_EmptySet

\* Both players are there: nothing of the game has happened.
LEMMA TellingSpawned ==
  ASSUME Eager = {}, IInv, Typed, Lined, Fresh, Tidy, Telling, SpawnHandler
  PROVE  Telling'
<1>1. CASE cur = 1
  BY <1>1 DEF SpawnHandler, Loop, Telling
<1>2. CASE cur = 2
  <2>1. /\ srv = "spawn" /\ UNCHANGED <<game, state, stream, bpc, msg, pipe, todo>> /\ bpc = "none"
        /\ hpc' = [hpc EXCEPT ![cur] = "read"]
    BY DEF SpawnHandler, IInv, Swept
  <2>2. \A p \in Player : stream[p] = Opening /\ stream[p] \in Seq(Line)
    BY <1>2, <2>1 DEF Lined
  <2>3. \A q \in Player : hpc[q] \notin {"send", "last"} /\ todo[q] = << >>
    BY <2>1 DEF IInv, Quiet, Tidy
  <2>4. ~Undecided'
    BY <1>2, <2>1, <2>3 DEF Undecided, IInv, Placed
  <2>5. \A i \in DOMAIN pipe : pipe[i].game # game
    <3>1. \A i \in DOMAIN pipe : pipe[i] \in Tagged
      BY DEF Typed
    <3> QED  BY <2>1, <3>1 DEF Tidy, Tagged, IInv, Placed
  <2>6. state.game_over <=> EdibleCells(Load(Level).map) = {}
    BY <2>1, FoodlessMap DEF Fresh
  <2>7. ASSUME NEW p \in Player
        PROVE  LeadsTo(game, Story(p), state) /\ (state.game_over <=> Ended(game, Story(p)))
    <3>1. Story(p) = Underway(p) /\ pipe \in Seq(Line) /\ stream[p] \in Seq(Line)
      BY <2>3, StoryRests, StoryParts DEF IInv
    <3>2. Underway(p) = (Opening \o << >>) \o pipe
      BY <2>1, <2>2 DEF Underway, Held
    <3>3. Story(p) = Opening \o pipe
      BY <2>2, <3>1, <3>2, ConcatEmptySeq
    <3>4. state.map = Load(Level).map /\ state.positions = Load(Level).positions
      BY <2>1 DEF Fresh
    <3> QED  BY <2>5, <2>6, <3>1, <3>3, <3>4, OpeningLeads DEF IInv
  <2>8. \A q \in Player : Story(q)' = Story(q)
    BY <2>1, StoryStays
  <2> QED  BY <2>1, <2>4, <2>7, <2>8 DEF Telling
<1> QED  BY <1>1, <1>2 DEF IInv, Placed

\* A registration comes between what was told before it and what the players do.
LEMMA TellingRegistered ==
  ASSUME IInv, Typed, Lined, Tidy, Telling, Register
  PROVE  Telling'
<1>1. /\ srv = "register" /\ UNCHANGED <<game, state, bpc, msg, pipe, todo, hpc, conn>>
      /\ bpc = "none" /\ cur \in Player
      /\ stream' = [stream EXCEPT ![cur] = Append(@, Tag(Registered(cur)))]
  BY DEF Register, Tell, IInv, Swept, Placed
<1>2. Undecided' <=> Undecided
  BY <1>1 DEF Undecided
<1>3. Present' <=> Present
  BY <1>1 DEF Present
<1>4. ASSUME NEW p \in Player, NEW st
      PROVE  /\ LeadsTo(game, Story(p), st) => LeadsTo(game, Story(p)', st)
             /\ Ended(game, Story(p)') <=> Ended(game, Story(p))
  <2> DEFINE s  == stream[p]
             ms == Marked(game, todo[1]) \o Marked(game, todo[2])
             e  == Tag(Registered(cur))
  <2>1. s \in Seq(Line) /\ pipe \in Seq(Line) /\ ms \in Seq(Line)
    BY StoryParts DEF IInv
  <2>2. e \in Line /\ e.m.msgt = "REGISTRATION"
    BY <1>1 DEF Tag, Registered, Line, IInv, Placed
  <2>3. Story(p) = ((s \o << >>) \o pipe) \o ms
    BY <1>1 DEF Story, Underway, Held
  <2>4. Story(p)' = ((stream'[p] \o << >>) \o pipe) \o ms
    BY <1>1 DEF Story, Underway, Held
  <2>5. stream'[p] = IF p = cur THEN Append(s, e) ELSE s
    BY <1>1 DEF Lined
  <2> HIDE DEF s, ms, e
  <2>6. ASSUME NEW x \in Seq(Line)
        PROVE  ((x \o << >>) \o pipe) \o ms = x \o (pipe \o ms)
    BY <2>1, <2>6, ConcatEmptySeq, ConcatAssociative
  <2>7. pipe \o ms \in Seq(Line) /\ Append(s, e) \in Seq(Line)
    BY <2>1, <2>2
  <2>8. Story(p) = s \o (pipe \o ms)
    BY <2>1, <2>3, <2>6
  <2>9. CASE p = cur
    <3>1. Story(p)' = Append(s, e) \o (pipe \o ms)
      BY <2>4, <2>5, <2>6, <2>7, <2>9
    <3>2. PICK rest \in Seq(Line) : rest = pipe \o ms
      BY <2>7
    <3>3. Append(s, e) \in Seq(Line) /\ s \in Seq(Line) /\ e \in Line
      BY <2>1, <2>2, <2>7
    <3>4. /\ LeadsTo(game, s \o rest, st) => LeadsTo(game, Append(s, e) \o rest, st)
          /\ Ended(game, Append(s, e) \o rest) <=> Ended(game, s \o rest)
      BY <2>2, <3>2, <3>3, RegistrationLeads
    <3> QED  BY <2>8, <3>1, <3>2, <3>4
  <2>10. CASE p # cur
    <3>1. Story(p)' = Story(p)
      BY <2>3, <2>4, <2>5, <2>10
    <3> QED  BY <3>1
  <2> QED  BY <2>9, <2>10
<1> QED  BY <1>1, <1>2, <1>3, <1>4 DEF Telling


\* A handler that finds the game over, or brings it to its end, is going to say so.
LEMMA TellingOver ==
  ASSUME IInv, Typed, Lined, Tidy, Telling, UNCHANGED <<server, stream, bpc, msg, pipe, conn>>,
         NEW p \in Player, hpc[p] \in {"test", "send"}, todo[p] = << >>,
         hpc' = [hpc EXCEPT ![p] = "last"],
         NEW m \in Message, m.msgt = "GAME_OVER", todo' = [todo EXCEPT ![p] = <<m>>],
         state'.map = state.map, state'.positions = state.positions, state'.game_over
  PROVE  Telling'
<1> SUFFICES ASSUME srv \in {"register", "fork", "wait"}, Present', NEW q \in Player
             PROVE  /\ LeadsTo(game, Story(q)', state')
                    /\ ~Undecided' /\ Ended(game, Story(q)')
  BY DEF Telling
<1>1. srv \notin Gone /\ hpc[p] \in Critical
  BY DEF Critical
<1>2. \A h \in Player : todo[h] = << >> /\ (h # p => hpc[h] \notin Critical)
  BY <1>1, AloneInside DEF IInv
<1>3. ~Undecided'
  BY <1>2 DEF Undecided, IInv, Placed, Critical
<1>4. Present
  BY DEF Present
<1>5. LeadsTo(game, Story(q), state)
  BY <1>4 DEF Telling
<1>6. PICK ms \in Seq(Message) : ms = <<m>>
  <2>1. <<m>> \in Seq(Message)
    OBVIOUS
  <2> QED  BY <2>1
<1>7. Story(q)' = Story(q) \o Marked(game, ms)
  BY <1>2, <1>6, StoryGrows DEF IInv
<1>8. PICK s \in Seq(Line) : s = Story(q)
  BY StoryParts DEF IInv
<1>9. PICK e : e = [game |-> game, m |-> m]
  OBVIOUS
<1>10. e \in Line /\ s \o Marked(game, <<m>>) = Append(s, e)
  BY <1>9, GrowsBy DEF IInv, Placed
<1>11. e.game = game /\ e.m.msgt = "GAME_OVER"
  BY <1>9
<1>12. LeadsTo(game, Append(s, e), state) /\ Ended(game, Append(s, e))
  BY <1>5, <1>8, <1>10, <1>11, LeadsOn, EndKept
<1>13. LeadsTo(game, Append(s, e), state')
  BY <1>12, SameBoard
<1> QED  BY <1>3, <1>6, <1>7, <1>8, <1>10, <1>12, <1>13

LEMMA TellingTest ==
  ASSUME IInv, Typed, Lined, Tidy, Telling, NEW p \in Player, Test(p)
  PROVE  Telling'
<1>1. /\ UNCHANGED <<server, stream, bpc, msg, pipe, conn>>
      /\ hpc[p] = "test" /\ todo[p] = << >>
  BY DEF Test, Tidy
<1>2. PICK m : m = GameOver(Winner(state))
  OBVIOUS
<1>3. m \in Message /\ m.msgt = "GAME_OVER"
  BY <1>2, WinnerTold DEF GameOver
<1>4. \/ /\ hpc' = [hpc EXCEPT ![p] = "last"] /\ todo' = [todo EXCEPT ![p] = <<m>>]
         /\ state' = state /\ state.game_over
      \/ /\ hpc' = [hpc EXCEPT ![p] = "last"] /\ todo' = [todo EXCEPT ![p] = <<m>>]
         /\ state' = Collide(state)
      \/ hpc' = [hpc EXCEPT ![p] = "act"] /\ UNCHANGED <<state, todo>>
  BY <1>2 DEF Test, Goto
<1>5. state'= Collide(state) => /\ state'.map = state.map /\ state'.positions = state.positions
                                /\ state'.game_over
  BY CollideFields DEF Typed
<1>6. CASE hpc' = [hpc EXCEPT ![p] = "act"] /\ UNCHANGED <<state, todo>>
  BY <1>1, <1>6, TellingIdle DEF IInv
<1>7. CASE /\ hpc' = [hpc EXCEPT ![p] = "last"] /\ todo' = [todo EXCEPT ![p] = <<m>>]
           /\ state' = state /\ state.game_over
  BY <1>1, <1>3, <1>7, TellingOver
<1>8. CASE /\ hpc' = [hpc EXCEPT ![p] = "last"] /\ todo' = [todo EXCEPT ![p] = <<m>>]
           /\ state' = Collide(state)
  BY <1>1, <1>3, <1>5, <1>8, TellingOver
<1> QED  BY <1>4, <1>6, <1>7, <1>8

\* What a handler has done to the map is what it is going to write.
LEMMA TellingAct ==
  ASSUME IInv, Typed, Sound, Lined, Tidy, Telling, NEW p \in Player, Act(p)
  PROVE  Telling'
<1> SUFFICES ASSUME srv \in {"register", "fork", "wait"}, Present', NEW q \in Player
             PROVE  /\ LeadsTo(game, Story(q)', state')
                    /\ Undecided' /\ ~Ended(game, Story(q)')
  BY DEF Telling, Act
<1>1. /\ UNCHANGED <<server, stream, bpc, msg, pipe, conn>> /\ hpc[p] = "act"
      /\ hpc' = [hpc EXCEPT ![p] = "send"]
  BY DEF Act, Goto
<1>2. \A h \in Player : todo[h] = << >> /\ (h # p => hpc[h] \notin Critical)
  BY <1>1, AloneInside DEF IInv, Critical, Tidy
<1>3. Undecided' /\ ~Undecided
  BY <1>1, <1>2 DEF Undecided, IInv, Placed, Critical
<1>4. Present
  BY <1>1 DEF Present
<1>5. ipc /\ ~state.game_over
  BY <1>1 DEF IInv, Placed, Sound
<1>6. PICK s \in Seq(Line) : s = Story(q)
  BY StoryParts DEF IInv
<1>7. LeadsTo(game, s, state) /\ ~Ended(game, s)
  BY <1>3, <1>4, <1>5, <1>6 DEF Telling
<1>8. PICK to, c : to = next[p] /\ c = Position2Index(to)
  OBVIOUS
<1>9. /\ to \in Position /\ c \in Cells /\ state \in GameState /\ state.map \in [Cells -> Item]
      /\ state.positions \in [Player -> Position]
  BY <1>8, IndexInCells DEF Typed, GameState
<1>10. PICK item \in Item : item = state.map[c]
  BY <1>9
<1>11. /\ state' = Enter(state, p, to, item)
       /\ todo' = [todo EXCEPT ![p] = EnterMessages(p, to, item)]
  BY <1>8, <1>10 DEF Act
<1>12. PICK ms \in Seq(Message) : ms = EnterMessages(p, to, item)
  BY <1>9, EnterTold
<1>13. Story(q)' = s \o Marked(game, ms)
  <2>1. todo' = [todo EXCEPT ![p] = ms]
    BY <1>11, <1>12
  <2> QED  BY <1>1, <1>2, <1>6, <2>1, StoryGrows DEF IInv
<1>14. PICK a, b : a = Moved(p, to) /\ b = Eaten(p, to, item)
  OBVIOUS
<1>15. a \in Message /\ b \in Message /\ a.msgt = "MOVEMENT" /\ b.msgt = "EAT_FOOD"
  BY <1>9, <1>14 DEF Message, Moved, Eaten
<1>16. PICK e, f : e = [game |-> game, m |-> a] /\ f = [game |-> game, m |-> b]
  OBVIOUS
<1>17. /\ e \in Line /\ f \in Line /\ s \o Marked(game, << >>) = s
       /\ s \o Marked(game, <<a>>) = Append(s, e)
       /\ s \o Marked(game, <<a, b>>) = Append(Append(s, e), f)
  <2>1. PICK g \in Nat : g = game
    BY DEF IInv, Placed
  <2>2. e = [game |-> g, m |-> a] /\ f = [game |-> g, m |-> b]
    BY <1>16, <2>1
  <2>3. /\ [game |-> g, m |-> a] \in Line /\ [game |-> g, m |-> b] \in Line
        /\ s \o Marked(g, << >>) = s
        /\ s \o Marked(g, <<a>>) = Append(s, [game |-> g, m |-> a])
        /\ s \o Marked(g, <<a, b>>)
             = Append(Append(s, [game |-> g, m |-> a]), [game |-> g, m |-> b])
    BY <1>15, GrowsBy
  <2> QED  BY <2>1, <2>2, <2>3
<1>18. e.game = game /\ f.game = game /\ e.m = a /\ f.m = b
  BY <1>16
<1>19. /\ Append(s, e) \in Seq(Line)
       /\ ~Ended(game, Append(s, e)) /\ ~Ended(game, Append(Append(s, e), f))
  <2>1. Append(s, e) \in Seq(Line)
    BY <1>17
  <2>2. ~Ended(game, Append(s, e))
    BY <1>7, <1>15, <1>17, <1>18, EndKept
  <2>3. PICK t \in Seq(Line) : t = Append(s, e)
    BY <2>1
  <2>4. ~Ended(game, Append(t, f))
    BY <1>15, <1>17, <1>18, <2>2, <2>3, EndKept
  <2> QED  BY <2>1, <2>2, <2>3, <2>4
<1>20. CASE item = "FLOOR"
  <2>1. ms = <<a>>
    BY <1>12, <1>14, <1>20 DEF EnterMessages, Edible
  <2>2. state'.map = state.map /\ state'.positions = [state.positions EXCEPT ![p] = to]
    <3>1. Walked(state, Enter(state, p, to, item), p, to)
      BY <1>9, <1>20, EnterFloor
    <3> QED  BY <1>11, <3>1 DEF Walked
  <2>3. LeadsTo(game, Append(s, e), state')
    BY <1>7, <1>9, <1>14, <1>17, <1>18, <2>2, LeadsMoved
  <2> QED  BY <1>3, <1>13, <1>17, <1>19, <2>1, <2>3
<1>21. CASE item \in Edible
  <2>1. ms = <<a, b>>
    BY <1>12, <1>14, <1>21 DEF EnterMessages, Edible
  <2>2. /\ state'.map = [state.map EXCEPT ![c] = "FLOOR"]
        /\ state'.positions = [state.positions EXCEPT ![p] = to]
    <3>1. Ate(state, Enter(state, p, to, item), p, to)
      BY <1>9, <1>21, EnterFood
    <3> QED  BY <1>8, <1>11, <3>1 DEF Ate
  <2>3. PICK mid : mid = [state EXCEPT !.positions[p] = to]
    OBVIOUS
  <2>4. mid.map = state.map /\ mid.positions = [state.positions EXCEPT ![p] = to]
    BY <1>9, <2>3 DEF GameState
  <2>5. LeadsTo(game, Append(s, e), mid)
    BY <1>7, <1>9, <1>14, <1>17, <1>18, <2>4, LeadsMoved
  <2>6. PICK t \in Seq(Line) : t = Append(s, e)
    BY <1>19
  <2>7. EdibleCells(state.map) \subseteq EdibleCells(Load(Level).map)
    BY DEF Tidy
  <2>8. LeadsTo(game, Append(t, f), state')
    <3>1. /\ f \in Line /\ f.game = game /\ f.m = Eaten(p, to, item) /\ item \in Edible
          /\ LeadsTo(game, t, mid) /\ ~Ended(game, t) /\ to \in Position
      BY <1>9, <1>14, <1>17, <1>18, <1>19, <1>21, <2>5, <2>6
    <3>2. /\ mid.map \in [Cells -> Item] /\ mid.map[Position2Index(to)] = item
          /\ EdibleCells(mid.map) \subseteq EdibleCells(Load(Level).map)
          /\ state'.map = [mid.map EXCEPT ![Position2Index(to)] = "FLOOR"]
          /\ state'.positions = mid.positions
      BY <1>8, <1>9, <1>10, <2>2, <2>4, <2>7
    <3> QED  BY <3>1, <3>2, LeadsEaten
  <2> QED  BY <1>3, <1>13, <1>17, <1>19, <2>1, <2>6, <2>8
<1>22. CASE item \notin {"FLOOR"} \cup Edible
  <2>1. ms = << >>
    BY <1>12, <1>22 DEF EnterMessages
  <2>2. state' = state
    BY <1>11, <1>22, EnterElse
  <2> QED  BY <1>3, <1>7, <1>13, <1>17, <2>1, <2>2
<1> QED  BY <1>20, <1>21, <1>22

\* A handler that has written what it did says whether that was the end.
LEMMA TellingReturn ==
  ASSUME IInv, Typed, Lined, Tidy, Telling, NEW p \in Player, Return(p)
  PROVE  Telling'
<1>1. /\ UNCHANGED <<server, state, stream, bpc, msg, pipe, conn>>
      /\ hpc[p] \in {"send", "last"} /\ todo[p] = << >>
  BY DEF Return
<1>2. CASE hpc[p] = "last"
  BY <1>1, <1>2, TellingIdle DEF Return, Goto, IInv
<1>3. CASE hpc[p] = "send" /\ state.game_over
  <2>1. PICK m : m = GameOver(Winner(state))
    OBVIOUS
  <2>2. m \in Message /\ m.msgt = "GAME_OVER"
    BY <2>1, WinnerTold DEF GameOver
  <2>3. hpc' = [hpc EXCEPT ![p] = "last"] /\ todo' = [todo EXCEPT ![p] = <<m>>]
    BY <1>3, <2>1 DEF Return, Goto
  <2> QED  BY <1>1, <1>3, <2>2, <2>3, TellingOver
<1>4. CASE hpc[p] = "send" /\ ~state.game_over
  <2>1. hpc' = [hpc EXCEPT ![p] = "up"] /\ todo' = todo
    BY <1>4 DEF Return, Goto
  <2>2. \A q \in Player : Story(q)' = Story(q)
    BY <1>1, <2>1, StoryStays
  <2>3. Present' => Present
    BY <1>1 DEF Present
  <2>4. Undecided
    BY <1>4 DEF Undecided
  <2>5. srv \in {"register", "fork", "wait"} => ~Undecided'
    BY <1>1, <1>4, <2>1 DEF Undecided, IInv, Placed, Exclusive, Critical
  <2> QED  BY <1>1, <1>4, <2>2, <2>3, <2>4, <2>5 DEF Telling
<1> QED  BY <1>1, <1>2, <1>3, <1>4

LEMMA TellingInit == Init => Telling
BY DEF Init, Telling

LEMMA TellingNext ==
  ASSUME Eager = {}
  PROVE  IInv /\ Typed /\ Sound /\ Lined /\ Fresh /\ Tidy /\ Telling /\ [Next]_vars
           => Telling'
<1> SUFFICES ASSUME IInv, Typed, Sound, Lined, Fresh, Tidy, Telling, [Next]_vars
             PROVE  Telling'
  OBVIOUS
<1>1. Placed
  BY DEF IInv
<1> USE <1>1
<1>2. ASSUME Accept PROVE Telling'
  BY <1>2 DEF Telling, Accept
<1>3. ASSUME LoadReset PROVE Telling'
  BY <1>3 DEF Telling, LoadReset
<1>4. ASSUME LoadTiles PROVE Telling'
  BY <1>4 DEF Telling, LoadTiles
<1>5. ASSUME LoadEnd PROVE Telling'
  BY <1>5 DEF Telling, LoadEnd
<1>6. ASSUME SpawnHandler PROVE Telling'
  BY <1>6, TellingSpawned
<1>7. ASSUME Alarm PROVE Telling'
  BY <1>7 DEF Telling, Alarm
<1>8. ASSUME SigPipe PROVE Telling'
  BY <1>8 DEF Telling, SigPipe
<1>9. ASSUME Sigint PROVE Telling'
  <2>1. /\ UNCHANGED <<game, state, conn, hpc>>
        /\ srv' \in {"register", "fork", "wait"} => srv \in {"register", "fork", "wait"}
    BY <1>9 DEF Sigint
  <2>2. \A q \in Player : Story(q)' = Story(q)
    BY <1>9, StoryStays DEF Sigint
  <2>3. (Present' => Present) /\ (Undecided' <=> Undecided)
    BY <2>1 DEF Present, Undecided
  <2> QED  BY <2>1, <2>2, <2>3, TellingKept
<1>10. ASSUME SigintInSemop PROVE Telling'
  BY <1>10 DEF Telling, SigintInSemop
<1>11. ASSUME Register PROVE Telling'
  BY <1>11, TellingRegistered
<1>12. ASSUME ForkBroadcaster PROVE Telling'
  <2>1. /\ UNCHANGED <<game, state, conn, hpc>>
        /\ srv' \in {"register", "fork", "wait"} => srv \in {"register", "fork", "wait"}
    BY <1>12 DEF ForkBroadcaster
  <2>2. \A q \in Player : Story(q)' = Story(q)
    <3>1. bpc = "none"
      BY <1>12 DEF ForkBroadcaster, IInv, Swept
    <3> QED  BY <1>12, <3>1 DEF ForkBroadcaster, Story, Underway, Held
  <2>3. (Present' => Present) /\ (Undecided' <=> Undecided)
    BY <2>1 DEF Present, Undecided
  <2> QED  BY <2>1, <2>2, <2>3, TellingKept
<1>13. ASSUME WaitBroadcaster PROVE Telling'
  BY <1>13 DEF Telling, WaitBroadcaster
<1>14. ASSUME CloseAndKill PROVE Telling'
  BY <1>14 DEF Telling, CloseAndKill, Loop
<1>15. ASSUME ReapHandler PROVE Telling'
  BY <1>15 DEF Telling, ReapHandler, Loop
<1>16. ASSUME KillBroadcaster PROVE Telling'
  BY <1>16 DEF Telling, KillBroadcaster
<1>17. ASSUME NoBroadcaster PROVE Telling'
  BY <1>17 DEF Telling, NoBroadcaster, HangUp
<1>18. ASSUME ReapBroadcaster PROVE Telling'
  BY <1>18 DEF Telling, ReapBroadcaster, HangUp
<1>19. ASSUME Lock PROVE Telling'
  BY <1>19 DEF Telling, Lock
<1>20. ASSUME Clear PROVE Telling'
  BY <1>20 DEF Telling, Clear
<1>21. ASSUME Unlock PROVE Telling'
  BY <1>21 DEF Telling, Unlock
<1>22. ASSUME Again PROVE Telling'
  BY <1>22 DEF Telling, Again
<1>23. ASSUME BcastRead PROVE Telling'
  <2>1. /\ UNCHANGED <<game, state, conn, hpc>>
        /\ srv' \in {"register", "fork", "wait"} => srv \in {"register", "fork", "wait"}
    BY <1>23 DEF BcastRead
  <2>2. \A q \in Player : Story(q)' = Story(q)
    BY <1>23, BroadcasterTellsOn
  <2>3. (Present' => Present) /\ (Undecided' <=> Undecided)
    BY <2>1 DEF Present, Undecided
  <2> QED  BY <2>1, <2>2, <2>3, TellingKept
<1>24. ASSUME BcastFirst PROVE Telling'
  <2>1. /\ UNCHANGED <<game, state, conn, hpc>>
        /\ srv' \in {"register", "fork", "wait"} => srv \in {"register", "fork", "wait"}
    BY <1>24 DEF BcastFirst
  <2>2. \A q \in Player : Story(q)' = Story(q)
    BY <1>24, BroadcasterTellsOn
  <2>3. (Present' => Present) /\ (Undecided' <=> Undecided)
    BY <2>1 DEF Present, Undecided
  <2> QED  BY <2>1, <2>2, <2>3, TellingKept
<1>25. ASSUME BcastSecond PROVE Telling'
  <2>1. /\ UNCHANGED <<game, state, conn, hpc>>
        /\ srv' \in {"register", "fork", "wait"} => srv \in {"register", "fork", "wait"}
    BY <1>25 DEF BcastSecond
  <2>2. \A q \in Player : Story(q)' = Story(q)
    BY <1>25, BroadcasterTellsOn
  <2>3. (Present' => Present) /\ (Undecided' <=> Undecided)
    BY <2>1 DEF Present, Undecided
  <2> QED  BY <2>1, <2>2, <2>3, TellingKept
<1>26. ASSUME BcastDies PROVE Telling'
  <2>1. srv \in {"register", "fork", "wait"} => ~Present'
    BY <1>26 DEF BcastDies, IInv, Swept, Present
  <2> QED  BY <1>26, <2>1 DEF BcastDies, Telling
<1>27. ASSUME NEW p \in Player, WaitHandler(p) PROVE Telling'
  BY <1>27 DEF Telling, WaitHandler
<1>28. ASSUME NEW p \in Player, Press(p) PROVE Telling'
  <2>1. /\ UNCHANGED <<game, state, conn, hpc>>
        /\ srv' \in {"register", "fork", "wait"} => srv \in {"register", "fork", "wait"}
    BY <1>28 DEF Press
  <2>2. \A q \in Player : Story(q)' = Story(q)
    BY <1>28, StoryStays DEF Press
  <2>3. (Present' => Present) /\ (Undecided' <=> Undecided)
    BY <2>1 DEF Present, Undecided
  <2> QED  BY <2>1, <2>2, <2>3, TellingKept
<1>29. ASSUME NEW p \in Player, Quit(p) PROVE Telling'
  <2>1. ~Present'
    BY <1>29 DEF Quit, Present, Placed
  <2> QED  BY <2>1 DEF Telling
<1>30. ASSUME NEW p \in Player, ReadKey(p) PROVE Telling'
  BY <1>30, TellingIdle DEF ReadKey, Goto
<1>31. ASSUME NEW p \in Player, ReadEof(p) PROVE Telling'
  <2>1. ~Present'
    BY <1>31 DEF ReadEof, Present
  <2> QED  BY <2>1 DEF Telling
<1>32. ASSUME NEW p \in Player, Down(p) PROVE Telling'
  BY <1>32, TellingIdle DEF Down, Goto
<1>33. ASSUME NEW p \in Player, Test(p) PROVE Telling'
  BY <1>33, TellingTest
<1>34. ASSUME NEW p \in Player, Act(p) PROVE Telling'
  BY <1>34, TellingAct
<1>35. ASSUME NEW p \in Player, Send(p) PROVE Telling'
  <2>1. /\ UNCHANGED <<srv, game, state, conn, hpc>>
    BY <1>35 DEF Send
  <2>2. CASE srv \in Gone
    BY <2>1, <2>2 DEF Telling
  <2>3. CASE srv \notin Gone
    <3>1. \A q \in Player : Story(q)' = Story(q)
      BY <1>35, <2>3, HandlerTellsOn DEF IInv
    <3>2. (Present' => Present) /\ (Undecided' <=> Undecided)
      BY <2>1 DEF Present, Undecided
    <3> QED  BY <2>1, <3>1, <3>2, TellingKept
  <2> QED  BY <2>2, <2>3
<1>36. ASSUME NEW p \in Player, Return(p) PROVE Telling'
  BY <1>36, TellingReturn
<1>37. ASSUME NEW p \in Player, Up(p) PROVE Telling'
  <2>1. PICK pc : pc = IF hpc[p] = "up" THEN "read" ELSE "zombie"
    OBVIOUS
  <2> QED  BY <1>37, <2>1, TellingIdle DEF Up, Goto
<1>38. ASSUME NEW p \in Player, SemopFails(p) PROVE Telling'
  BY <1>38 DEF SemopFails, Placed, Telling
<1>39. ASSUME NEW p \in Player, SendFails(p) PROVE Telling'
  BY <1>39 DEF SendFails, PipeRead, Telling
<1>40. ASSUME NEW p \in Player, Terminate(p) PROVE Telling'
  BY <1>40 DEF Terminate, IInv, Swept, Telling
<1>41. ASSUME UNCHANGED vars PROVE Telling'
  <2>1. \A q \in Player : Story(q)' = Story(q)
    BY <1>41, StoryStays DEF vars
  <2>2. (Present' => Present) /\ (Undecided' <=> Undecided)
    BY <1>41 DEF vars, Present, Undecided
  <2> QED  BY <1>41, <2>1, <2>2, TellingKept DEF vars
<1> QED  BY <1>2, <1>3, <1>4, <1>5, <1>6, <1>7, <1>8, <1>9, <1>10, <1>11, <1>12, <1>13,
             <1>14, <1>15, <1>16, <1>17, <1>18, <1>19, <1>20, <1>21, <1>22, <1>23, <1>24,
             <1>25, <1>26, <1>27, <1>28, <1>29, <1>30, <1>31, <1>32, <1>33, <1>34, <1>35,
             <1>36, <1>37, <1>38, <1>39, <1>40, <1>41
     DEF Next, ServerStep, Handler, Broadcaster

LEMMA FinishedInit == Init => Finished
BY DEF Init, Finished

\* Only a broadcaster that has told the end twice, or that a signal kills, is new among
\* those that have ended.
LEMMA FinishedNext == IInv /\ Lined /\ Finished /\ [Next]_vars => Finished'
<1> SUFFICES ASSUME IInv, Lined, Finished, [Next]_vars,
                    srv' = "wait", bpc' = "zombie", Present'
             PROVE  \A p \in Player : \E i \in DOMAIN stream[p]' :
                      stream[p][i]'.m.msgt = "GAME_OVER"
  BY DEF Finished
<1>1. CASE BcastSecond
  <2>1. /\ stream[1] \in Seq(Line) /\ stream[2] \in Seq(Line)
        /\ Len(stream[1]) = Len(stream[2]) + 1 /\ stream[1][Len(stream[1])] = msg
        /\ stream' = [stream EXCEPT ![2] = Append(@, msg)] /\ msg.m.msgt = "GAME_OVER"
    BY <1>1 DEF BcastSecond, Deliver, Lined, Aligned
  <2>2. stream'[1] = stream[1] /\ stream'[2] = Append(stream[2], msg)
    BY <2>1 DEF Lined
  <2>3. PICK a, b : a = stream[1] /\ b = stream[2]
    OBVIOUS
  <2>4. Len(a) \in DOMAIN a /\ a[Len(a)].m.msgt = "GAME_OVER"
    BY <2>1, <2>3, LenProperties
  <2>5. /\ Len(b) + 1 \in DOMAIN Append(b, msg)
        /\ Append(b, msg)[Len(b) + 1].m.msgt = "GAME_OVER"
    BY <2>1, <2>3, LenProperties
  <2> QED  BY <2>2, <2>3, <2>4, <2>5
<1>2. CASE ~BcastSecond
  <2>1. UNCHANGED <<srv, bpc, stream>> /\ Present
    <3>1. CASE ServerStep
      BY <1>2, <3>1 DEF ServerStep, LoadReset, LoadTiles, LoadEnd, SpawnHandler, Register, Loop,
             ForkBroadcaster, WaitBroadcaster, WaitHandler, CloseAndKill, ReapHandler,
             KillBroadcaster, NoBroadcaster, ReapBroadcaster, Lock, Clear, Unlock, Again
    <3>2. CASE Accept \/ Alarm \/ SigPipe \/ Sigint \/ SigintInSemop
      BY <3>2 DEF Accept, Alarm, SigPipe, Sigint, SigintInSemop, Present
    <3>3. CASE Broadcaster
      BY <1>2, <3>3 DEF Broadcaster, BcastRead, BcastFirst, BcastDies, IInv, Swept, Present
    <3>4. CASE \E p \in Player : Handler(p)
      BY <3>4 DEF Handler, ReadKey, ReadEof, Down, Test, Act, Send, Return, Up, SemopFails,
             SendFails, Terminate, Present
    <3>5. CASE \E p \in Player : Press(p) \/ Quit(p)
      BY <3>5 DEF Press, Quit, Present, IInv, Placed
    <3>6. CASE UNCHANGED vars
      BY <3>6 DEF vars, Present
    <3> QED  BY <3>1, <3>2, <3>3, <3>4, <3>5, <3>6 DEF Next
  <2> QED  BY <2>1 DEF Finished
<1> QED  BY <1>1, <1>2

LEMMA AlwaysTold ==
  ASSUME Eager = {}
  PROVE  Spec => [](IInv /\ Typed /\ Lined /\ Tidy /\ Telling /\ Finished)
BY AlwaysSound, LinedInit, LinedNext, FreshInit, FreshNext, TidyInit, TidyNext,
   TellingInit, TellingNext, FinishedInit, FinishedNext, PTL DEF Spec

\* What comes after the end of a story changes nothing.
LEMMA LeadsSoFar ==
  ASSUME NEW s \in Seq(Line), NEW r \in Seq(Line), NEW g, NEW st,
         LeadsTo(g, s \o r, st), r = << >> \/ Ended(g, s)
  PROVE  LeadsTo(g, s, st)
<1> DEFINE u == s \o r
           n == Len(s)
<1>1. /\ n \in Nat /\ Len(r) \in Nat /\ DOMAIN s = 1 .. n /\ DOMAIN u = 1 .. n + Len(r)
      /\ \A i \in 1 .. n : u[i] = s[i]
  <2>1. u \in Seq(Line) /\ Len(u) = n + Len(r) /\ \A i \in 1 .. n : u[i] = s[i]
    BY ConcatProperties, LenProperties
  <2> QED  BY <2>1, LenProperties
<1>2. EndsLast(g, u) /\ EatsOnce(g, u) /\ Foods(g, u) = Missing(st)
  BY DEF LeadsTo
<1>3. \A q \in Player : Locates(g, u, q, st)
  BY DEF LeadsTo
<1> HIDE DEF u, n
<1>4. ASSUME NEW kind \in {"MOVEMENT", "EAT_FOOD"} PROVE Said(g, u, kind) = Said(g, s, kind)
  <2>1. CASE r = << >>
    <3>1. Len(r) = 0
      BY <2>1
    <3> QED  BY <1>1, <3>1 DEF Said
  <2>2. CASE Ended(g, s)
    <3>1. PICK i \in Said(g, s, "GAME_OVER") : TRUE
      BY <2>2 DEF Ended
    <3>2. i \in 1 .. n /\ i \in Said(g, u, "GAME_OVER")
      BY <1>1, <3>1 DEF Said
    <3>3. \A j \in Said(g, u, kind) : j \in 1 .. n
      BY <1>1, <1>2, <1>4, <3>2 DEF Said, EndsLast
    <3> QED  BY <1>1, <3>3 DEF Said
  <2> QED  BY <2>1, <2>2
<1>5. \A kind : \A i \in Said(g, s, kind) : u[i] = s[i]
  BY <1>1 DEF Said
<1>6. EatsOnce(g, s) /\ Foods(g, s) = Missing(st)
  <2> DEFINE S == Said(g, s, "EAT_FOOD")
  <2>1. Said(g, u, "EAT_FOOD") = S /\ \A i \in S : u[i] = s[i]
    BY <1>4, <1>5
  <2> HIDE DEF S
  <2>2. /\ \A i, j \in S : s[i].m.food = s[j].m.food => i = j
        /\ {s[i].m.food : i \in S} = Missing(st)
    BY <1>2, <2>1 DEF EatsOnce, Foods
  <2> QED  BY <2>2 DEF EatsOnce, Foods, S
<1>7. ASSUME NEW q \in Player PROVE Locates(g, s, q, st)
  <2> DEFINE S == MovesOf(g, s, q)
  <2>1. MovesOf(g, u, q) = S /\ \A i \in S : u[i] = s[i]
    BY <1>4, <1>5 DEF MovesOf
  <2> HIDE DEF S
  <2>2. /\ S = {} => st.positions[q] = Load(Level).positions[q]
        /\ \A i \in S : (\A j \in S : j <= i) => s[i].m.pos = st.positions[q]
    BY <1>3, <2>1 DEF Locates
  <2> QED  BY <2>2 DEF Locates, S
<1>8. EndsLast(g, s)
  BY <1>1, <1>2 DEF EndsLast, Said
<1> QED  BY <1>6, <1>7, <1>8 DEF LeadsTo

\* In a stream of which all lines are of one game, what was heard is what this game says.
LEMMA HeardIsSaid ==
  ASSUME NEW p \in Player, \A i \in DOMAIN stream[p] : stream[p][i].game = game
  PROVE  /\ \A kind : Heard(p, kind) = Said(game, stream[p], kind)
         /\ \A q \in Player : Located(p, q) <=> Locates(game, stream[p], q, state)
BY DEF Heard, Said, Sightings, MovesOf, Located, Locates

\* Whatever the interleaving of the handlers, the broadcaster and the server, as long as
\* nobody has left and no line of an earlier game has come in between: when the handlers
\* rest and the broadcaster has read the pipe empty or has told the end, each player has
\* been told every meal of the game once, the last position of each player, and the end
\* if and only if the game is over.
THEOREM EverythingIsAnnounced == ASSUME Eager = {} PROVE Spec => []Announced
<1>1. IInv /\ Typed /\ Lined /\ Tidy /\ Telling /\ Finished => Announced
  <2> SUFFICES ASSUME IInv, Typed, Lined, Tidy, Telling, Finished,
                      srv = "wait", Inside = {}, CaughtUp, Unmixed, Present, NEW p \in Player
               PROVE  /\ Cardinality(Said(game, stream[p], "EAT_FOOD"))
                           = Cardinality(Missing(state))
                      /\ Foods(game, stream[p]) = Missing(state)
                      /\ \A q \in Player : Locates(game, stream[p], q, state)
                      /\ state.game_over <=> Ended(game, stream[p])
    BY HeardIsSaid DEF Announced, Present, Unmixed, Foods, Ended
  <2>1. \A q \in Player : hpc[q] \notin {"send", "last"}
    BY DEF Inside, Critical
  <2>2. \A q \in Player : todo[q] = << >>
    BY <2>1 DEF Tidy
  <2>3. /\ stream[p] \in Seq(Line) /\ pipe \in Seq(Line)
        /\ Story(p) = (stream[p] \o << >>) \o pipe
    BY <2>2, StoryRests, StoryParts DEF IInv, CaughtUp, Underway, Held
  <2>4. PICK u \in Seq(Line), r \in Seq(Line) : u = stream[p] /\ r = pipe
    BY <2>3
  <2>5. Story(p) = u \o r
    BY <2>3, <2>4, ConcatEmptySeq
  <2>6. LeadsTo(game, u \o r, state) /\ (state.game_over <=> Ended(game, u \o r))
    BY <2>1, <2>5 DEF Telling, Undecided
  <2>7. r = << >> \/ Ended(game, u)
    BY <2>4 DEF CaughtUp, Finished, Unmixed, Ended, Said
  <2>8. LeadsTo(game, u, state)
    BY <2>6, <2>7, LeadsSoFar
  <2>9. state.game_over <=> Ended(game, u)
    <3>1. CASE r = << >>
      BY <2>6, <3>1, ConcatEmptySeq
    <3>2. CASE Ended(game, u)
      <4>1. /\ Len(u) \in Nat /\ DOMAIN u = 1 .. Len(u)
            /\ 1 .. Len(u) \subseteq DOMAIN (u \o r) /\ \A i \in 1 .. Len(u) : (u \o r)[i] = u[i]
        <5>1. /\ u \o r \in Seq(Line) /\ Len(u \o r) = Len(u) + Len(r)
              /\ \A i \in 1 .. Len(u) : (u \o r)[i] = u[i]
              /\ Len(u) \in Nat /\ Len(r) \in Nat
          BY ConcatProperties, LenProperties
        <5> QED  BY <5>1, LenProperties
      <4> QED  BY <2>6, <3>2, <4>1 DEF Ended, Said
    <3> QED  BY <2>7, <3>1, <3>2
  <2> DEFINE S == Said(game, u, "EAT_FOOD")
             f == [i \in S |-> u[i].m.food]
  <2>10. IsFiniteSet(S)
    <3>1. S \subseteq 1 .. Len(u) /\ Len(u) \in Nat
      BY LenProperties DEF Said
    <3>2. IsFiniteSet(1 .. Len(u))
      BY <3>1, FS_Interval
    <3> QED  BY <3>1, <3>2, FS_Subset
  <2>11. /\ Missing(state) = {u[i].m.food : i \in S}
         /\ \A i, j \in S : u[i].m.food = u[j].m.food => i = j
    BY <2>8 DEF LeadsTo, Foods, EatsOnce
  <2>12. DOMAIN f = S /\ \A i \in S : f[i] = u[i].m.food
    OBVIOUS
  <2> HIDE DEF S, f
  <2>13. Missing(state) = {f[i] : i \in S} /\ \A i, j \in S : f[i] = f[j] => i = j
    BY <2>11, <2>12
  <2>14. Cardinality(S) = Cardinality(Missing(state))
    BY <2>10, <2>12, <2>13, SameNumber
  <2> QED  BY <2>4, <2>8, <2>9, <2>14 DEF LeadsTo, S
<1> QED  BY <1>1, AlwaysTold, PTL

=============================================================================

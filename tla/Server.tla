------------------------------- MODULE Server -------------------------------
(***************************************************************************)
(* pas_server and its children: the server itself, one client_handler per  *)
(* player and the broadcaster, over what they share - the GameState in     *)
(* shared memory, the semaphore that guards it, the pipe to the            *)
(* broadcaster, the sockets - and the signals the server sends and gets.   *)
(*                                                                         *)
(* Each process advances by the steps between which another one can run.   *)
(* The clients are the environment: they connect, press keys, go away.     *)
(*                                                                         *)
(* The game a message was written in (msg.game) is known to the properties *)
(* and not to the program.  As in GameRules, a definition whose name adds  *)
(* a word to that of the one it precedes is a bug one could write there.   *)
(***************************************************************************)
EXTENDS GameRules

CONSTANTS Level,             \* the map file
          Dirs,              \* the keys the players press
          Eager,             \* players that send keys before REGISTRATION (-test)
          Quitters,          \* players that may close their connection
          PipeCap,           \* messages the pipe holds before a write blocks
          MaxKeys,           \* bound: keys a client sends during one game
          MaxGames           \* bound: games the server plays

ASSUME ServerAssumption == /\ IsLevel(Level)
                           /\ Dirs \subseteq Direction
                           /\ Eager \subseteq Player /\ Quitters \subseteq Player
                           /\ PipeCap \in Nat \ {0}
                           /\ MaxKeys \in Nat /\ MaxGames \in Nat \ {0}

VARIABLES srv,               \* where the server is; see ServerPC
          cur,               \* the i of its loops over the players
          game,              \* which turn of the game loop this is
          sigint,            \* sigint_received
          ipc,               \* the semaphore and the segment exist
          sem,               \* the value of the semaphore
          state,             \* struct GameState, in shared memory
          pipe,              \* what the handlers wrote and no broadcaster has read
          conn,              \* a player's connection: none, open, closed by the client
          stream,            \* what the server's side wrote on each connection
          keys,              \* how many keys wait to be read by the handler
          pressed,           \* how many the client has sent
          hpc,               \* where each handler is; see HandlerPC
          next,              \* the position a handler computed for its key
          todo,              \* the messages it has still to write
          bpc,               \* where the broadcaster is; see BcastPC
          msg,               \* the message in its buffer
          term               \* the children with a SIGTERM pending: 1, 2, 3 (broadcaster)

server   == <<srv, cur, game, sigint>>
clients  == <<conn, stream, keys, pressed>>
handlers == <<hpc, next, todo>>
bcast    == <<bpc, msg>>
vars     == <<server, ipc, sem, state, pipe, clients, handlers, bcast, term>>

Waiting   == {"accept", "reset", "tiles", "end", "spawn"}     \* the alarm is set
Teardown  == {"close", "reap", "killb", "reapb"}
Gone      == {"exited", "died"}
ServerPC  == Waiting \cup Teardown \cup Gone
               \cup {"register", "fork", "wait", "lock", "clear", "unlock", "again"}
Critical  == {"test", "act", "send", "last", "up", "upexit"}
HandlerPC == {"none", "read", "down", "zombie"} \cup Critical
BcastPC   == {"none", "read", "write", "writing", "zombie"}
Bcast     == 3

Spawned       == [msgt |-> "SPAWN"]                  \* one for the spawns of a load_map
Nothing       == [msgt |-> "NONE"]

Tag(m)     == [game |-> game, m |-> m]
Tell(p, m) == stream' = [stream EXCEPT ![p] = Append(@, Tag(m))]
Told(p, m) == \E i \in DOMAIN stream[p] : stream[p][i].m = m

Init == /\ srv = "accept" /\ cur = 1 /\ game = 1 /\ sigint = FALSE
        /\ ipc = TRUE /\ sem = 1
        /\ state = [ResetState EXCEPT !.game_over = FALSE]
        /\ pipe = << >>
        /\ conn    = [p \in Player |-> "none"]
        /\ stream  = [p \in Player |-> << >>]
        /\ keys    = [p \in Player |-> 0]
        /\ pressed = [p \in Player |-> 0]
        /\ hpc     = [p \in Player |-> "none"]
        /\ next    = [p \in Player |-> Origin]
        /\ todo    = [p \in Player |-> << >>]
        /\ bpc = "none" /\ msg = Tag(Nothing)
        /\ term = {}

-----------------------------------------------------------------------------
(* The clients.                                                            *)

\* The GUI sends keys once REGISTRATION has come; a client run with -test at once.
Press(p) == /\ conn[p] = "open"
            /\ p \in Eager \/ Told(p, Registered(p))
            /\ pressed[p] < MaxKeys
            /\ pressed' = [pressed EXCEPT ![p] = @ + 1]
            /\ keys' = [keys EXCEPT ![p] = @ + 1]
            /\ UNCHANGED <<server, ipc, sem, state, pipe, conn, stream, handlers, bcast, term>>

Quit(p) == /\ p \in Quitters
           /\ conn[p] = "open"
           /\ conn' = [conn EXCEPT ![p] = "closed"]
           /\ UNCHANGED <<server, ipc, sem, state, pipe, stream, keys, pressed,
                          handlers, bcast, term>>

-----------------------------------------------------------------------------
(* handle_new_players: for each player accept, load_map, fork the handler. *)

\* A connection that is closed before it says anything is dropped or taken,
\* depending on the uninitialized msg_type: as if the client left just after.
Accept == /\ srv = "accept" /\ game <= MaxGames
          /\ conn' \in {[conn EXCEPT ![cur] = c] :
                          c \in {"open"} \cup IF cur \in Quitters THEN {"closed"} ELSE {}}
          /\ srv' = "reset"
          /\ UNCHANGED <<cur, game, sigint, ipc, sem, state, pipe, stream, keys, pressed,
                         handlers, bcast, term>>

\* load_map, without the semaphore: reset, then the tiles, then game_over.
LoadReset == /\ srv = "reset"
             /\ state' = ResetState
             /\ srv' = "tiles"
             /\ UNCHANGED <<cur, game, sigint, ipc, sem, pipe, clients, handlers, bcast, term>>

LoadTiles == /\ srv = "tiles"
             /\ state' = [state EXCEPT !.map        = Load(Level).map,
                                       !.positions  = Load(Level).positions,
                                       !.food_count = @ + Load(Level).food_count]
             /\ Tell(cur, Spawned)
             /\ srv' = "end"
             /\ UNCHANGED <<cur, game, sigint, ipc, sem, pipe, conn, keys, pressed,
                            handlers, bcast, term>>

LoadEndRegistering ==
  /\ srv = "end"
  /\ state' = [state EXCEPT !.game_over = (state.food_count = 0)]
  /\ Tell(cur, Registered(cur))
  /\ srv' = "spawn"
  /\ UNCHANGED <<cur, game, sigint, ipc, sem, pipe, conn, keys, pressed, handlers, bcast, term>>

LoadEnd == /\ srv = "end"
           /\ state' = [state EXCEPT !.game_over = (state.food_count = 0)]
           /\ IF state.food_count = 0 THEN Tell(cur, GameOver(1)) ELSE UNCHANGED stream
           /\ srv' = "spawn"
           /\ UNCHANGED <<cur, game, sigint, ipc, sem, pipe, conn, keys, pressed,
                          handlers, bcast, term>>

\* The loop over the players goes on with the next one, or on to what follows it.
Loop(again, after) == IF cur = 1 THEN cur' = 2 /\ srv' = again
                                 ELSE cur' = 1 /\ srv' = after

SpawnHandler == /\ srv = "spawn"
                /\ hpc' = [hpc EXCEPT ![cur] = "read"]
                /\ Loop("accept", "register")
                /\ UNCHANGED <<game, sigint, ipc, sem, state, pipe, clients, next, todo,
                               bcast, term>>

\* SIGALRM, until alarm(0) stops it before the first registration: cleanup and exit,
\* whoever has connected; the children stay.
Alarm == /\ srv \in Waiting \/ (srv = "register" /\ cur = 1)
         /\ srv' = "exited"
         /\ ipc' = FALSE
         /\ UNCHANGED <<cur, game, sigint, sem, state, pipe, clients, handlers, bcast, term>>

-----------------------------------------------------------------------------
(* main, once both players are there.                                      *)

RegisterFirstOnly == /\ srv = "register"
                     /\ Tell(cur, Registered(cur))
                     /\ srv' = "fork"
                     /\ UNCHANGED <<cur, game, sigint, ipc, sem, state, pipe, conn, keys,
                                    pressed, handlers, bcast, term>>

Register == /\ srv = "register"
            /\ Tell(cur, Registered(cur))
            /\ Loop("register", "fork")
            /\ UNCHANGED <<game, sigint, ipc, sem, state, pipe, conn, keys, pressed,
                           handlers, bcast, term>>

\* A write to a client that has gone may raise SIGPIPE, which nothing catches.
SigPipe == /\ srv \in {"tiles", "register"}
           /\ conn[cur] = "closed"
           /\ srv' = "died"
           /\ UNCHANGED <<cur, game, sigint, ipc, sem, state, pipe, clients, handlers,
                          bcast, term>>

ForkBroadcaster == /\ srv = "fork"
                   /\ bpc' = "read"
                   /\ srv' = "wait"
                   /\ UNCHANGED <<cur, game, sigint, ipc, sem, state, pipe, clients,
                                  handlers, msg, term>>

\* waitpid(-1): any child that has ended ends the game.
WaitHandler(p) == /\ srv = "wait"
                  /\ hpc[p] = "zombie"
                  /\ hpc' = [hpc EXCEPT ![p] = "none"]
                  /\ srv' = "close"
                  /\ UNCHANGED <<cur, game, sigint, ipc, sem, state, pipe, clients, next,
                                 todo, bcast, term>>

WaitBroadcaster == /\ srv = "wait"
                   /\ bpc = "zombie"
                   /\ bpc' = "none"
                   /\ srv' = "close"
                   /\ UNCHANGED <<cur, game, sigint, ipc, sem, state, pipe, clients,
                                  handlers, msg, term>>

CloseOnly == /\ srv = "close"
             /\ IF hpc[cur] # "none" THEN srv' = "reap" /\ UNCHANGED cur
                                     ELSE Loop("close", "killb")
             /\ UNCHANGED <<game, sigint, ipc, sem, state, pipe, clients, handlers, bcast, term>>

\* sclose(players_fd[i]), which the children still hold, then SIGTERM.
CloseAndKill == /\ srv = "close"
                /\ IF hpc[cur] # "none"
                     THEN term' = term \cup {cur} /\ srv' = "reap" /\ UNCHANGED cur
                     ELSE Loop("close", "killb") /\ UNCHANGED term
                /\ UNCHANGED <<game, sigint, ipc, sem, state, pipe, clients, handlers, bcast>>

\* waitpid(client_handlers[i]): the server goes on when the handler is dead.
ReapHandlerAtOnce == /\ srv = "reap"
                     /\ Loop("close", "killb")
                     /\ UNCHANGED <<game, sigint, ipc, sem, state, pipe, clients, handlers,
                                    bcast, term>>

ReapHandler == /\ srv = "reap"
               /\ hpc[cur] = "zombie"
               /\ hpc' = [hpc EXCEPT ![cur] = "none"]
               /\ term' = term \ {cur}
               /\ Loop("close", "killb")
               /\ UNCHANGED <<game, sigint, ipc, sem, state, pipe, clients, next, todo, bcast>>

\* The last process that holds the players' sockets is gone: the connections end.
HangUp == /\ conn'    = [p \in Player |-> "none"]
          /\ stream'  = [p \in Player |-> << >>]
          /\ keys'    = [p \in Player |-> 0]
          /\ pressed' = [p \in Player |-> 0]

KillBroadcaster == /\ srv = "killb"
                   /\ bpc # "none"
                   /\ term' = term \cup {Bcast}
                   /\ srv' = "reapb"
                   /\ UNCHANGED <<cur, game, sigint, ipc, sem, state, pipe, clients,
                                  handlers, bcast>>

NoBroadcaster == /\ srv = "killb"
                 /\ bpc = "none"
                 /\ HangUp
                 /\ srv' = "lock"
                 /\ UNCHANGED <<cur, game, sigint, ipc, sem, state, pipe, handlers, bcast, term>>

ReapBroadcaster == /\ srv = "reapb"
                   /\ bpc = "zombie"
                   /\ bpc' = "none"
                   /\ term' = term \ {Bcast}
                   /\ HangUp
                   /\ srv' = "lock"
                   /\ UNCHANGED <<cur, game, sigint, ipc, sem, state, pipe, handlers, msg>>

Lock == /\ srv = "lock"
        /\ sem > 0
        /\ sem' = sem - 1
        /\ srv' = "clear"
        /\ UNCHANGED <<cur, game, sigint, ipc, state, pipe, clients, handlers, bcast, term>>

Clear == /\ srv = "clear"
         /\ state' = ResetState
         /\ srv' = "unlock"
         /\ UNCHANGED <<cur, game, sigint, ipc, sem, pipe, clients, handlers, bcast, term>>

Unlock == /\ srv = "unlock"
          /\ sem' = sem + 1
          /\ srv' = "again"
          /\ UNCHANGED <<cur, game, sigint, ipc, state, pipe, clients, handlers, bcast, term>>

Again == /\ srv = "again"
         /\ IF sigint THEN srv' = "exited" /\ ipc' = FALSE /\ UNCHANGED game
                      ELSE srv' = "accept" /\ game' = game + 1 /\ UNCHANGED ipc
         /\ UNCHANGED <<cur, sigint, sem, state, pipe, clients, handlers, bcast, term>>

\* SIGINT is only noted: the global state that sigint_handler looks at is NULL.
Sigint == /\ srv \notin Gone /\ ~sigint
          /\ sigint' = TRUE
          /\ UNCHANGED <<srv, cur, game, ipc, sem, state, pipe, clients, handlers, bcast, term>>

\* semop is not restarted after a signal, and sem_add takes that for an error.
SigintInSemop == /\ srv = "lock" /\ sem = 0
                 /\ srv' = "died"
                 /\ sigint' = TRUE
                 /\ UNCHANGED <<cur, game, ipc, sem, state, pipe, clients, handlers, bcast, term>>

-----------------------------------------------------------------------------
(* client_handler p.                                                       *)

Goto(p, pc) == hpc' = [hpc EXCEPT ![p] = pc]

ReadKey(p) == /\ hpc[p] = "read"
              /\ keys[p] > 0
              /\ keys' = [keys EXCEPT ![p] = @ - 1]
              /\ Goto(p, "down")
              /\ UNCHANGED <<server, ipc, sem, state, pipe, conn, stream, pressed, next, todo,
                             bcast, term>>

ReadEofAgain(p) == /\ hpc[p] = "read"
                   /\ keys[p] = 0 /\ conn[p] = "closed"
                   /\ Goto(p, "read")
                   /\ UNCHANGED <<server, ipc, sem, state, pipe, clients, next, todo, bcast, term>>

\* End of file once the client has gone and its keys are read.
ReadEof(p) == /\ hpc[p] = "read"
              /\ keys[p] = 0 /\ conn[p] = "closed"
              /\ Goto(p, "zombie")
              /\ UNCHANGED <<server, ipc, sem, state, pipe, clients, next, todo, bcast, term>>

DownUnheld(p) == /\ hpc[p] = "down"
                 /\ ipc
                 /\ Goto(p, "test")
                 /\ UNCHANGED <<server, ipc, sem, state, pipe, clients, next, todo, bcast, term>>

Down(p) == /\ hpc[p] = "down"
           /\ ipc /\ sem > 0
           /\ sem' = sem - 1
           /\ Goto(p, "test")
           /\ UNCHANGED <<server, ipc, state, pipe, clients, next, todo, bcast, term>>

SemopFailsLate(p) == /\ hpc[p] \in {"up", "upexit"}
                     /\ ~ipc
                     /\ Goto(p, "zombie")
                     /\ UNCHANGED <<server, ipc, sem, state, pipe, clients, next, todo, bcast, term>>

\* The semaphore is gone, and a failed semop ends the process.
SemopFails(p) == /\ hpc[p] \in {"down", "up", "upexit"}
                 /\ ~ipc
                 /\ Goto(p, "zombie")
                 /\ UNCHANGED <<server, ipc, sem, state, pipe, clients, next, todo, bcast, term>>

TestResuming(p) ==
  /\ hpc[p] = "test"
  /\ \E d \in Dirs :
       LET to == NextPosition(state.positions[p], d) IN
       IF Collides(state, p, to)
         THEN /\ state' = Collide(state)
              /\ todo' = [todo EXCEPT ![p] = <<GameOver(Winner(state))>>]
              /\ Goto(p, "last")
              /\ UNCHANGED next
         ELSE /\ next' = [next EXCEPT ![p] = to]
              /\ Goto(p, "act")
              /\ UNCHANGED <<state, todo>>
  /\ UNCHANGED <<server, ipc, sem, pipe, clients, bcast, term>>

\* process_user_command up to the collision: over already, over now, or go on.
Test(p) ==
  /\ hpc[p] = "test"
  /\ \/ /\ state.game_over
        /\ todo' = [todo EXCEPT ![p] = <<GameOver(Winner(state))>>]
        /\ Goto(p, "last")
        /\ UNCHANGED <<state, next>>
     \/ \E d \in Dirs :
          LET to == NextPosition(state.positions[p], d) IN
          /\ ~state.game_over
          /\ IF Collides(state, p, to)
               THEN /\ state' = Collide(state)
                    /\ todo' = [todo EXCEPT ![p] = <<GameOver(Winner(state))>>]
                    /\ Goto(p, "last")
                    /\ UNCHANGED next
               ELSE /\ next' = [next EXCEPT ![p] = to]
                    /\ Goto(p, "act")
                    /\ UNCHANGED <<state, todo>>
  /\ UNCHANGED <<server, ipc, sem, pipe, clients, bcast, term>>

\* The switch on the item at next: all its assignments, then its messages.
Act(p) ==
  LET item == state.map[Position2Index(next[p])] IN
  /\ hpc[p] = "act"
  /\ state' = Enter(state, p, next[p], item)
  /\ todo' = [todo EXCEPT ![p] = EnterMessages(p, next[p], item)]
  /\ next' = [next EXCEPT ![p] = Origin]
  /\ Goto(p, "send")
  /\ UNCHANGED <<server, ipc, sem, pipe, clients, bcast, term>>

\* The pipe has a reader as long as the server or the broadcaster lives.
PipeRead == srv \notin Gone \/ bpc \notin {"none", "zombie"}

SendOrDrop(p) == /\ hpc[p] \in {"send", "last"} /\ todo[p] # << >>
                 /\ PipeRead
                 /\ pipe' = IF Len(pipe) < PipeCap THEN Append(pipe, Tag(Head(todo[p]))) ELSE pipe
                 /\ todo' = [todo EXCEPT ![p] = Tail(@)]
                 /\ UNCHANGED <<server, ipc, sem, state, clients, hpc, next, bcast, term>>

Send(p) == /\ hpc[p] \in {"send", "last"} /\ todo[p] # << >>
           /\ PipeRead /\ Len(pipe) < PipeCap
           /\ pipe' = Append(pipe, Tag(Head(todo[p])))
           /\ todo' = [todo EXCEPT ![p] = Tail(@)]
           /\ UNCHANGED <<server, ipc, sem, state, clients, hpc, next, bcast, term>>

SendFails(p) == /\ hpc[p] \in {"send", "last"} /\ todo[p] # << >>
                /\ ~PipeRead
                /\ todo' = [todo EXCEPT ![p] = << >>]
                /\ Goto(p, "zombie")
                /\ UNCHANGED <<server, ipc, sem, state, pipe, clients, next, bcast, term>>

ReturnSilent(p) ==
  /\ todo[p] = << >>
  /\ hpc[p] \in {"send", "last"}
  /\ Goto(p, IF hpc[p] = "send" THEN "up" ELSE "upexit")
  /\ UNCHANGED <<server, ipc, sem, state, pipe, clients, next, todo, bcast, term>>

\* Everything is written: return false, or announce the end and return true.
Return(p) ==
  /\ todo[p] = << >>
  /\ \/ hpc[p] = "send" /\ state.game_over
        /\ todo' = [todo EXCEPT ![p] = <<GameOver(Winner(state))>>] /\ Goto(p, "last")
     \/ hpc[p] = "send" /\ ~state.game_over /\ Goto(p, "up") /\ UNCHANGED todo
     \/ hpc[p] = "last" /\ Goto(p, "upexit") /\ UNCHANGED todo
  /\ UNCHANGED <<server, ipc, sem, state, pipe, clients, next, bcast, term>>

UpFallingThrough(p) == /\ hpc[p] \in {"up", "upexit"}
                       /\ ipc
                       /\ sem' = sem + 1
                       /\ Goto(p, IF hpc[p] = "up" THEN "read" ELSE "up")
                       /\ UNCHANGED <<server, ipc, state, pipe, clients, next, todo, bcast, term>>

Up(p) == /\ hpc[p] \in {"up", "upexit"}
         /\ ipc
         /\ sem' = sem + 1
         /\ Goto(p, IF hpc[p] = "up" THEN "read" ELSE "zombie")
         /\ UNCHANGED <<server, ipc, state, pipe, clients, next, todo, bcast, term>>

\* sigterm_handler: exit at once, wherever the handler is.
Terminate(p) == /\ p \in term
                /\ hpc[p] # "zombie"
                /\ Goto(p, "zombie")
                /\ next' = [next EXCEPT ![p] = Origin]
                /\ todo' = [todo EXCEPT ![p] = << >>]
                /\ UNCHANGED <<server, ipc, sem, state, pipe, clients, bcast, term>>

Handler(p) == \/ ReadKey(p) \/ ReadEof(p)
              \/ Down(p) \/ Test(p) \/ Act(p) \/ Send(p) \/ Return(p) \/ Up(p)
              \/ SemopFails(p) \/ SendFails(p) \/ Terminate(p)

-----------------------------------------------------------------------------
(* The broadcaster.                                                        *)

BcastRead == /\ bpc = "read"
             /\ pipe # << >>
             /\ msg' = Head(pipe)
             /\ pipe' = Tail(pipe)
             /\ bpc' = "write"
             /\ UNCHANGED <<server, ipc, sem, state, clients, handlers, term>>

\* The message as it arrives: its tag is that of the game it was written in.
Deliver(p) == stream' = [stream EXCEPT ![p] = Append(@, msg)]

BcastFirstOnly == /\ bpc = "write"
                  /\ Deliver(1)
                  /\ bpc' = IF msg.m.msgt = "GAME_OVER" THEN "zombie" ELSE "read"
                  /\ msg' = Tag(Nothing)
                  /\ UNCHANGED <<server, ipc, sem, state, pipe, conn, keys, pressed, handlers,
                                 term>>

BcastFirst == /\ bpc = "write"
              /\ Deliver(1)
              /\ bpc' = "writing"
              /\ UNCHANGED <<server, ipc, sem, state, pipe, conn, keys, pressed, handlers, msg,
                             term>>

BcastSecond == /\ bpc = "writing"
               /\ Deliver(2)
               /\ bpc' = IF msg.m.msgt = "GAME_OVER" THEN "zombie" ELSE "read"
               /\ msg' = Tag(Nothing)
               /\ UNCHANGED <<server, ipc, sem, state, pipe, conn, keys, pressed, handlers, term>>

\* SIGTERM, or SIGPIPE for a client that has gone.
BcastDies == /\ bpc # "none" /\ bpc # "zombie"
             /\ \/ Bcast \in term
                \/ bpc = "write" /\ conn[1] = "closed"
                \/ bpc = "writing" /\ conn[2] = "closed"
             /\ bpc' = "zombie"
             /\ msg' = Tag(Nothing)
             /\ UNCHANGED <<server, ipc, sem, state, pipe, clients, handlers, term>>

Broadcaster == BcastRead \/ BcastFirst \/ BcastSecond \/ BcastDies

-----------------------------------------------------------------------------

ServerStep == \/ LoadReset \/ LoadTiles \/ LoadEnd \/ SpawnHandler
              \/ Register \/ ForkBroadcaster
              \/ WaitBroadcaster \/ \E p \in Player : WaitHandler(p)
              \/ CloseAndKill \/ ReapHandler
              \/ KillBroadcaster \/ NoBroadcaster \/ ReapBroadcaster
              \/ Lock \/ Clear \/ Unlock \/ Again

Next == \/ Accept \/ ServerStep \/ Alarm \/ SigPipe \/ Sigint \/ SigintInSemop
        \/ Broadcaster
        \/ \E p \in Player : Handler(p) \/ Press(p) \/ Quit(p)

Spec == Init /\ [][Next]_vars

\* Every process that can run runs, the alarm rings, a SIGTERM arrives.  Nothing is
\* assumed of the clients, that they connect least of all, of SIGINT and of SIGPIPE.
Fairness == /\ WF_vars(ServerStep)
            /\ WF_vars(Alarm)
            /\ WF_vars(Broadcaster)
            /\ \A p \in Player : WF_vars(Handler(p)) /\ WF_vars(Terminate(p))
            /\ WF_vars(Bcast \in term /\ BcastDies)

FairSpec == Spec /\ Fairness

-----------------------------------------------------------------------------

\* Every variable holds a value of its type.
TypeOK == /\ srv \in ServerPC /\ cur \in Player /\ game \in 1 .. MaxGames + 1
          /\ sigint \in BOOLEAN /\ ipc \in BOOLEAN
          /\ sem \in {0, 1}
          /\ state \in GameState
          /\ Len(pipe) <= PipeCap
          /\ conn \in [Player -> {"none", "open", "closed"}]
          /\ keys \in [Player -> 0 .. MaxKeys] /\ pressed \in [Player -> 0 .. MaxKeys]
          /\ hpc \in [Player -> HandlerPC]
          /\ next \in [Player -> Position]
          /\ bpc \in BcastPC
          /\ term \subseteq Player \cup {Bcast}

-----------------------------------------------------------------------------
(* Safety.                                                                 *)

Inside == {p \in Player : hpc[p] \in Critical}
            \cup IF srv \in {"clear", "unlock"} THEN {"server"} ELSE {}

\* At most one process works on the state between sem_down0 and sem_up0, and none
\* can get in while one is inside, whoever was killed before.
OneInside == ipc => Cardinality(Inside) + sem <= 1

\* While load_map fills the state, without the semaphore, no handler is at work:
\* none of this game, as the players are not registered yet, none of the last one.
LoadsAlone ==
  srv \in {"reset", "tiles", "end"} => \A p \in Player : hpc[p] \in {"none", "read", "zombie"}

\* No child, connection or signal of a game is left when the next one is prepared.
NoneLeft == srv \in Waiting =>
              /\ bpc = "none" /\ term = {}
              /\ \A p \in Player : p >= cur => hpc[p] = "none"
              /\ \A p \in Player : p > cur => conn[p] = "none" /\ stream[p] = << >>

\* During a game the invariants of game.c hold of the shared state at every moment,
\* also between the steps of the handlers.
StateSound ==
  srv \in {"register", "fork", "wait"} =>
    /\ state.food_count = Cardinality(EdibleCells(state.map))
    /\ \A p \in Player : state.map[Position2Index(state.positions[p])] = "FLOOR"
    /\ state.positions[1] # state.positions[2]

\* A line that both clients get, or the registration, in which each is told its own id.
SameLine(a, b) == a = b \/ (a.m.msgt = "REGISTRATION" /\ b.m.msgt = "REGISTRATION")

\* From the registration to the next game the two players are told the same story, line
\* by line: player 2 is at most one message behind.
Agreement ==
  srv \notin Waiting \cup Gone =>
    /\ Len(stream[2]) \in {Len(stream[1]), Len(stream[1]) - 1}
    /\ \A i \in DOMAIN stream[2] : SameLine(stream[1][i], stream[2][i])

\* A client sees the map first, then its registration, then the game.
RegisteredFirst ==
  \A p \in Player : \A i \in DOMAIN stream[p] :
    stream[p][i].m.msgt = CASE i = 1 -> "SPAWN"
                            [] i = 2 -> "REGISTRATION"
                            [] OTHER -> IF stream[p][i].m.msgt \in {"SPAWN", "REGISTRATION"}
                                          THEN "NONE" ELSE stream[p][i].m.msgt

\* The lines of one kind that player p has been told, and those that say where q is.
Heard(p, kind) == {i \in DOMAIN stream[p] : stream[p][i].m.msgt = kind}

Sightings(p, q) == {i \in Heard(p, "MOVEMENT") : stream[p][i].m.id = PlayerId(q)}

\* Player p was told last that q is where it is.
Located(p, q) ==
  /\ Sightings(p, q) = {} => state.positions[q] = Load(Level).positions[q]
  /\ \A i \in Sightings(p, q) :
       (\A j \in Sightings(p, q) : j <= i) => stream[p][i].m.pos = state.positions[q]

\* The food that has been eaten in a game that has come to the state st.
Missing(st) == EdibleCells(Load(Level).map) \ EdibleCells(st.map)

\* The broadcaster has told all there is to tell, or has told the end and ended itself.
CaughtUp == (bpc = "read" /\ pipe = << >>) \/ bpc = "zombie"

\* Nothing that an earlier game left in the pipe has come to the players of this one.
Unmixed == \A p \in Player : \A i \in DOMAIN stream[p] : stream[p][i].game = game

\* When no handler is at work, the broadcaster has caught up or ended, both players are
\* there and nothing of an earlier game came in between, each player has been told every
\* piece of food that was eaten exactly once, the position of each player last, and the
\* end of the game if and only if it is over.  What a broadcaster that is killed leaves
\* in the pipe is told to nobody of this game: of that nothing is said here.
Announced ==
  /\ srv = "wait" /\ Inside = {} /\ CaughtUp /\ Unmixed
  /\ \A p \in Player : conn[p] # "closed"
  => \A p \in Player :
       /\ Cardinality(Heard(p, "EAT_FOOD")) = Cardinality(Missing(state))
       /\ {stream[p][i].m.food : i \in Heard(p, "EAT_FOOD")} = Missing(state)
       /\ \A q \in Player : Located(p, q)
       /\ state.game_over <=> Heard(p, "GAME_OVER") # {}

\* The server and its handlers, whatever their interleaving, implement the race; a
\* load_map in progress and a segment that is deleted are not visible to anyone.
Visible == IF srv \in {"tiles", "end"} \/ ~ipc THEN ResetState ELSE state

Race == INSTANCE FoodRace WITH
          prizes <- [c \in EdibleCells(Visible.map) |-> Value(Visible.map[c])],
          points <- Visible.scores,
          over   <- Visible.game_over

RaceSpec == Race!Spec

-----------------------------------------------------------------------------
(* Liveness.                                                               *)

\* A game that is over is brought to its end by the server.
GameEnds == (srv = "wait" /\ state.game_over) ~> srv # "wait"

\* A client that leaves ends the game of both.
QuitEnds == \A p \in Player : (srv = "wait" /\ conn[p] = "closed") ~> srv # "wait"

\* The server does not hang on a child it has killed.
TeardownEnds == srv \in Teardown ~> srv \notin Teardown

\* A handler left behind by an exited server that is asked to work ends.
OrphansEnd ==
  \A p \in Player : (srv = "exited" /\ hpc[p] \notin {"none", "read"}) ~> hpc[p] = "zombie"

-----------------------------------------------------------------------------
(* What comments and messages of the code say, and the code does not do.   *)

\* pas_server.c:256, "Restarting the game loop...": a game that has ended makes room
\* for the next one, or for the exit of the server.
Restarts == srv = "close" ~> srv \in {"accept"} \cup Gone

\* pascman.h:69, GAME_OVER is "To tell that the game is over": nobody is told so of a
\* game that is not.
OverWhenTold ==
  \A p \in Player : \A i \in DOMAIN stream[p] :
    stream[p][i].m.msgt = "GAME_OVER" => state.game_over

=============================================================================

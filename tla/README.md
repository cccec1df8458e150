# Pas-Cman in TLA+

Pas-Cman is a two-player game over TCP. A server process owns the game; it forks
one handler per player and one broadcaster, which share the game state in System V
shared memory, one semaphore, one pipe and the sockets, and it drives them with
signals. This directory specifies the game and its processes, model-checks the
specifications with TLC and proves with TLAPS, for every size, the safety of the rules, of
the loop that loads a map, of their interleaving by the server's processes, of the window in
front of a game, of the descriptors, of the objects found by key and of the test driver.

Every definition is translated from the code (`PROJECT.json`, "map", names the lines).
Paths below are relative to the repository.

## 1. Inventory

| component | state | operations | modelled in |
|---|---|---|---|
| game rules, `game.c` `game.h` `pascman.h` | `struct GameState`: map, scores, food_count, positions, game_over | `reset_gamestate`, `load_map`, `process_user_command`, `send_*` | `GameRules`, `Game`, `FoodRace`, `RulesProofs`, `GameProofs` |
| map loader, `load_map` and its caller | offset of the file descriptor, `pos`, `x`, `y`, the state | one step per character, end of file, `lseek` | `LoadMap`, `LoadMapProofs` |
| server, `pas_server.c` | place in the game loop, players' sockets, pids of the children, `sigint_received`, IPC objects | accept and load per player, register, fork, wait, kill, reset, SIGINT, SIGALRM, `cleanup` | `Server`, `ServerProofs` |
| its descriptors, `pas_server.c` `common_fd.h` | descriptor tables of server, handlers, broadcaster | open, accept, close, and what happens between `fork` and `exec` | `Descriptors`, `DescriptorsProofs` |
| its IPC objects, `init_ipc` `cleanup` `ipc_keys.h` | semaphore and segment under their keys, ids that each process has got | create or find, set, remove, find as a handler | `Instances`, `InstancesProofs` |
| handler, `client_handler.c` | place in its loop | read a key, down, `process_user_command`, up, SIGTERM, end of file | `Server`, `ServerProofs` |
| broadcaster, `broadcaster.c` | message in its buffer | read the pipe, write to player 1, write to player 2, end on GAME_OVER, SIGTERM | `Server`, `ServerProofs` |
| client, `pas_client.c` | connection, pipe, forwarder | fork, connect, forward a key, end | `Client`, `ClientProofs`, `Labo` (as `-test`), environment of `Server` |
| test driver, `pas_labo.c` | offsets in two files, pipes, children | fork server and clients, SIGINT, feed, close, kill, wait | `Labo`, `LaboProofs` |
| wrappers, `utils_v3.c` | none | one system call each, exit on failure | their effect, where used |
| GUI, `src/src/*.rs` | tiles, entities with their intended moves, status, player | take in a message, one tick in each status, close | `Client`, `ClientProofs` |
| build files, maps, test inputs | none | | not modelled |

How they interact:

    keys       GUI -> pipe -> forwarder -> socket -> handler p
    state      handlers and server <-> shared memory, guarded by the semaphore
    messages   handlers -> pipe -> broadcaster -> both sockets -> GUIs
               server -> socket (map and REGISTRATION, before the broadcaster exists)
    signals    SIGTERM server -> handlers, broadcaster;  SIGALRM -> server;
               SIGINT user or pas_labo -> server, pas_labo -> GUIs
    ends       end of a child -> server (waitpid);  end of a client -> handler (end of file)

What is hard, and what makes each part correct:

* *Rules.* `food_count` and the end of the game are kept by hand in several branches;
  only the mover is checked for collisions; messages are written apart from the change
  they tell of. Food is counted, players stay on floor and apart, points are conserved,
  an end has a reason and is final, the messages tell all.
* *Loader.* Runs twice per game on one state, over one descriptor. Each run must leave
  what the file says, and every client must be told all of it, with unique identifiers.
* *Server and children.* Interleavings inside the critical section; `load_map` outside
  of it; SIGTERM, SIGALRM and SIGPIPE at any step; a pipe that outlives the game; a
  broadcaster killed in the middle of the news. One process works on the state at a
  time, both players are told the same and everything, and every phase ends.
* *Descriptors.* The children find sockets and pipe under fixed numbers, one of which is
  only right because the kernel gives out the lowest free one; who sees the end of a pipe
  depends on what others keep open. The numbers are right, the holders are the intended
  ones, nothing is left over from one game to the next.
* *IPC objects.* Found by key, they survive the server, and so do handlers that nobody waits
  for. A start heals what it finds; a handler from before that gets at its state does so
  through its semaphore.
* *Client.* A replica fed by messages that may arrive many at a time, some of them from the
  game before, next to a forwarder that has to notice the end of the window. The replica
  shows what the game is, the end is shown, keys wait for REGISTRATION, a closed window ends
  the connection.
* *Test driver.* Inherited pipe ends, order by `usleep`. Keys keep their order, and the
  driver ends.

"hazards" in `PROJECT.json` lists these one by one, each at its line, with the properties
that cover it.

## 2. Modules

    GameRules       operators: data, identifiers, messages, Load, pieces of process_user_command
      RulesProofs   lemmas about the operators
      Game          one step per call of game.c      ---implements---> FoodRace
        GameProofs  theorems about Game (EXTENDS Game, RulesProofs)
        MCGame      all levels of a size
      LoadMap       load_map per character           (checked against GameRules!Load)
        MCLoadMap   all files of a size
        LoadMapProofs   theorems for any files of any size (EXTENDS RulesProofs)
      Server        the three programs, per step     ---implements---> FoodRace
        MCServer    a map of one row
        ServerProofs    theorems about control, the shared state and the messages (EXTENDS
                        Server, RulesProofs)
    FoodRace        abstract: prizes, points, an end
    Client          window and forwarder, in front of Game (INSTANCE);  MCClient: two levels
      ClientProofs        theorems for any levels with food (EXTENDS RulesProofs)
    Descriptors     descriptor tables;                   MCDescriptors: inherited numbers
      DescriptorsProofs   theorems for any inherited numbers and connections
    Instances       several starts on the same IPC keys; MCInstances: one port
      InstancesProofs     theorems for any number of starts that do not overlap
    Labo            pas_labo and two pas_client -test;   MCLabo: two files
      LaboProofs          theorems for files of any length

A definition whose name adds a word to that of the definition after it
(`EatUncounted`, `Eat`) is a bug one could write there. No specification uses it; it
serves to show that the properties notice.

**GameRules.** `GameState` has the fields of the struct. Cells are the offsets of `map[]`;
positions are records (x, y); `Position2Index` joins them. A level is what the file says
of each cell. `Load(level)` is the state after a whole `load_map`. `NextPosition`,
`Collides`, `Enter`, `EnterMessages`, `Winner` are the pieces of `process_user_command`.
Identifiers keep the arithmetic of `id()`; scores are unbounded naturals in place of
`int`, because a map of 600 cells is worth at most 10 200 points.

**Game.** `LoadMap`, `Reset`, and for each way through `process_user_command` an action:
`AlreadyOver`, `Collision`, `Entry`. `out` holds what the last call has written (spawns
are left to `LoadMap`). One call is one step, which is what the semaphore is for. `Reset`
requires a loaded state, and a command too, since handlers exist only in between; a second
`LoadMap` may come at any time, also after moves, as the server's does.

**FoodRace.** What the game promises, without map, walls and moves: a prize changes
hands once, for its value, while the race is on; the last one ends it; a bump may end it.

**LoadMap.** The loop with its locals, the offset `at` that `lseek` resets, the messages
`sent`. Carriage returns stand for every character that the switch ignores. The loop is
checked against `Load`, so that `Game` and `Server` may use the latter. It never asks whether a
row is full: it is right for files of HEIGHT rows of WIDTH tiles (`IsMapFile`), as all map
files of the repository are, whose tiles make a level (`LevelOf`).

**Server.** `srv`, `hpc`, `bpc` say where each process is; a step runs to the next point
at which another process can make a difference.

| step | code |
|---|---|
| `Accept` `LoadReset` `LoadTiles` `LoadEnd` `SpawnHandler` | `handle_new_players`; `load_map` in three visible steps, without the semaphore |
| `Register` `ForkBroadcaster` `WaitHandler` `WaitBroadcaster` | `main` up to `waitpid(-1)` |
| `CloseAndKill` `ReapHandler` `KillBroadcaster` `NoBroadcaster` `ReapBroadcaster` `Lock` `Clear` `Unlock` `Again` | the teardown |
| `Alarm` `Sigint` `SigintInSemop` `SigPipe` | signals to the server |
| `ReadKey` `ReadEof` `Down` `Test` `Act` `Send` `Return` `Up` | the handler; `Test` to `Return` are `process_user_command` |
| `SemopFails` `SendFails` `Terminate` | the ways in which a handler dies |
| `BcastRead` `BcastFirst` `BcastSecond` `BcastDies` | the broadcaster |
| `Press` `Quit` | the clients |

The state is the only one shared: `cur` is the `i` of the loops, `term` the pending
SIGTERMs, `stream` what the server's side wrote on each connection, with the spawns of
one `load_map` as one message. A message carries the game in which it was written, for
the properties only. Choices: the assignments of one case of the switch are one step
(`Act`), which only a reader without the semaphore could tell apart, and the only one is
`load_map`, which must not overlap with it at all (`LoadsAlone`).
A direction is chosen when the key is used, so that `keys` is a counter. Sockets block. `Alarm` may come at any time in `handle_new_players` and until `alarm(0)`, so that one
or both handlers may be left behind. An uninitialized `msg_type` (`pas_server.c:328`) is a client that may leave at once.
`signal()` restarts `read`, `accept` and `waitpid` (the build defines
`_DEFAULT_SOURCE`) but `semop` never is.

**Client.** The server's side is `Game` itself, one call per step. What a command writes goes into
`pipe`; the broadcaster (`bcast`) takes it from there to `stream`, which holds what is written for
this client and the window has not read, and ends with a `GAME_OVER` or dies. The run `server` shows
in detail that the messages arrive in this order. As in the code the pipe outlives the game: what the
broadcaster has left in it is the first that the next one reads. `NextGame` looks at the next game
through another client, which has connected since; the one before has been followed until its
window is closed and its forwarder has ended. `clean` remembers whether the pipe was empty when the
game began.

| step | code |
|---|---|
| `Prepare` `Register` | the two `load_map`, of which the client sees its own, and `send_registered` |
| `PlayMine` `PlayOther` | a handler gets a key of this client, or of the other one, who as player 1 may play before player 2 is registered |
| `Deliver` `BroadcasterDies` | the loop of the broadcaster, and its death: killed by the server, or by writing to a client that has left |
| `HangUp` `ServerDies` | the teardown, which cuts the stream anywhere and keeps the pipe; a death, which does not keep it |
| `NextGame` | `reset_gamestate`, and a new client |
| `Receive` | the thread of `main.rs` that reads standard input |
| `Tick` | `State::tick`: `Fetched` is the loop of `process_message`; `TickIdle`, `TickRunning`, `TickOver` are the schedules of the status |
| `CloseWindow` | the window manager |
| `Forward` `SendKey` `SendKeyFails` `EndOfKeys` | the loop of `pas_client.c`, which takes up to four keys and sends the first |

`view` has the tiles, the entities by identifier, the pending `IntendsToMove` and the status
with its winner. A message about an entity that does not exist is ignored, a move is carried
out by the tick (`Move`) unless the status is `Over`. The first write after the server has
hung up may still succeed; a key pressed without a forwarder is a panic. A window that is closed
(`Exit`) has forgotten all.

**Descriptors.** `fds[q]` maps the numbers a process has open to files: an end of the pipe, the
map, the listening socket, the n-th connection, something inherited. The kernel's rule is
`Lowest`. `Init` starts the server with any of the sets `Inherited`; {0, 1, 2} is a shell,
{0, 1, 2, 7, 8} is `pas_labo`, which closes its pipes and not its files (`pas_labo.c:159-162`).
`HandlerFds` and `BroadcasterFds` are the calls between `fork` and `exec`, in order: `dup2` to
4 overwrites the write end in the broadcaster, `dup2` to 3 the read end in a handler. Each
is one step, because only the child looks at its table. `Accept` and `Drop` are the two ways
of a connection that ends before it has said anything. Children and the server end at any
moment (`ChildEnds`, `ServerEnds`).

`InheritedAssumption` says when the numbers work. 3 and 4 must be free, since the handlers get
no `dup2` for the pipe and find its write end under 4 only because it was the second number
given out. And of 5, 6, 7 at most one may be taken: with two, the listening socket or the map
gets a number beyond them, is not overwritten in the broadcaster, which then keeps the port of a
server that has died. Both kinds of start that the repository knows of satisfy it.

**Instances.** Several starts, each with its place, and two handlers per start. An IPC object has
the name of the start that made it; `semKey` and `shmKey` are what is found under the keys, `semId`,
`hsem` and so on what each process has got. Removal is two steps (`RemoveShm`, `RemoveSem`), and so
is what a handler finds (`GetSem`, `GetShm`); a segment removed stays with those who have attached
it, a semaphore removed fails them all. `Die` is any end without `cleanup` (SIGPIPE, a `semop` that a
signal interrupts), `Alarm` an end with it; both leave the handlers running. `EndGame` kills handlers
wherever they are, inside too. `Run` is somebody who runs `pas_server`: a `Careful` start is made when no
other server is running, but the handlers of a dead one may be anywhere, on their way from `fork` to
`sem_get` or inside, and go on to work on the state of the new start. `init_ipc` waits for nothing, and
neither does `Run`. `raised` and `jammed` remember the semaphores that were set to 1 with somebody
inside and those with an orphan that has died inside.

**Labo.** `labo` is where the driver is; the two processes of each client are `gui` and
`fwd`. `WriteEnd(p)` says who keeps the pipe of p open, from the `close` calls of
`client_run`. A client to which the driver's SIGINT comes before its `fork` may have its handler set
and live on (`KillClients`). The pipe is unbounded (it holds 16 384 keys, the files a few dozen).
Nothing is assumed of `usleep`.

## 3. Runs

| run | instance | question | result |
|---|---|---|---|
| `game` | 3x2, every level of `#`, `.`, `*` with up to 3 prizes | are the rules consistent, and a race? | holds, 89 k states |
| `load_map` | 2x2, all 768 files, LF or CR LF, last line ended or not, 2 calls | does the loop do what `Load` says? | holds, 15 k |
| `server` | 4x1 `.@!.`, pipe of 2, 2 keys per player, 2 games | safety in every interleaving | holds, 173 k |
| `server_live` | 3x1 `@!.`, 1 key, both may leave, player 1 sends keys at once, fair | do games, teardowns and orphans end? | holds, 47 k |
| `client` | 4x1 `*@.!` and `#!@.`, player 2, 2 games, 2 keys here and 1 command of the other player in all, fair | does the window show the game, also the second one, and let go of it? | holds, 154 k |
| `descriptors` | 5 connections, 32 sets of inherited numbers | right numbers, right holders, no leak? | holds, 17 k |
| `instances` | 2 starts, not overlapping, both may die and leave handlers, 2 games each | does a start heal what the last one left, and guard its state from those it left? | holds, 3.5 M |
| `labo` | files of 3 and 2 keys, fair | order of keys, end of a forwarder | holds, 40 k |
| `server_restart` `server_stale` `labo_finish` `instances_lock` | as above; `instances_lock`: 2 starts at once, none dies | is the code what its comments say? | violated, see below |

*Bounds.* A player meets walls, border, food of both kinds, the other player and empty floor on
3x2, and with three prizes a game can go on after each kind and end with the last. Two
calls of `load_map` are needed for a state left by the first; more repeat the second. Two
games are needed for what one leaves to the next. Two keys per player suffice for a key
that waits while the other one is handled, and with a pipe of two messages a handler
blocks inside the critical section (one move and one meal fill it). The window needs two levels
to meet a wall, both kinds of food and both ends of a game; they are laid out for players that only go
left, which keeps the number of keys small. Its keys are counted over both games: two in one game are a
key that waits behind another and one pressed when the forwarder is gone, and one is enough to leave
messages of the first game to the second. Five connections are two games
and one connection turned away. Two starts are one that leaves something, alive or not, and one that finds
it; that the second may leave what a third one finds is for the proof, which has no bound. `MaxKeys`,
`MaxMoves`, `MaxGames`, `MaxLoads`, `MaxConns` and `PipeCap` are the only bounds, each in a guard. Two games with two keys each, and clients that leave,
are checked in separate runs to keep them small; the liveness runs play one game, whose
phases do not look at the number of the game. Deadlock is checked in `game` only; the others stop when their bounded calls are used up, when the server has
exited, and in the hangs that the violation runs show.

*Symmetry* is not used: the players differ (order of accept, ties, order of delivery).
`MCGame` leaves out the mirror images of levels (`StartCells`).

*Fairness.* `Server!FairSpec`: weak fairness for each process of the server, for
SIGTERM's arrival and for the alarm: the kernel runs what can run, delivers a pending
signal and lets time pass. Nothing is assumed of clients, SIGINT, or SIGPIPE, nor is a
semaphore that stays down ever raised. `Labo!FairSpec`: weak fairness per process; a
window need not be closed, and keys need not end the game. `Client!FairSpec`: the thread that
reads, the forwarder, the broadcaster, which may be killed but not rest, and the ticks, which come many
times a second; one tick without a key is all that is needed after a message. Nothing is assumed of the server or the player.

*Properties of the server.* `OneInside` also counts the semaphore, so that it holds that
nobody can enter later. `LoadsAlone` and `NoneLeft` are why `load_map` may do without the
semaphore, if clients wait for REGISTRATION, which `KeysAfterRegistration` shows of those with
a window.
`StateSound` and `RaceSpec` carry the invariants and the promise of the game to the
interleaved steps. `Announced` relates state and streams at the moments when they can be
compared: nobody is inside, nobody has left (the broadcaster dies of a client that has), the broadcaster
has emptied the pipe or has told the end, and no line of an earlier game has come in between (the run
`server_stale` shows that one may). Then every client has been told each meal once, each player's last
position, and the end if and only if there is one. What a broadcaster that is killed leaves in the pipe is
told to nobody of this game, and the property does not say otherwise.
`Agreement` compares the two streams line by line, from the registration of the players to the
next game; before that only one of them may have been told the map.

*Properties of the client.* `Replica` speaks of the window with what is written for it and not yet
taken in, for any grouping of the messages into ticks, and has three parts. In every game it has the walls
and its player. In every game, when the broadcaster has emptied the pipe, it has no food that is gone
and two players: what the last game has left removes food that is there, moves a player until it moves
itself, or tells an end, but adds nothing. And in a game that began with an empty pipe, when the broadcaster
has emptied it or has ended with the game, it has everything, once, and the end exactly if there is one.
That the last part fails in other games is no weakness of the property but what `server_stale` reports.
`EndIsShown` leaves out those games, connections that are cut and broadcasters that are killed.
`WindowCloses` is the condition under which
the server gets to know of a player who leaves (`QuitEnds`).

*Properties of descriptors and instances.* `LastHolders` justifies `Server`: a handler's write
fails exactly when server and broadcaster are gone (`PipeRead`). `NoLeak` is both that no number is
lost and that a client of a game that is over is hung up on. `LastHolders` says
nothing of connections: handler 2 keeps the socket of player 1 that it was forked with
(`pas_server.c:350-353` closes only its own).
`Healed`, `OneGuard` and `OneInside` hold of starts that do not overlap, after deaths and with handlers left
over. Such a handler does work on the state of the next start if it finds its objects under the keys or has
the ones that the start takes over; what holds is that it does so through the semaphore of this start
(`OneGuard`), so that one process at a time is at the state unless the start has set the semaphore to 1
while that handler was inside (`OneInside`), and that the start's semaphore works unless such a handler
has died inside (`Healed`).

*What the violation runs show.*

1. `Restarts`: a handler killed inside its critical section never raises the semaphore
   (no `SEM_UNDO`), and the server waits at `pas_server.c:284` for ever.
2. `OverWhenTold`: a GAME_OVER that the killed broadcaster has left in the pipe is what the
   next game's players read first, and it ends their game.
3. `ServerFinishes`: the forwarders of `pas_labo`'s clients hold each other's pipes open.
4. `Locked` (`client_handler.c:44`, "lock semaphore"): every start sets the semaphore it finds to 1
   before it knows whether it can have the port, so that a second start lets a second process in. With
   starts that do not overlap the same happens through a handler left inside (`raised`).

Other disagreements are visible in the models and have no run of their own:

* The broadcaster is killed without having drained the pipe (`pas_server.c:275`), so that players
  may never be told that their game is over (`KillBroadcaster` against `game.c:246`).
* `load_map` for player 2 races the handler of a player 1 who, with `-test`, sends keys without
  waiting for REGISTRATION (`pas_server.c:338`, `Eager`).
* `main` shadows the `state` that `sigint_handler` tests (`pas_server.c:131`), so that SIGINT is
  put off to the end of the next game even when none is running (`Sigint`).
* Of the keys read at once the forwarder sends the first only (`pas_client.c:82`, `Forward`).
* The alarm set "to stop the game if no players are connected" (`pas_server.c:180`) stops a server
  with one player too (`Alarm` does not look at `conn`).
* Only a `usleep` makes the first client of `pas_labo` the first player (`conns` may be <<2, 1>>).
* `common_fd.h:6` calls its numbers chosen at random; 4 is forced, 3 and 6 are not free choices
  either (`InheritedAssumption`).
* The end of the game says "Press ENTER to end", but any other key puts the message away and ENTER
  then does nothing (`TickOver`): who still holds an arrow key sees the end for one tick.
* A move read in the same tick as GAME_OVER is never drawn (`Tick` runs `over` instead).

## 4. Proofs

**The rules.** `GameProofs` proves about `Game`, for every WIDTH and HEIGHT in Nat \ {0} and every
set of levels with both players on them once (`SizeAssumption`, `LevelsAssumption`; all
maps of the repository are such levels), every property of the run `game`:

| theorem | property |
|---|---|
| `TypeCorrect` | `TypeOK` |
| `FoodIsCounted` `PlayersStayOnFloor` `PlayersStayApart` `PointsAreConserved` `OverIsJustified` | the invariants |
| `OverIsFinal` `CommandsAreTold` | the action properties |
| `GameImplementsRace` | `RaceSpec`, with the cells to eat as prizes |

The argument. None of the invariants is inductive alone: that eating keeps `food_count`
right needs the type of the map, that it keeps players on floor needs that the other one
is not where the food was, an end by meeting needs positions that were apart. The
inductive invariant is `Typed /\ Safe`: the type, a level with both players, and the
conjunction of the five invariants. `Typed` is proved first, by one step per action;
a state is built field by field, as the provers do not type a record with a Boolean field
at once. `Safe` is then preserved by a load (`LoadPlaces` finds the players, on floor and
apart), by a collision (the mover's next position is one step away: `Adjacent`), by a step
on floor and by a meal. The meal is the core: the edible cells lose exactly one, whose
cardinality and worth drop accordingly (`EdiblesFinite`, `WorthDrops`, `SafeEat`). The
action properties and the refinement follow from the invariant and the same cases
(`ToldEntry`, `RaceEat`); the last step of each theorem is temporal logic.

**The loader.** `LoadMapProofs` proves about `LoadMap`, for every WIDTH and HEIGHT, any map files
of that size with both players on them once (`FilesAssumption`), and any number of calls, every property of the
run `load_map`:

| theorem | property |
|---|---|
| `LoadMapTypeCorrect` | `TypeOK`: no write past `map[]`, no player off the map |
| `LoopComputesLoad` | `LoadedAsWritten` |
| `IdentifiersAreUnique` | `IdsUnique` |
| `PictureIsComplete` | `PictureComplete` |

The loop keeps three counters and compares none of them with anything. The invariant says what they count
(`Counters`: tiles and lines up to `at`, and pos = y * WIDTH + x), from which and the shape
of the file it follows that a tile is read where it belongs (`TileHere`); and that the state is
that of a load cut off after pos cells (`Filled`, `Partial`), which no induction over the file is needed
for: one character takes `Partial(level, n)` to `Partial(level, n + 1)`, and the last of these
is `Load(level)`. For the messages (`Told`), the spawns are those of the cells below pos, and an
identifier tells its cell and its kind (`IdsApart`): food, tiles and players have ranges that
do not meet, and a level has each player once.
With this, what `GameProofs` and `ServerProofs` assume of a load is proved of the loop.

**The server.** `ServerProofs` proves about `Server`, in every interleaving,
for every map, pipe, number of keys and games that `ServerAssumption` allows (the map has both
players; the pipe holds at least one message):

| theorem | property | assumes besides |
|---|---|---|
| `MutualExclusion` | `OneInside` | |
| `NothingLeft` | `NoneLeft` | |
| `ServerTypeCorrect` | `TypeOK` | |
| `LoadsAreAlone` | `LoadsAlone` | `Eager = {}` |
| `SharedStateIsSound` | `StateSound` | `Eager = {}` |
| `ServerImplementsRace` | `RaceSpec` | `Eager = {}` |
| `RegistrationComesFirst` | `RegisteredFirst` | `Eager = {}`, food on the map |
| `PlayersAgree` | `Agreement` | `Eager = {}` |
| `EverythingIsAnnounced` | `Announced` | `Eager = {}` |

`Eager = {}` says that clients wait for REGISTRATION, as those with a window do. Without it
`load_map` for player 2 may overlap with the handler of player 1; on a map without food
`load_map` sends GAME_OVER before the registration.

The argument has six layers, each an invariant that uses the ones before it.

1. `IInv`, about control only: `Placed` (where each process is), `Exclusive` (at most one
   process inside, and none when `sem` is 1 or the server has it), `Swept` (how far the server has
   got with its children in each phase: who has been reaped, to whom a SIGTERM is on its way, so that
   nobody is left when it raises the semaphore) and `Quiet` (what the streams hold, and that there are no keys,
   before the registration).
2. `Typed`: the types, with what the pipe and `todo` may hold.
3. `Sound`: a load starts from `ResetState`; from the end of the load on, food is counted and the
   players are on floor and apart; and what a handler has tested (`next`, not over, no wall) is
   still so when it acts. The last is the point of the semaphore: it holds through the steps of all
   others because of `Exclusive`. The effects of `Act` are those of the rules, so the
   lemmas of `RulesProofs` (`EnterCounted`, `EnterStanding`) end each case.
4. `Ordered`: in each phase, whether a stream is blank, has the map, or has been registered.
5. `Lined`, with `Fresh` (what a load has made of the state): in each phase, which streams are
   equal to what a load writes (`Opening`), and from the start of the broadcaster on that it is
   at most the message in its buffer ahead with player 1 (`Aligned`).
6. `Telling` and `Finished`: `Announced` made to hold at every step, whether the broadcaster has caught up
   or not. The story of a player is its stream, the message the broadcaster holds for it, the pipe, and what the handler inside
   has still to write (`Story`). Reading, delivering and writing a message move it along the story
   and do not change it (`BroadcasterTellsOn`, `HandlerTellsOn`); only `Act`, a `GAME_OVER` and the
   registration do. `Act` makes the story longer by what it does to the state (`TellingAct`),
   because the handler inside is alone (`AloneInside`). The registration is put in before what is
   already in the pipe, as handlers of players registered earlier may have moved, and moves no
   other two lines past each other (`Respaced`). `Tidy` is what a new game needs: what is left
   of an old one in the pipe has another tag. When the broadcaster has caught up the story is the stream.
   If it has ended instead, what is left in the pipe was written when the game was over already, and moves nobody
   (`EndsLast`).

For the refinement, only a few steps change what the race sees (`Visible`); all others stutter
(`Stateless`). A load, an `Act` and the teardown's `Clear` are mapped one by one.

**The descriptors.** `DescriptorsProofs` proves `NumbersAreRight` (`FdsRight`),
`HoldersAreIntended` (`LastHolders`: the ends of the pipe and the port) and `NothingLeaks` (`NoLeak`) about
`Descriptors`, for any number of connections and for every start that `InheritedAssumption` allows: 3
and 4 free, and at most one of 5, 6 and 7 taken. For other starts `FdsRight` need not hold, and the
handlers' pipe is then indeed under another number; nothing is proved or checked of those.

The invariant says what is where. `OwnTable`: in each phase, under which numbers the server has
the pipe, the map and the port (`Numbers`), and which player has a connection (`Sockets`); a socket's
number is at least 6 + p, so that the `dup2` to 6 and 7 in the broadcaster cannot overwrite
the socket that is moved next; anything else in the table was inherited. `ChildTables`: what a
handler and the broadcaster find at their `exec` and what they do not have. `Children`: which processes
there are in each phase. Numbers come from the kernel's rule, which needs that a set of
numbers has a least member: `Least` gets it from the library's theorem that strict inclusion of
finite sets is well-founded, and `LowestFree` draws the conclusion for a table. With 3 and 4 free and one
of 5, 6, 7 at most taken, the numbers of `common_fd.h` follow.

**The IPC objects.** `InstancesProofs` proves `OneStartInside` (`OneInside`), `OrphansAreGuarded`
(`OneGuard`) and `StartsHeal` (`Healed`) about `Instances`, for any number of starts, on any ports,
with any number of games, if no start is made while another server is running (`Careful = Start`).
`instances_lock` shows what happens otherwise. Nothing is assumed of the handlers that dead servers leave.

The invariant. No two servers run at once (`Alone`). What the keys lead to exists, and the segment's to
one that the semaphore found beside it guards (`Keys`); what a running server has is what they
lead to (`Servers`). So a handler, of whichever server, has a semaphore that is still found or was
removed (`HasSem`), and a segment that this semaphore guards, or a removed semaphore that
fails it when it wants to go in (`HasShm`): one that finds the semaphore of one server and then
the segment of the next is stopped there. At most one is behind each semaphore that has not been raised
(`Exclusive`), and thus inside each segment. `Free` is why a start is not stuck: from `init_sem` to the end
of its first game the semaphore is up, unless a handler has it or has died inside.

**The driver.** `LaboProofs` proves `LaboTypeCorrect` (`TypeOK`) and `KeysStayInOrder` (`InOrder`)
about `Labo`, for files of any length (`InputAssumption`). What has reached the server, what
the forwarder holds, the pipe and the rest of the file make one line, which stays within the
file: a subsequence given by its positions (`Within`). A step moves a key along the line or takes keys
out of it, and what is left is still within (`Thin`).

**The client.** `ClientProofs` proves `ClientTypeCorrect` (`TypeOK`), `KeysWaitForRegistration`
(`KeysAfterRegistration`) and `WindowIsReplica` (`Replica`) about `Client`, for any map size, any levels
with both players on them once and something to eat (`ClientAssumption`), either
player, and any number of keys and commands. They are theorems of `Spec`, without fairness; the run
checks `FairSpec`.

What the window is going to know of what is written for it (`Now`), and then of what is in the pipe
(`Coming`), are recursive functions of messages that are still on
their way (`Taken`), and what a load writes is one of cells (`Scene`). Facts about them go by induction
over a set of numbers (`NatSet`, from a well-founded ordering of the library), because the library's
induction theorems take an operator. `TakenOn` takes in a sequence piece by piece, `SceneMirrored` says
that the scene of a level, taken in by an empty window, draws the state `Load` of this level: a
step of its induction is one more cell (`CellDrawn`, by `FiguresTo`: who is drawn after n cells).

`Replica` is not inductive: it says nothing of a window that has not been registered, and a screen
without identifiers does not tell which figure the next message is about. The invariant has four parts.

1. `Typed`: the types, of the messages under way too.
2. `Early`: until the registration, no keys and nothing but spawns (`Waiting`). This is
   `KeysAfterRegistration`.
3. `Staged`: when the window knows of more than spawns, none are to come. Without it a tick could
   put a character back to where it was spawned.
4. `Mirror`, in as many parts as `Replica`, for a window that is open, from the `load_map` on with the
   registration that is due. In any game `Now` has the walls and the player (`Placed`), and while no
   broadcaster was killed `Coming` has no figure that the state has not, and both players (`Fits`). In a
   game that began with an empty pipe `Coming` has the walls of the state and each of its figures under its
   identifier (`Mirrored`), and tells the player's number and the end (`Tells`); and the end is the last that
   is in the pipe (`Ends`), so that a broadcaster that has ended has told all (`TakenEnds`).

What is left of the last game is any sequence of moves, meals and ends (`News`). None of them adds a
figure or touches a wall (`FitsNews`), however many there are (`FitsTaken`), and a meal of this game takes away
its food in whatever state they have put the window (`CommandFits`).
A command is shown by its messages (`WalkShown`, `MealShown`, `EndShown`, joined by `CommandShown`).
A tick may carry out a move now or with more messages later. Two windows that differ in nothing else
are alike (`Like`), and whatever is not a spawn keeps them alike (`LikeTaken`), so that ticks do not
change what is coming (`ComingTicked`): this is why the grouping of the messages does not matter.
`Replica` follows, as no two figures have the same place and item (`FiguresDiffer`, `ScreenIs`).

*Only model-checked.* Liveness (`GameEnds`, `EndIsShown`, `WindowCloses` and the like) and what else
depends on fairness or ENABLED. Every invariant of a passing run is a theorem; the state that
`labo_finish` shows `pas_labo` to hang in is not stated as an invariant.

## 5. Not modelled

* Failures of system calls at start-up, other than of `bind` and of the semaphore.
* Maps whose rows are not WIDTH long or without a player; values that are no direction.
* A level without food in front of a window: `load_map` sends GAME_OVER before REGISTRATION, which
  puts the status back to Running. `LoadMap` and `Game` allow such levels, `Client` leaves them out.
* Two starts that use the same segment at once on different ports, beyond what
  `instances_lock` shows: their games share one state from the first load on.
* What the GUI draws, and the direction in which a character looks.
* Partial reads and writes: a message is smaller than PIPE_BUF, and the sockets carry
  a few hundred bytes.
* Wrappers of `utils_v3.c` that no program uses; wording of what is printed, build.

## 6. Plan

Done: the rules, the loader, the server with its children, its descriptors and its IPC objects, the
client with its window, the driver; the safety of all of them is proved. What is left:

1. `Labo`: the circular wait of `labo_finish` as an invariant: when `pas_labo` waits and no forwarder
   has been killed, none can end.
2. `Server`: for clients that do not wait for REGISTRATION, what of `Agreement` and `Announced` still
   holds.

------------------------------- MODULE Client -------------------------------
(***************************************************************************)
(* One pas_client, without -test, in front of a game: the window (GUI),    *)
(* which keeps a picture of the game from the messages it gets, and the    *)
(* forwarder, which carries its keys to the server.                        *)
(*                                                                         *)
(* The server's side is Game, one call per step.  What a call writes goes  *)
(* into the pipe, and from there the broadcaster brings it to the window,  *)
(* until it has brought the end of a game or is killed.  The pipe outlives *)
(* both: what is left in it is for the clients of the next game, and when  *)
(* this client has left, the next one to be looked at is one of those.     *)
(* Server shows in detail that the messages arrive in this order.          *)
(*                                                                         *)
(* A definition whose name adds a word to that of the one it precedes is a *)
(* bug one could write there.                                              *)
(***************************************************************************)
EXTENDS GameRules, Functions

CONSTANTS Levels,            \* the map files
          Me,                \* the player of this client
          Dirs,              \* the direction keys the players press
          MaxKeys,           \* bound: direction keys pressed at these windows
          MaxMoves,          \* bound: commands of the other players
          MaxGames           \* bound: games

ASSUME ClientAssumption == /\ \A lv \in Levels : IsLevel(lv) /\ EdibleCells(Load(lv).map) # {}
                           /\ Me \in Player /\ Dirs \subseteq Direction
                           /\ MaxKeys \in Nat /\ MaxMoves \in Nat /\ MaxGames \in Nat \ {0}

VARIABLES level, state, loaded, out,                \* see Game
          games,             \* which game this is
          moves,             \* commands of the other players so far
          conn,              \* the server's end: none, loaded, playing, cut, lost
          pipe,              \* what the handlers wrote and no broadcaster has read
          bcast,             \* the broadcaster: none, runs, ended, died
          clean,             \* the pipe was empty when the game began (history)
          stream,            \* messages written for this client and not yet read
          channel,           \* messages that wait for the next tick
          view,              \* what the window knows; see Blank
          gui,               \* open or closed
          pressed,           \* direction keys written by the windows so far
          keypipe,           \* keys between the window and the forwarder
          fwd,               \* the forwarder: read, write, ended
          key,               \* the key it is about to send
          sent               \* keys between the forwarder and the handler

game   == <<level, state, loaded, out>>
window == <<view, gui, pressed>>
keys   == <<keypipe, fwd, key, sent>>
turn   == <<games, moves, clean>>
server == <<game, turn, conn, pipe, bcast>>
vars   == <<server, stream, channel, window, keys>>

Rules == INSTANCE Game

BUFFER == 4                                        \* keys that one read may return

\* The resources and entities of the window; an entity has an item, a position and maybe
\* an IntendsToMove, and is found by its identifier, which no other one has
\* (LoadMap!IdsUnique).  Nothing ever sets the status Registered.
Blank == [status  |-> "NotStarted",
          player  |-> 0,
          winner  |-> 0,
          tiles   |-> [c \in Cells |-> "FLOOR"],
          ents    |-> << >>,                       \* identifier |-> item and position
          intents |-> << >>]                       \* identifier |-> position

\* The GUI is started once its process has connected.
Init == /\ Rules!Init
        /\ games = 1 /\ moves = 0 /\ clean = TRUE
        /\ conn = "none" /\ pipe = << >> /\ bcast = "none"
        /\ stream = << >> /\ channel = << >>
        /\ view = Blank /\ gui = "open" /\ pressed = 0
        /\ keypipe = << >> /\ fwd = "read" /\ key = << >> /\ sent = << >>

-----------------------------------------------------------------------------
(* The server, as far as this client can see it.                           *)

\* The spawns of a load_map, in the order of the file.
Scene(lv) ==
  LET upTo[n \in 0 .. MAP_SIZE] ==
        IF n = 0 THEN << >>
        ELSE upTo[n - 1] \o Spawns(lv[n - 1], (n - 1) % WIDTH, (n - 1) \div WIDTH)
  IN  upTo[MAP_SIZE]

\* A load_map for each player, of which this client sees its own.
Prepare == /\ conn = "none"
           /\ Rules!LoadMap
           /\ stream' = Scene(level) \o out'
           /\ conn' = "loaded"
           /\ UNCHANGED <<turn, pipe, bcast, channel, window, keys>>

\* With the second registration done the broadcaster is started; nothing of what is in
\* the pipe is written before.
Register == /\ conn = "loaded"
            /\ stream' = Append(stream, Registered(Me))
            /\ conn' = "playing" /\ bcast' = "runs"
            /\ UNCHANGED <<game, turn, pipe, channel, window, keys>>

\* A command of a handler, and what it writes to the broadcaster.
Command(p, dir) == /\ Rules!Command(p, dir)
                   /\ pipe' = pipe \o out'

PlayMine == /\ conn = "playing" /\ sent # << >>
            /\ Command(Me, Head(sent))
            /\ sent' = Tail(sent)
            /\ UNCHANGED <<turn, conn, bcast, stream, channel, window, keypipe, fwd, key>>

\* Player 1 is registered, and may play, before player 2 is.
PlayOther == /\ conn = "playing" \/ (conn = "loaded" /\ Me = 2)
             /\ moves < MaxMoves
             /\ \E dir \in Dirs : Command(Other(Me), dir)
             /\ moves' = moves + 1
             /\ UNCHANGED <<games, clean, conn, bcast, stream, channel, window, keys>>

\* The broadcaster writes a message to the sockets, and has done with GAME_OVER.
Deliver == /\ bcast = "runs" /\ pipe # << >>
           /\ stream' = Append(stream, Head(pipe))
           /\ pipe' = Tail(pipe)
           /\ bcast' = IF Head(pipe).msgt = "GAME_OVER" THEN "ended" ELSE "runs"
           /\ UNCHANGED <<game, turn, conn, channel, window, keys>>

\* It is killed, by the server or by a write to the other client, which has left: with
\* the message it has just read, or with none.
BroadcasterDies == /\ bcast = "runs"
                   /\ bcast' = "died"
                   /\ pipe' \in {pipe} \cup IF pipe = << >> THEN {} ELSE {Tail(pipe)}
                   /\ UNCHANGED <<game, turn, conn, stream, channel, window, keys>>

\* The connection ends: what has been written may arrive or not, the keys are not read.
Cut == /\ \E n \in 0 .. Len(stream) : stream' = SubSeq(stream, 1, n)
       /\ sent' = << >>
       /\ bcast' = "none"
       /\ UNCHANGED <<game, turn, channel, window, keypipe, fwd, key>>

\* The game is torn down, at any moment once there is no broadcaster; the pipe stays.
HangUp == /\ conn = "playing" /\ bcast # "runs"
          /\ conn' = "cut"
          /\ Cut
          /\ UNCHANGED pipe

\* The server has died, and so have those it leaves; with the last of them the pipe goes.
ServerDies == /\ conn \in {"loaded", "playing"}
              /\ conn' = "lost"
              /\ Cut
              /\ pipe' = << >>

\* reset_gamestate, and the next game, seen from another client: the one of this game
\* has been followed to its end and takes part in no other.
NextGame == /\ conn = "cut" /\ gui = "closed" /\ fwd = "ended" /\ games < MaxGames
            /\ Rules!Reset
            /\ games' = games + 1 /\ clean' = (pipe = << >>)
            /\ conn' = "none" /\ UNCHANGED <<moves, pipe, bcast, pressed>>
            /\ stream' = << >> /\ channel' = << >>
            /\ view' = Blank /\ gui' = "open"
            /\ keypipe' = << >> /\ fwd' = "read" /\ key' = << >> /\ sent' = << >>

-----------------------------------------------------------------------------
(* The window.                                                             *)

\* The thread that reads standard input.
Receive == /\ gui = "open" /\ stream # << >>
           /\ channel' = Append(channel, Head(stream))
           /\ stream' = Tail(stream)
           /\ UNCHANGED <<server, window, keys>>

Entity(m) == [item |-> m.item, pos |-> m.pos]

\* f with e under id, whether or not there was something.
Put(f, id, e) == [i \in DOMAIN f \cup {id} |-> IF i = id THEN e ELSE f[i]]

PlaceRunning(v, m) ==
  IF m.item \in {"WALL", "FLOOR"}
    THEN [v EXCEPT !.status = "Running", !.tiles[Position2Index(m.pos)] = m.item]
    ELSE [v EXCEPT !.status = "Running", !.ents = Put(@, m.id, Entity(m))]

Place(v, m) ==
  IF m.item \in {"WALL", "FLOOR"} THEN [v EXCEPT !.tiles[Position2Index(m.pos)] = m.item]
                                  ELSE [v EXCEPT !.ents = Put(@, m.id, Entity(m))]

\* process_message.  A message about an entity that is not there is ignored.
Process(v, m) ==
  CASE m.msgt = "REGISTRATION" -> [v EXCEPT !.player = m.player, !.status = "Running"]
    [] m.msgt = "SPAWN"        -> Place(v, m)
    [] m.msgt = "MOVEMENT"     ->
         IF m.id \in DOMAIN v.ents THEN [v EXCEPT !.intents = Put(@, m.id, m.pos)] ELSE v
    [] m.msgt = "EAT_FOOD"     ->
         [v EXCEPT !.ents    = Restrict(@, DOMAIN @ \ {m.food}),
                   !.intents = Restrict(@, DOMAIN @ \ {m.food})]
    [] m.msgt = "GAME_OVER"    -> [v EXCEPT !.status = "Over", !.winner = m.winner]

MoveFirst(v) == LET id == CHOOSE i \in DOMAIN v.intents : TRUE IN
                IF v.intents = << >> THEN v
                ELSE [v EXCEPT !.ents[id].pos = v.intents[id], !.intents = << >>]

\* move_to_next_place: every entity with an intention goes there.
Move(v) ==
  [v EXCEPT !.ents = [id \in DOMAIN @ |-> IF id \in DOMAIN v.intents
                                            THEN [@[id] EXCEPT !.pos = v.intents[id]]
                                            ELSE @[id]],
            !.intents = << >>]

Key == Dirs \cup {"NONE", "RETURN", "OTHER"}

\* What v becomes with the messages, one after the other.
Taken(v, messages) ==
  LET after[n \in 0 .. Len(messages)] ==
        IF n = 0 THEN v ELSE Process(after[n - 1], messages[n])
  IN  after[Len(messages)]

\* One tick: all the messages that have come, then the schedule of the status.
Fetched == Taken(view, channel)

\* The process of the window ends, and what it knew is gone.
Exit == gui' = "closed" /\ view' = Blank

TickIdle == /\ Fetched.status = "NotStarted"
            /\ view' = Fetched
            /\ UNCHANGED <<gui, pressed, keypipe>>

\* running.rs: the key first, which panics when there is no forwarder, then the moves.
TickRunning(k) ==
  /\ Fetched.status = "Running"
  /\ \/ /\ k \notin Dirs
        /\ view' = Move(Fetched)
        /\ UNCHANGED <<gui, pressed, keypipe>>
     \/ /\ k \in Dirs /\ pressed < MaxKeys
        /\ fwd # "ended"
        /\ view' = Move(Fetched)
        /\ pressed' = pressed + 1
        /\ keypipe' = Append(keypipe, k)
        /\ UNCHANGED gui
     \/ /\ k \in Dirs /\ pressed < MaxKeys
        /\ fwd = "ended"
        /\ Exit
        /\ UNCHANGED <<pressed, keypipe>>

\* over.rs: RETURN exits, any other key puts the message box away.
TickOver(k) ==
  /\ Fetched.status = "Over"
  /\ \/ k = "RETURN" /\ Exit
     \/ k = "NONE" /\ view' = Fetched /\ UNCHANGED gui
     \/ /\ k \notin {"NONE", "RETURN"}
        /\ view' = [Fetched EXCEPT !.status = "NotStarted"]
        /\ UNCHANGED gui
  /\ UNCHANGED <<pressed, keypipe>>

Tick == /\ gui = "open"
        /\ channel' = << >>
        /\ UNCHANGED <<server, stream, fwd, key, sent>>
        /\ \E k \in Key : TickIdle \/ TickRunning(k) \/ TickOver(k)

CloseWindow == /\ gui = "open"
               /\ Exit
               /\ channel' = << >>
               /\ UNCHANGED <<server, stream, pressed, keys>>

-----------------------------------------------------------------------------
(* The forwarder.                                                          *)

\* A read takes all the keys there are, up to the length of the buffer, and the first
\* of them is sent.
Forward == /\ fwd = "read" /\ keypipe # << >>
           /\ key' = <<Head(keypipe)>>
           /\ keypipe' = SubSeq(keypipe, BUFFER + 1, Len(keypipe))
           /\ fwd' = "write"
           /\ UNCHANGED <<server, stream, channel, window, sent>>

WriteEndKept == gui = "open" \/ fwd # "ended"

\* Who holds the write end of that pipe: the forwarder has closed its own.
WriteEnd == gui = "open"

EndOfKeys == /\ fwd = "read" /\ keypipe = << >>
             /\ ~WriteEnd
             /\ fwd' = "ended"
             /\ UNCHANGED <<server, stream, channel, window, keypipe, key, sent>>

SendKeyKept == /\ fwd = "write"
               /\ sent' = IF conn \in {"cut", "lost"} THEN sent ELSE sent \o key
               /\ fwd' = "read"
               /\ UNCHANGED <<server, stream, channel, window, keypipe, key>>

\* A first write after the server's end is closed still succeeds; the next one is SIGPIPE.
SendKey == /\ fwd = "write"
           /\ sent' = IF conn \in {"cut", "lost"} THEN sent ELSE sent \o key
           /\ key' = << >>
           /\ fwd' = "read"
           /\ UNCHANGED <<server, stream, channel, window, keypipe>>

SendKeyFails == /\ fwd = "write"
                /\ conn \in {"cut", "lost"}
                /\ key' = << >>
                /\ fwd' = "ended"
                /\ UNCHANGED <<server, stream, channel, window, keypipe, sent>>

Forwarder == Forward \/ EndOfKeys \/ SendKey \/ SendKeyFails

-----------------------------------------------------------------------------

Next == \/ Prepare \/ Register \/ PlayMine \/ PlayOther
        \/ Deliver \/ BroadcasterDies \/ HangUp \/ ServerDies \/ NextGame
        \/ Receive \/ Tick \/ CloseWindow \/ Forwarder

\* The threads of the window, the forwarder and the broadcaster run; a tick comes without
\* a key, too.  Nothing is assumed of the server and of whoever sits in front of a window.
Fairness == /\ WF_vars(Receive)
            /\ WF_vars(channel # << >> /\ Tick)
            /\ WF_vars(Forwarder)
            /\ WF_vars(Deliver)

Spec == Init /\ [][Next]_vars

FairSpec == Spec /\ Fairness

-----------------------------------------------------------------------------

\* Every variable holds a value of its type, the forwarder a key while it writes one.
TypeOK ==
  /\ conn \in {"none", "loaded", "playing", "cut", "lost"} /\ moves \in 0 .. MaxMoves
  /\ games \in 1 .. MaxGames /\ clean \in BOOLEAN
  /\ bcast \in IF conn = "playing" THEN {"runs", "ended", "died"} ELSE {"none"}
  /\ gui \in {"open", "closed"} /\ fwd \in {"read", "write", "ended"}
  /\ view.status \in {"NotStarted", "Running", "Over"}
  /\ view.player \in {0, Me} /\ view.winner \in {0} \cup Player
  /\ view.tiles \in [Cells -> {"WALL", "FLOOR"}]
  /\ DOMAIN view.intents \subseteq DOMAIN view.ents
  /\ \A id \in DOMAIN view.ents : view.ents[id].pos \in Position
  /\ keypipe \in Seq(Dirs) /\ sent \in Seq(Dirs) /\ key \in Seq(Dirs)
  /\ Len(key) = IF fwd = "write" THEN 1 ELSE 0

\* What the game would look like on a screen: food and players, each once.
Screen == {[item |-> state.map[c], pos |-> CHOOSE at \in Position : Position2Index(at) = c] :
             c \in EdibleCells(state.map)}
            \cup {[item |-> IF p = 1 THEN "PLAYER1" ELSE "PLAYER2", pos |-> state.positions[p]] :
                    p \in Player}

Shows(ents) == {ents[id] : id \in DOMAIN ents}

\* What the window shows once it has taken in what is written for it.  In every game, with
\* whatever the last one has left in the pipe: each wall, whom it plays and, when the
\* broadcaster has caught up, no food that is gone and two players.  In a game
\* that began with an empty pipe, when the broadcaster has caught up or ended: each piece
\* of food that is left and both players where they are, nothing twice and nothing else,
\* and, if and only if the game is over, that it is and who has won.
Replica ==
  gui = "open" /\ conn = "playing" =>
    LET v    == Taken(view, channel \o stream)
        ents == Move(v).ents
    IN  /\ v.player = Me
        /\ v.tiles = [c \in Cells |-> IF state.map[c] = "WALL" THEN "WALL" ELSE "FLOOR"]
        /\ bcast = "runs" /\ pipe = << >> =>
             /\ \A e \in Shows(ents) : e.item \in Edible => e \in Screen
             /\ Cardinality({id \in DOMAIN ents : ents[id].item \notin Edible}) = 2
        /\ clean /\ (bcast = "ended" \/ (bcast = "runs" /\ pipe = << >>)) =>
             /\ Shows(ents) = Screen
             /\ Cardinality(DOMAIN ents) = Cardinality(Screen)
             /\ IF state.game_over
                  THEN v.status \in {"Over", "NotStarted"} /\ v.winner = Winner(state)
                  ELSE v.status = "Running" /\ v.winner = 0

\* No key is on its way to the server before both load_maps are done and the server has
\* said so: what Server assumes of clients without -test, and LoadsAlone rests on.
KeysAfterRegistration == keypipe \o key \o sent # << >> => conn \in {"playing", "cut", "lost"}

\* A player in front of an open window gets to see the end of a game and who has won it,
\* unless the broadcaster is killed or the connection torn down first, or the game began
\* with messages of the last one: an old GAME_OVER among them ends the broadcaster.
EndIsShown ==
  (conn = "playing" /\ state.game_over /\ clean)
    ~> \/ view.winner = Winner(state)
       \/ gui = "closed" \/ conn # "playing" \/ bcast = "died"

\* Once the window is closed the forwarder ends, and with it the connection: the handler
\* gets its end of file, which is all that the server learns of a player who leaves.
WindowCloses == gui = "closed" ~> fwd = "ended"

=============================================================================

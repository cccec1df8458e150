-------------------------------- MODULE Labo --------------------------------
(***************************************************************************)
(* pas_labo, the program that plays a game from two input files, and the   *)
(* two pas_client -test that it feeds.  Each client is two processes: the  *)
(* forwarder, from the pipe of its player to the server, and the one that  *)
(* connects and becomes the GUI.  All of them inherit descriptors, and the *)
(* usleep calls between the steps of pas_labo order nothing.               *)
(*                                                                         *)
(* The server is what the others see of it: it listens, it has two         *)
(* players, it is gone.  It has got SIGINT before the first key, so that   *)
(* it exits with its first game.  A definition whose name adds a word to   *)
(* that of the one it precedes is a bug one could write there.             *)
(***************************************************************************)
EXTENDS Naturals, Sequences

CONSTANT Input               \* the keys of each input file; other characters are skipped

Player   == {1, 2}
Other(p) == IF p = 1 THEN 2 ELSE 1
BUFFER   == 4                                      \* keys that one read may return

Keys(p) == {Input[p][i] : i \in DOMAIN Input[p]}

ASSUME InputAssumption == DOMAIN Input = Player /\ \A p \in Player : Input[p] \in Seq(Keys(p))

VARIABLES labo,              \* where pas_labo is
          who,               \* the client it starts or the player whose turn it is
          left,              \* what it has still to read of each file
          ended,             \* end_player_1, end_player_2
          pipe,              \* the pipe to each forwarder
          gui,               \* the process of each client that becomes the GUI
          fwd,               \* each forwarder
          key,               \* the key a forwarder is about to send
          conns,             \* the clients in the order of their connections
          sent,              \* the keys each client has sent to the server
          server             \* none, starting, lobby, play, gone

clients == <<gui, fwd, key, conns, sent>>
vars    == <<labo, who, left, ended, pipe, clients, server>>

Init == /\ labo = "server" /\ who = 1
        /\ left  = Input
        /\ ended = [p \in Player |-> FALSE]
        /\ pipe  = [p \in Player |-> << >>]
        /\ gui   = [p \in Player |-> "none"]
        /\ fwd   = [p \in Player |-> "none"]
        /\ key   = [p \in Player |-> << >>]
        /\ conns = << >>
        /\ sent  = [p \in Player |-> << >>]
        /\ server = "none"

-----------------------------------------------------------------------------
(* pas_labo.                                                               *)

ForkServer == /\ labo = "server"
              /\ server' = "starting"
              /\ labo' = "client"
              /\ UNCHANGED <<who, left, ended, pipe, clients>>

ForkClient == /\ labo = "client"
              /\ gui' = [gui EXCEPT ![who] = "start"]
              /\ who' = Other(who)
              /\ labo' = IF who = 1 THEN "client" ELSE "sigint"
              /\ UNCHANGED <<left, ended, pipe, fwd, key, conns, sent, server>>

\* A server that has not yet set its handler dies of it.
SendSigint == /\ labo = "sigint"
              /\ server' = IF server = "starting" THEN "gone" ELSE server
              /\ labo' = "feed"
              /\ UNCHANGED <<who, left, ended, pipe, clients>>

FeedAgain == /\ labo = "feed"
             /\ IF left[who] = << >>
                  THEN ended' = [ended EXCEPT ![who] = TRUE] /\ UNCHANGED pipe
                  ELSE pipe' = [pipe EXCEPT ![who] = Append(@, Head(left[who]))] /\ UNCHANGED ended
             /\ who' = Other(who)
             /\ UNCHANGED <<labo, left, clients, server>>

FeedPastEnd == /\ labo = "feed" /\ ~ended[who]
               /\ IF left[who] = << >>
                    THEN /\ ended' = [ended EXCEPT ![who] = TRUE]
                         /\ pipe' = [pipe EXCEPT ![who] = Append(@, "EOF")]
                         /\ UNCHANGED left
                    ELSE /\ pipe' = [pipe EXCEPT ![who] = Append(@, Head(left[who]))]
                         /\ left' = [left EXCEPT ![who] = Tail(@)]
                         /\ UNCHANGED ended
               /\ who' = Other(who)
               /\ UNCHANGED <<labo, clients, server>>

\* One turn of a player: the next key of its file, or the end of it.  A player whose
\* file has been read is passed over, which is the same as reading its end again.
Feed == /\ labo = "feed"
        /\ ~(who = 1 /\ ended[1] /\ ended[2])
        /\ IF left[who] = << >>
             THEN /\ ended' = [ended EXCEPT ![who] = TRUE]
                  /\ UNCHANGED <<left, pipe>>
             ELSE /\ pipe' = [pipe EXCEPT ![who] = Append(@, Head(left[who]))]
                  /\ left' = [left EXCEPT ![who] = Tail(@)]
                  /\ UNCHANGED ended
        /\ who' = Other(who)
        /\ UNCHANGED <<labo, clients, server>>

Close == /\ labo = "feed" /\ who = 1 /\ ended[1] /\ ended[2]
         /\ labo' = "kill"
         /\ UNCHANGED <<who, left, ended, pipe, clients, server>>

\* SIGINT to the two processes that it has forked; the forwarders are their children.  One
\* that has not forked yet may have set its handler, which lets it go on.
KillClients == /\ labo = "kill"
               /\ \E spared \in SUBSET {p \in Player : gui[p] = "start"} :
                    gui' = [p \in Player |-> IF p \in spared THEN "start" ELSE "dead"]
               /\ labo' = "wait"
               /\ UNCHANGED <<who, left, ended, pipe, fwd, key, conns, sent, server>>

WaitServer == /\ labo = "wait"
              /\ server = "gone"
              /\ labo' = "done"
              /\ UNCHANGED <<who, left, ended, pipe, clients, server>>

PasLabo == ForkServer \/ ForkClient \/ SendSigint \/ Feed \/ Close \/ KillClients \/ WaitServer

-----------------------------------------------------------------------------
(* pas_client -test of player p.                                           *)

ForkForwarder(p) == /\ gui[p] = "start"
                    /\ gui' = [gui EXCEPT ![p] = "connect"]
                    /\ fwd' = [fwd EXCEPT ![p] = "read"]
                    /\ UNCHANGED <<labo, who, left, ended, pipe, key, conns, sent, server>>

\* A server that is starting may or may not listen yet.
Connect(p) == /\ gui[p] = "connect"
              /\ server \in {"starting", "lobby"}
              /\ conns' = Append(conns, p)
              /\ gui' = [gui EXCEPT ![p] = "run"]
              /\ UNCHANGED <<labo, who, left, ended, pipe, fwd, key, sent, server>>

\* Nobody listens, or the handler of the SIGINT has closed the socket.
ConnectFails(p) == /\ gui[p] = "connect"
                   /\ server \in {"starting", "gone"} \/ labo \in {"wait", "done"}
                   /\ gui' = [gui EXCEPT ![p] = "dead"]
                   /\ UNCHANGED <<labo, who, left, ended, pipe, fwd, key, conns, sent, server>>

\* Somebody closes its window.
CloseWindow(p) == /\ gui[p] = "run"
                  /\ gui' = [gui EXCEPT ![p] = "dead"]
                  /\ UNCHANGED <<labo, who, left, ended, pipe, fwd, key, conns, sent, server>>

Connected(p) == \E i \in DOMAIN conns : conns[i] = p

Alive(p) == gui[p] \in {"start", "connect", "run"} \/ fwd[p] \in {"read", "write"}

WriteEndKept(p) == labo \notin {"kill", "wait", "done"} \/ Alive(p) \/ Alive(Other(p))

\* Who holds the write end of the pipe of p: pas_labo until it closes it, and the other
\* client, which closes the write end of its own pipe and the other's read end only.
WriteEnd(p) == labo \notin {"kill", "wait", "done"} \/ Alive(Other(p))

\* A read takes all the keys there are, up to the length of the buffer.
Forward(p) == /\ fwd[p] = "read" /\ pipe[p] # << >>
              /\ key' = [key EXCEPT ![p] = <<Head(pipe[p])>>]
              /\ pipe' = [pipe EXCEPT ![p] = SubSeq(@, BUFFER + 1, Len(@))]
              /\ fwd' = [fwd EXCEPT ![p] = "write"]
              /\ UNCHANGED <<labo, who, left, ended, gui, conns, sent, server>>

EndOfKeys(p) == /\ fwd[p] = "read" /\ pipe[p] = << >>
                /\ ~WriteEnd(p)
                /\ fwd' = [fwd EXCEPT ![p] = "ended"]
                /\ UNCHANGED <<labo, who, left, ended, pipe, gui, key, conns, sent, server>>

SendKey(p) == /\ fwd[p] = "write"
              /\ Connected(p)
              /\ sent' = [sent EXCEPT ![p] = @ \o key[p]]
              /\ key' = [key EXCEPT ![p] = << >>]
              /\ fwd' = [fwd EXCEPT ![p] = "read"]
              /\ UNCHANGED <<labo, who, left, ended, pipe, gui, conns, server>>

\* SIGPIPE on a socket that is not connected, or no longer.
SendKeyFails(p) == /\ fwd[p] = "write"
                   /\ ~Connected(p) \/ server = "gone"
                   /\ key' = [key EXCEPT ![p] = << >>]
                   /\ fwd' = [fwd EXCEPT ![p] = "ended"]
                   /\ UNCHANGED <<labo, who, left, ended, pipe, gui, conns, sent, server>>

Client(p) == \/ ForkForwarder(p) \/ Connect(p) \/ ConnectFails(p)
             \/ Forward(p) \/ EndOfKeys(p) \/ SendKey(p) \/ SendKeyFails(p)

-----------------------------------------------------------------------------
(* The server.                                                             *)

Listen == /\ server = "starting"
          /\ server' = "lobby"
          /\ UNCHANGED <<labo, who, left, ended, pipe, clients>>

Play == /\ server = "lobby"
        /\ Len(conns) = 2
        /\ server' = "play"
        /\ UNCHANGED <<labo, who, left, ended, pipe, clients>>

Alarm == /\ server = "lobby"
         /\ server' = "gone"
         /\ UNCHANGED <<labo, who, left, ended, pipe, clients>>

\* A key may end the game; whether it does is for the map to say.
GameOver == /\ server = "play"
            /\ \E p \in Player : sent[p] # << >>
            /\ server' = "gone"
            /\ UNCHANGED <<labo, who, left, ended, pipe, clients>>

\* End of file on a connection: both processes of the client hold the socket.
PlayerLeft == /\ server = "play"
              /\ \E p \in Player : ~Alive(p)
              /\ server' = "gone"
              /\ UNCHANGED <<labo, who, left, ended, pipe, clients>>

-----------------------------------------------------------------------------

Next == \/ PasLabo
        \/ \E p \in Player : Client(p) \/ CloseWindow(p)
        \/ Listen \/ Play \/ Alarm \/ GameOver \/ PlayerLeft

\* Every process that can run runs.  Nobody has to close a window, and the keys of the
\* files need not end the game.
Fairness == /\ WF_vars(PasLabo)
            /\ \A p \in Player : WF_vars(Client(p))
            /\ WF_vars(Listen \/ Play \/ Alarm) /\ WF_vars(PlayerLeft)

FairSpec == Init /\ [][Next]_vars /\ Fairness

-----------------------------------------------------------------------------

\* Every variable holds a value of its type; only keys go through the pipes.
TypeOK == /\ labo \in {"server", "client", "sigint", "feed", "kill", "wait", "done"}
          /\ who \in Player
          /\ \A p \in Player : /\ left[p] \in Seq(Keys(p)) /\ pipe[p] \in Seq(Keys(p))
                               /\ sent[p] \in Seq(Keys(p)) /\ key[p] \in Seq(Keys(p))
          /\ ended \in [Player -> BOOLEAN]
          /\ gui \in [Player -> {"none", "start", "connect", "run", "dead"}]
          /\ fwd \in [Player -> {"none", "read", "write", "ended"}]
          /\ conns \in Seq(Player)
          /\ server \in {"none", "starting", "lobby", "play", "gone"}

\* The keys of s occur in f, in this order, each at a place of its own.
Within(s, f) == \E at \in [DOMAIN s -> DOMAIN f] :
                  /\ \A i \in DOMAIN s : s[i] = f[at[i]]
                  /\ \A i, j \in DOMAIN s : i < j => at[i] < at[j]

\* What a client has sent and will still send are keys of its own file, in the order of
\* the file and none twice, though some may be missing.
InOrder == \A p \in Player : Within(sent[p] \o key[p] \o pipe[p] \o left[p], Input[p])

\* A forwarder ends once the other client is gone and there are no keys any more.
LastForwarderEnds ==
  \A p \in Player : (labo = "wait" /\ ~Alive(Other(p)) /\ fwd[p] # "none") ~> fwd[p] = "ended"

-----------------------------------------------------------------------------
(* What comments of the code say, and the code does not do.                *)

\* pas_labo.c:134, "wait server to finish": after its clients have been stopped the
\* server does finish.
ServerFinishes == labo = "wait" ~> labo = "done"

=============================================================================

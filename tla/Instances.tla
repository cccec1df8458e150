----------------------------- MODULE Instances -----------------------------
(***************************************************************************)
(* Several starts of pas_server on one machine, one after the other or at  *)
(* once.  The semaphore and the segment are found by key (ipc_keys.h) and  *)
(* stay when the process that made them is gone: a start may find those of *)
(* an earlier one that died, or of one that is still playing.              *)
(*                                                                         *)
(* Server looks into one start in detail; here a game is the handlers'     *)
(* critical sections and the server's reset.  Handlers whose server is     *)
(* gone go on, and no start looks for them.                                *)
(*                                                                         *)
(* raised and jammed are history: no step depends on them.  A definition   *)
(* whose name adds a word to that of the one it precedes is a bug one      *)
(* could write there.                                                      *)
(***************************************************************************)
EXTENDS Integers, FiniteSets

CONSTANTS Start,             \* the starts of pas_server
          Port,              \* the port each of them is given
          Careful,           \* starts made only when no other server is running
          Mortal,            \* starts that may die without cleanup
          MaxGames           \* bound: games of one start

ASSUME StartAssumption == /\ Careful \subseteq Start /\ Mortal \subseteq Start
                          /\ 0 \notin Start /\ MaxGames \in Nat

Player  == {1, 2}
Handler == Start \X Player

VARIABLES semKey,            \* the start that made the semaphore found under SEM_KEY, or 0
          shmKey,            \* the same for the segment and SHM_KEY
          sem,               \* the value of the semaphore that each start made, or -1
          pc,                \* where each server is
          semId, shmId,      \* what each server has got for the keys
          games,             \* games that it has finished
          hpc,               \* where each handler is
          hsem, hshm,        \* what each handler has got for the keys
          raised,            \* the semaphores last set to 1 while somebody was inside
          jammed             \* those with an orphan dead inside since they were last set

ids      == <<semKey, shmKey, sem>>
servers  == <<pc, semId, shmId, games>>
handlers == <<hpc, hsem, hshm>>
past     == <<raised, jammed>>
vars     == <<ids, servers, handlers, past>>

Init == /\ semKey = 0 /\ shmKey = 0
        /\ sem   = [s \in Start |-> -1]
        /\ pc    = [s \in Start |-> "none"]
        /\ semId = [s \in Start |-> 0] /\ shmId = [s \in Start |-> 0]
        /\ games = [s \in Start |-> 0]
        /\ hpc   = [h \in Handler |-> "none"]
        /\ hsem  = [h \in Handler |-> 0] /\ hshm = [h \in Handler |-> 0]
        /\ raised = {} /\ jammed = {}

Gone    == {"exited", "died"}                      \* with cleanup, without
Serving == {"serve", "lock", "inside"}             \* bound to the port, its loop entered
Bound   == Serving \cup {"rmshm", "rmsem"}

Goto(s, l)  == pc' = [pc EXCEPT ![s] = l]
HGoto(h, l) == hpc' = [hpc EXCEPT ![h] = l]

\* Those between sem_down0 and sem_up0 of a semaphore.
Behind(i) == {h \in Handler : hpc[h] = "inside" /\ hsem[h] = i}
               \cup {s \in Start : pc[s] = "inside" /\ semId[s] = i}

\* Somebody runs pas_server, and if they are careful not before the others have exited or
\* died.  Handlers may still be there: the program does not tell of them.
Run(s) == /\ pc[s] = "none"
          /\ s \in Careful => \A t \in Start \ {s} : pc[t] \in {"none"} \cup Gone
          /\ Goto(s, "semget")
          /\ UNCHANGED <<ids, semId, shmId, games, handlers, past>>

-----------------------------------------------------------------------------
(* init_ipc and what follows it until the server listens.                  *)

\* semget with IPC_CREAT: the semaphore there is, or a new one.
SemGet(s) == /\ pc[s] = "semget"
             /\ semId' = [semId EXCEPT ![s] = IF semKey = 0 THEN s ELSE semKey]
             /\ semKey' = semId'[s]
             /\ sem' = IF semKey = 0 THEN [sem EXCEPT ![s] = 0] ELSE sem
             /\ Goto(s, "setval")
             /\ UNCHANGED <<shmKey, shmId, games, handlers, past>>

SemSetOwn(s) == /\ pc[s] = "setval"
                /\ sem' = IF semId[s] = s THEN [sem EXCEPT ![s] = 1] ELSE sem
                /\ Goto(s, "shmget")
                /\ UNCHANGED <<semKey, shmKey, semId, shmId, games, handlers, past>>

\* semctl SETVAL, whoever has made the semaphore and whoever is inside; it may be gone
\* by now, which ends the start.
SemSet(s) == /\ pc[s] = "setval"
             /\ IF sem[semId[s]] = -1
                  THEN Goto(s, "died") /\ UNCHANGED <<sem, past>>
                  ELSE /\ Goto(s, "shmget")
                       /\ sem' = [sem EXCEPT ![semId[s]] = 1]
                       /\ raised' = IF Behind(semId[s]) = {} THEN raised \ {semId[s]}
                                                            ELSE raised \cup {semId[s]}
                       /\ jammed' = jammed \ {semId[s]}
             /\ UNCHANGED <<semKey, shmKey, semId, shmId, games, handlers>>

ShmGet(s) == /\ pc[s] = "shmget"
             /\ shmId' = [shmId EXCEPT ![s] = IF shmKey = 0 THEN s ELSE shmKey]
             /\ shmKey' = shmId'[s]
             /\ Goto(s, "bind")
             /\ UNCHANGED <<semKey, sem, semId, games, handlers, past>>

\* A port that is taken ends the start, which leaves what it has found or made.
Bind(s) == /\ pc[s] = "bind"
           /\ Goto(s, IF \E t \in Start : Port[t] = Port[s] /\ pc[t] \in Bound
                        THEN "died" ELSE "serve")
           /\ UNCHANGED <<ids, semId, shmId, games, handlers, past>>

-----------------------------------------------------------------------------
(* The games of a start.                                                   *)

Fork(s, p) == /\ pc[s] = "serve" /\ games[s] < MaxGames
              /\ hpc[<<s, p>>] = "none"
              /\ p = 2 => hpc[<<s, 1>>] # "none"
              /\ HGoto(<<s, p>>, "get")
              /\ UNCHANGED <<ids, servers, hsem, hshm, past>>

\* Both players are there and a child has ended, the broadcaster at the latest when a
\* client has gone: the others are killed, wherever they are.
EndGame(s) == /\ pc[s] = "serve"
              /\ \A p \in Player : hpc[<<s, p>>] # "none"
              /\ hpc' = [h \in Handler |-> IF h[1] = s THEN "none" ELSE hpc[h]]
              /\ Goto(s, "lock")
              /\ UNCHANGED <<ids, semId, shmId, games, hsem, hshm, past>>

\* sem_down0 and reset_gamestate.  A semaphore that is gone is the end, without cleanup.
Lock(s) == /\ pc[s] = "lock" /\ sem[semId[s]] # 0
           /\ IF sem[semId[s]] = -1
                THEN Goto(s, "died") /\ UNCHANGED sem
                ELSE Goto(s, "inside") /\ sem' = [sem EXCEPT ![semId[s]] = @ - 1]
           /\ UNCHANGED <<semKey, shmKey, semId, shmId, games, handlers, past>>

\* sem_up0; then the next game or, after a SIGINT, cleanup.
Unlock(s) == /\ pc[s] = "inside"
             /\ IF sem[semId[s]] = -1
                  THEN Goto(s, "died") /\ UNCHANGED <<sem, games>>
                  ELSE /\ Goto(s, "serve") \/ Goto(s, "rmshm")
                       /\ sem' = [sem EXCEPT ![semId[s]] = @ + 1]
                       /\ games' = [games EXCEPT ![s] = @ + 1]
             /\ UNCHANGED <<semKey, shmKey, semId, shmId, handlers, past>>

\* SIGALRM while the players come in, or when the second one just has: cleanup, and the
\* handlers stay.
Alarm(s) == /\ pc[s] = "serve"
            /\ Goto(s, "rmshm")
            /\ UNCHANGED <<ids, semId, shmId, games, handlers, past>>

\* SIGPIPE, a semop that a signal interrupts, a call that fails at start-up.
Die(s) == /\ s \in Mortal /\ pc[s] \notin {"none"} \cup Gone
          /\ Goto(s, "died")
          /\ UNCHANGED <<ids, semId, shmId, games, handlers, past>>

RemoveShmNot(s) == /\ pc[s] = "rmshm"
                   /\ Goto(s, "rmsem")
                   /\ UNCHANGED <<ids, semId, shmId, games, handlers, past>>

\* cleanup: first the segment, which those who have attached it keep, then the semaphore.
RemoveShm(s) == /\ pc[s] = "rmshm"
                /\ shmKey' = IF shmKey = shmId[s] THEN 0 ELSE shmKey
                /\ Goto(s, "rmsem")
                /\ UNCHANGED <<semKey, sem, semId, shmId, games, handlers, past>>

RemoveSem(s) == /\ pc[s] = "rmsem"
                /\ sem' = [sem EXCEPT ![semId[s]] = -1]
                /\ semKey' = IF semKey = semId[s] THEN 0 ELSE semKey
                /\ Goto(s, "exited")
                /\ UNCHANGED <<shmKey, semId, shmId, games, handlers, past>>

-----------------------------------------------------------------------------
(* A handler.                                                              *)

\* sem_get, then sshmget: whatever is found under the keys by now, if anything is.
GetSem(h) == /\ hpc[h] = "get"
             /\ IF semKey # 0 THEN hsem' = [hsem EXCEPT ![h] = semKey] /\ HGoto(h, "getshm")
                              ELSE HGoto(h, "ended") /\ UNCHANGED hsem
             /\ UNCHANGED <<ids, servers, hshm, past>>

GetShm(h) == /\ hpc[h] = "getshm"
             /\ IF shmKey # 0 THEN hshm' = [hshm EXCEPT ![h] = shmKey] /\ HGoto(h, "read")
                              ELSE HGoto(h, "ended") /\ UNCHANGED hshm
             /\ UNCHANGED <<ids, servers, hsem, past>>

DownUnheld(h) == /\ hpc[h] = "read"
                 /\ sem[hsem[h]] > 0
                 /\ HGoto(h, "inside")
                 /\ UNCHANGED <<ids, servers, hsem, hshm, past>>

\* A key has come.
Down(h) == /\ hpc[h] = "read"
           /\ sem[hsem[h]] > 0
           /\ sem' = [sem EXCEPT ![hsem[h]] = @ - 1]
           /\ HGoto(h, "inside")
           /\ UNCHANGED <<semKey, shmKey, servers, hsem, hshm, past>>

\* The game goes on or is over.
Up(h) == /\ hpc[h] = "inside"
         /\ sem[hsem[h]] # -1
         /\ sem' = [sem EXCEPT ![hsem[h]] = @ + 1]
         /\ HGoto(h, "read") \/ HGoto(h, "ended")
         /\ UNCHANGED <<semKey, shmKey, servers, hsem, hshm, past>>

\* The client has gone, or the semaphore has.
Leave(h) == /\ \/ hpc[h] = "read"
               \/ hpc[h] = "inside" /\ sem[hsem[h]] = -1
            /\ HGoto(h, "ended")
            /\ UNCHANGED <<ids, servers, hsem, hshm, past>>

\* SIGPIPE from the pipe to the broadcaster, which an orphan may be the last to hold.
DieInside(h) == /\ hpc[h] = "inside" /\ pc[h[1]] \in Gone
                /\ HGoto(h, "ended")
                /\ jammed' = jammed \cup {hsem[h]}
                /\ UNCHANGED <<ids, servers, hsem, hshm, raised>>

-----------------------------------------------------------------------------

Server(s) == \/ Run(s) \/ SemGet(s) \/ SemSet(s) \/ ShmGet(s) \/ Bind(s)
             \/ EndGame(s) \/ Lock(s) \/ Unlock(s)
             \/ Alarm(s) \/ Die(s) \/ RemoveShm(s) \/ RemoveSem(s)
             \/ \E p \in Player : Fork(s, p)

Next == \/ \E s \in Start : Server(s)
        \/ \E h \in Handler : GetSem(h) \/ GetShm(h) \/ Down(h) \/ Up(h)
                                \/ Leave(h) \/ DieInside(h)

Spec == Init /\ [][Next]_vars

-----------------------------------------------------------------------------

InsideSegment(i) == {h \in Handler : hpc[h] = "inside" /\ hshm[h] = i}
                      \cup {s \in Start : pc[s] = "inside" /\ shmId[s] = i}

\* Everybody who works on the state of a game, also a handler that an earlier start has
\* left behind, has gone through the semaphore of this game: none is on its segment with
\* the semaphore of another one.
OneGuard ==
  \A s \in Start, h \in Handler :
    pc[s] \in Serving /\ hpc[h] = "inside" /\ hshm[h] = shmId[s] => hsem[h] = semId[s]

\* At most one process works on a segment, of whichever start it is, unless its semaphore
\* has been set to 1 while somebody was inside.
OneInside ==
  \A i \in Start : semId[i] \notin raised => Cardinality(InsideSegment(i)) <= 1

\* Whatever the one before has died of, also inside or with a handler killed inside, a
\* start finds or makes a semaphore that lets somebody in when nobody is, and keeps it
\* through its first game, unless an orphan has died inside.
Healed ==
  \A s \in Start :
    /\ pc[s] = "serve" /\ games[s] = 0 /\ Behind(semId[s]) = {} /\ semId[s] \notin jammed
    => sem[semId[s]] > 0

-----------------------------------------------------------------------------
(* What a comment of the code says, and the code does not do.              *)

\* client_handler.c:44, "lock semaphore": whoever is past it is alone with the state.
Locked == \A i \in Start : Cardinality(InsideSegment(i)) <= 1

=============================================================================

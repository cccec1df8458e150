-------------------------- MODULE InstancesProofs --------------------------
(***************************************************************************)
(* Theorems about Instances for any number of starts, on any ports, each   *)
(* of which may die wherever it is, and whatever handlers it leaves: as    *)
(* long as nobody starts pas_server while another server is running.       *)
(***************************************************************************)
EXTENDS Instances, FiniteSetTheorems, TLAPS

Early     == {"none", "semget"}                      \* no object under the keys got yet
NoSegment == Early \cup {"setval", "shmget"}
ServerPC  == NoSegment \cup {"bind", "rmshm", "rmsem"} \cup Serving \cup Gone
HandlerPC == {"none", "get", "getshm", "read", "inside", "ended"}

Running(s) == pc[s] \notin {"none"} \cup Gone

Typed ==
  /\ semKey \in Start \cup {0} /\ shmKey \in Start \cup {0}
  /\ sem \in [Start -> Nat \cup {-1}]
  /\ pc \in [Start -> ServerPC] /\ games \in [Start -> Nat]
  /\ semId \in [Start -> Start \cup {0}] /\ shmId \in [Start -> Start \cup {0}]
  /\ hpc \in [Handler -> HandlerPC]
  /\ hsem \in [Handler -> Start \cup {0}] /\ hshm \in [Handler -> Start \cup {0}]

\* No two servers at once; of the handlers nothing is said.
Alone == \A s, t \in Start : Running(s) /\ Running(t) => s = t

\* The keys lead to objects that exist, the segment's to one that the semaphore's guards.
Keys ==
  /\ semKey # 0 => sem[semKey] # -1 /\ pc[semKey] \notin Early
  /\ shmKey # 0 => /\ semKey # 0 /\ semId[shmKey] = semKey
                   /\ pc[shmKey] \notin NoSegment

\* What a server has is what the keys lead to.
Servers ==
  \A s \in Start :
    /\ Running(s) /\ pc[s] # "semget" => semKey # 0 /\ semId[s] = semKey
    /\ pc[s] \in {"bind", "serve", "lock", "inside", "rmshm"} => shmKey # 0 /\ shmId[s] = shmKey
    /\ pc[s] = "rmsem" => shmKey = 0

\* A handler, of a server that runs or not, has a semaphore that is still found under the
\* key, or was removed ...
HasSem ==
  \A h \in Handler :
    /\ hpc[h] \in {"getshm", "read", "inside"} => hsem[h] # 0 /\ pc[hsem[h]] \notin Early
    /\ hpc[h] = "getshm" => hsem[h] = semKey \/ sem[hsem[h]] = -1

\* ... and a segment that this semaphore guards, unless it was removed before the handler
\* looked for the segment, which then finds a removed semaphore when it wants to go in.
HasShm ==
  \A h \in Handler :
    /\ hpc[h] \in {"read", "inside"} => hshm[h] # 0 /\ pc[hshm[h]] \notin NoSegment
    /\ hpc[h] = "read" => hsem[h] = semId[hshm[h]] \/ sem[hsem[h]] = -1
    /\ hpc[h] = "inside" => hsem[h] = semId[hshm[h]]

\* OneInside in terms of who is where.
Exclusive ==
  /\ \A i \in Start \ raised : sem[i] <= 1
  /\ \A h, k \in Handler :
       hpc[h] = "inside" /\ hpc[k] = "inside" /\ hsem[h] = hsem[k] /\ hsem[h] \notin raised => h = k
  /\ \A h \in Handler :
       hpc[h] = "inside" /\ hsem[h] \notin raised =>
         sem[hsem[h]] <= 0 /\ \A s \in Start : pc[s] = "inside" => semId[s] # hsem[h]
  /\ \A s \in Start : pc[s] = "inside" /\ semId[s] \notin raised => sem[semId[s]] <= 0

\* Until its first game is over, the semaphore of a start is free or held by a handler, be
\* it of another start.
Free ==
  \A s \in Start :
    pc[s] \in {"shmget", "bind", "serve"} /\ games[s] = 0 /\ semId[s] \notin jammed =>
      sem[semId[s]] > 0 \/ \E h \in Handler : hpc[h] = "inside" /\ hsem[h] = semId[s]

IInv == Typed /\ Alone /\ Keys /\ Servers /\ HasSem /\ HasShm /\ Exclusive /\ Free

-----------------------------------------------------------------------------

USE StartAssumption DEF Early, NoSegment, ServerPC, HandlerPC, Serving, Gone, Running

LEMMA OwnServer == \A h \in Handler : h[1] \in Start
BY DEF Handler

LEMMA OwnHandler ==
  ASSUME NEW s \in Start, NEW p \in Player PROVE <<s, p>> \in Handler /\ <<s, p>>[1] = s
BY DEF Handler

LEMMA InitIInv == Init => IInv
BY OwnServer DEF Init, IInv, Typed, Alone, Keys, Servers, HasSem, HasShm, Exclusive, Free

\* One step per action of a server and of a handler.
LEMMA NextIInv == ASSUME Careful = Start, IInv, [Next]_vars PROVE IInv'
<1>1. ASSUME NEW s \in Start, Run(s) PROVE IInv'
  <2>1. Typed' /\ Alone' /\ Keys' /\ Servers' /\ HasSem' /\ HasShm' /\ Exclusive' /\ Free'
    BY <1>1 DEF IInv, Typed, Alone, Keys, Servers, HasSem, HasShm, Exclusive, Free, Run, Goto,
           ids, handlers, past
  <2> QED  BY <2>1 DEF IInv
<1>2. ASSUME NEW s \in Start, SemGet(s) PROVE IInv'
  <2>1. HasShm'
    BY <1>2 DEF IInv, Typed, Keys, Servers, HasSem, HasShm, SemGet, Goto, handlers, past
  <2>2. Free'
    BY <1>2 DEF IInv, Typed, Alone, Keys, Servers, HasSem, Free, SemGet, Goto, handlers, past
  <2>3. Typed' /\ Alone' /\ Keys' /\ Servers' /\ HasSem' /\ Exclusive'
    BY <1>2 DEF IInv, Typed, Alone, Keys, Servers, HasSem, Exclusive, SemGet, Goto, handlers,
           past
  <2> QED  BY <2>1, <2>2, <2>3 DEF IInv
<1>3. ASSUME NEW s \in Start, SemSet(s) PROVE IInv'
  <2>1. HasShm'
    BY <1>3 DEF IInv, Typed, Keys, Servers, HasSem, HasShm, SemSet, Goto, handlers, past, Behind
  <2>2. Exclusive'
    BY <1>3 DEF IInv, Typed, Alone, Servers, HasSem, HasShm, Exclusive, SemSet, Goto, handlers,
           past, Behind
  <2>3. Free'
    BY <1>3 DEF IInv, Typed, Alone, Keys, Servers, HasSem, Free, SemSet, Goto, handlers, past,
           Behind
  <2>4. Typed' /\ Alone' /\ Keys' /\ Servers' /\ HasSem'
    BY <1>3 DEF IInv, Typed, Alone, Keys, Servers, HasSem, SemSet, Goto, handlers, past, Behind
  <2> QED  BY <2>1, <2>2, <2>3, <2>4 DEF IInv
<1>4. ASSUME NEW s \in Start, ShmGet(s) PROVE IInv'
  <2>1. Keys'
    BY <1>4 DEF IInv, Typed, Alone, Keys, Servers, ShmGet, Goto, handlers, past
  <2>2. Servers'
    BY <1>4 DEF IInv, Typed, Alone, Keys, Servers, ShmGet, Goto, handlers, past
  <2>3. Typed' /\ Alone' /\ HasSem' /\ HasShm' /\ Exclusive' /\ Free'
    BY <1>4 DEF IInv, Typed, Alone, HasSem, HasShm, Exclusive, Free, ShmGet, Goto, handlers,
           past
  <2> QED  BY <2>1, <2>2, <2>3 DEF IInv
<1>5. ASSUME NEW s \in Start, Bind(s) PROVE IInv'
  <2>1. Typed' /\ Alone' /\ Keys' /\ Servers' /\ HasSem' /\ HasShm' /\ Exclusive' /\ Free'
    BY <1>5 DEF IInv, Typed, Alone, Keys, Servers, HasSem, HasShm, Exclusive, Free, Bind, Goto,
           ids, handlers, past
  <2> QED  BY <2>1 DEF IInv
<1>6. ASSUME NEW s \in Start, EndGame(s) PROVE IInv'
  <2>1. Free'
    BY <1>6 DEF IInv, Typed, Alone, Keys, Servers, HasSem, Free, EndGame, Goto, ids, past
  <2>2. Typed' /\ Alone' /\ Keys' /\ Servers' /\ HasSem' /\ HasShm' /\ Exclusive'
    BY <1>6 DEF IInv, Typed, Alone, Keys, Servers, HasSem, HasShm, Exclusive, EndGame, Goto,
           ids, past
  <2> QED  BY <2>1, <2>2 DEF IInv
<1>7. ASSUME NEW s \in Start, Lock(s) PROVE IInv'
  <2>1. HasShm'
    BY <1>7 DEF IInv, Typed, Keys, Servers, HasSem, HasShm, Lock, Goto, handlers, past
  <2>2. Exclusive'
    BY <1>7 DEF IInv, Typed, Alone, Servers, HasSem, HasShm, Exclusive, Lock, Goto, handlers,
           past
  <2>3. Free'
    BY <1>7 DEF IInv, Typed, Alone, Keys, Servers, HasSem, Free, Lock, Goto, handlers, past
  <2>4. Typed' /\ Alone' /\ Keys' /\ Servers' /\ HasSem'
    BY <1>7 DEF IInv, Typed, Alone, Keys, Servers, HasSem, Lock, Goto, handlers, past
  <2> QED  BY <2>1, <2>2, <2>3, <2>4 DEF IInv
<1>8. ASSUME NEW s \in Start, Unlock(s) PROVE IInv'
  <2>1. HasShm'
    BY <1>8 DEF IInv, Typed, Keys, Servers, HasSem, HasShm, Unlock, Goto, handlers, past
  <2>2. Exclusive'
    BY <1>8 DEF IInv, Typed, Alone, Servers, HasSem, HasShm, Exclusive, Unlock, Goto, handlers,
           past
  <2>3. Free'
    BY <1>8 DEF IInv, Typed, Alone, Keys, Servers, HasSem, Free, Unlock, Goto, handlers, past
  <2>4. Typed' /\ Alone' /\ Keys' /\ Servers' /\ HasSem'
    BY <1>8 DEF IInv, Typed, Alone, Keys, Servers, HasSem, Unlock, Goto, handlers, past
  <2> QED  BY <2>1, <2>2, <2>3, <2>4 DEF IInv
<1>9. ASSUME NEW s \in Start, Alarm(s) PROVE IInv'
  <2>1. Typed' /\ Alone' /\ Keys' /\ Servers' /\ HasSem' /\ HasShm' /\ Exclusive' /\ Free'
    BY <1>9 DEF IInv, Typed, Alone, Keys, Servers, HasSem, HasShm, Exclusive, Free, Alarm, Goto,
           ids, handlers, past
  <2> QED  BY <2>1 DEF IInv
<1>10. ASSUME NEW s \in Start, Die(s) PROVE IInv'
  <2>1. Typed' /\ Alone' /\ Keys' /\ Servers' /\ HasSem' /\ HasShm' /\ Exclusive' /\ Free'
    BY <1>10 DEF IInv, Typed, Alone, Keys, Servers, HasSem, HasShm, Exclusive, Free, Die, Goto,
           ids, handlers, past
  <2> QED  BY <2>1 DEF IInv
<1>11. ASSUME NEW s \in Start, RemoveShm(s) PROVE IInv'
  <2>1. Servers'
    BY <1>11 DEF IInv, Typed, Alone, Keys, Servers, RemoveShm, Goto, handlers, past
  <2>2. Typed' /\ Alone' /\ Keys' /\ HasSem' /\ HasShm' /\ Exclusive' /\ Free'
    BY <1>11 DEF IInv, Typed, Alone, Keys, HasSem, HasShm, Exclusive, Free, RemoveShm, Goto,
           handlers, past
  <2> QED  BY <2>1, <2>2 DEF IInv
<1>12. ASSUME NEW s \in Start, RemoveSem(s) PROVE IInv'
  <2>1. Typed'
    BY <1>12 DEF IInv, Typed, RemoveSem, Goto, handlers, past
  <2>2. Alone'
    BY <1>12 DEF IInv, Alone, RemoveSem, Goto, handlers, past
  <2>3. Keys'
    BY <1>12 DEF IInv, Typed, Alone, Keys, Servers, RemoveSem, Goto, handlers, past
  <2>4. Servers'
    BY <1>12 DEF IInv, Typed, Alone, Keys, Servers, RemoveSem, Goto, handlers, past
  <2>5. HasSem'
    BY <1>12 DEF IInv, Typed, HasSem, RemoveSem, Goto, handlers, past
  <2>6. HasShm'
    BY <1>12 DEF IInv, HasShm, RemoveSem, Goto, handlers, past
  <2>7. Exclusive'
    BY <1>12 DEF IInv, Exclusive, RemoveSem, Goto, handlers, past
  <2>8. Free'
    BY <1>12 DEF IInv, Typed, Alone, Keys, Servers, HasSem, Free, RemoveSem, Goto, handlers,
           past
  <2> QED  BY <2>1, <2>2, <2>3, <2>4, <2>5, <2>6, <2>7, <2>8 DEF IInv
<1>13. ASSUME NEW s \in Start, NEW p \in Player, Fork(s, p) PROVE IInv'
  <2>1. Typed'
    BY <1>13 DEF IInv, Typed, Fork, HGoto, ids, servers, past
  <2>2. Alone'
    BY <1>13 DEF IInv, Alone, Fork, HGoto, ids, servers, past
  <2>3. Keys'
    BY <1>13 DEF IInv, Keys, Fork, HGoto, ids, servers, past
  <2>4. Servers'
    BY <1>13 DEF IInv, Servers, Fork, HGoto, ids, servers, past
  <2>5. HasSem'
    BY <1>13 DEF IInv, HasSem, Fork, HGoto, ids, servers, past
  <2>6. HasShm'
    BY <1>13 DEF IInv, HasShm, Fork, HGoto, ids, servers, past
  <2>7. Exclusive'
    BY <1>13 DEF IInv, Exclusive, Fork, HGoto, ids, servers, past
  <2>8. Free'
    BY <1>13 DEF IInv, Free, Fork, HGoto, ids, servers, past
  <2> QED  BY <2>1, <2>2, <2>3, <2>4, <2>5, <2>6, <2>7, <2>8 DEF IInv
<1>14. ASSUME NEW h \in Handler, GetSem(h) PROVE IInv'
  <2>1. HasSem'
    BY <1>14 DEF IInv, Typed, Keys, Servers, HasSem, GetSem, HGoto, ids, servers, past
  <2>2. Typed' /\ Alone' /\ Keys' /\ Servers' /\ HasShm' /\ Exclusive' /\ Free'
    BY <1>14 DEF IInv, Typed, Alone, Keys, Servers, HasShm, Exclusive, Free, GetSem, HGoto, ids,
           servers, past
  <2> QED  BY <2>1, <2>2 DEF IInv
<1>15. ASSUME NEW h \in Handler, GetShm(h) PROVE IInv'
  <2>1. HasShm'
    BY <1>15 DEF IInv, Typed, Keys, Servers, HasSem, HasShm, GetShm, HGoto, ids, servers, past
  <2>2. Typed' /\ Alone' /\ Keys' /\ Servers' /\ HasSem' /\ Exclusive' /\ Free'
    BY <1>15 DEF IInv, Typed, Alone, Keys, Servers, HasSem, Exclusive, Free, GetShm, HGoto, ids,
           servers, past
  <2> QED  BY <2>1, <2>2 DEF IInv
<1>16. ASSUME NEW h \in Handler, Down(h) PROVE IInv'
  <2>1. Typed'
    BY <1>16 DEF IInv, Typed, HasSem, Down, HGoto, servers, past
  <2>2. Exclusive'
    BY <1>16 DEF IInv, Typed, Alone, Servers, HasSem, HasShm, Exclusive, Down, HGoto, servers,
           past
  <2>3. Alone' /\ Keys' /\ Servers' /\ HasSem' /\ HasShm' /\ Free'
    BY <1>16 DEF IInv, Typed, Alone, Keys, Servers, HasSem, HasShm, Free, Down, HGoto, servers,
           past
  <2> QED  BY <2>1, <2>2, <2>3 DEF IInv
<1>17. ASSUME NEW h \in Handler, Up(h) PROVE IInv'
  <2>1. Typed'
    BY <1>17 DEF IInv, Typed, HasSem, Up, HGoto, servers, past
  <2>2. Free'
    BY <1>17 DEF IInv, Typed, Alone, Keys, Servers, HasSem, Free, Up, HGoto, servers, past
  <2>3. Alone' /\ Keys' /\ Servers' /\ HasSem' /\ HasShm' /\ Exclusive'
    BY <1>17 DEF IInv, Typed, Alone, Keys, Servers, HasSem, HasShm, Exclusive, Up, HGoto,
           servers, past
  <2> QED  BY <2>1, <2>2, <2>3 DEF IInv
<1>18. ASSUME NEW h \in Handler, Leave(h) PROVE IInv'
  <2>1. Free'
    BY <1>18 DEF IInv, Typed, Alone, Keys, Servers, HasSem, Free, Leave, HGoto, ids, servers,
           past
  <2>2. Typed' /\ Alone' /\ Keys' /\ Servers' /\ HasSem' /\ HasShm' /\ Exclusive'
    BY <1>18 DEF IInv, Typed, Alone, Keys, Servers, HasSem, HasShm, Exclusive, Leave, HGoto,
           ids, servers, past
  <2> QED  BY <2>1, <2>2 DEF IInv
<1>19. ASSUME NEW h \in Handler, DieInside(h) PROVE IInv'
  <2>1. Typed' /\ Alone' /\ Keys' /\ Servers' /\ HasSem' /\ HasShm' /\ Exclusive' /\ Free'
    BY <1>19 DEF IInv, Typed, Alone, Keys, Servers, HasSem, HasShm, Exclusive, Free, DieInside,
           HGoto, ids, servers
  <2> QED  BY <2>1 DEF IInv
<1>20. CASE UNCHANGED vars
  BY <1>20 DEF vars, ids, servers, handlers, past, IInv, Typed, Alone, Keys, Servers, HasSem,
         HasShm, Exclusive, Free
<1> QED  BY <1>1, <1>2, <1>3, <1>4, <1>5, <1>6, <1>7, <1>8, <1>9, <1>10, <1>11, <1>12,
             <1>13, <1>14, <1>15, <1>16, <1>17, <1>18, <1>19, <1>20
     DEF Next, Server

\* The invariant the theorems below share.
LEMMA AlwaysIInv == ASSUME Careful = Start PROVE Spec => []IInv
BY InitIInv, NextIInv, PTL DEF Spec

-----------------------------------------------------------------------------

\* All who work on one segment, be they handlers that a start before has left, are behind
\* the semaphore that was got with it.
LEMMA SameSemaphore ==
  ASSUME IInv, NEW i \in Start
  PROVE  /\ \A h \in Handler : hpc[h] = "inside" /\ hshm[h] = i => hsem[h] = semId[i]
         /\ \A s \in Start : pc[s] \in Serving /\ shmId[s] = i => semId[s] = semId[i]
BY DEF IInv, Keys, Servers, HasShm

\* A set with at most one member, as the cardinality sees it.
LEMMA AtMostOne == ASSUME NEW S, \A x, y \in S : x = y PROVE Cardinality(S) <= 1
<1>1. CASE S = {}
  BY <1>1, FS_EmptySet
<1>2. CASE S # {}
  <2>1. PICK x : x \in S
    BY <1>2
  <2>2. S = {x}
    BY <2>1
  <2> QED  BY <2>2, FS_Singleton
<1> QED  BY <1>1, <1>2

\* client_handler and pas_server.c work on a segment one at a time, whichever start they
\* are of, running or dead, as long as no start sets the semaphore to 1 (utils_v3.c:484)
\* while one of them is inside.
THEOREM OneStartInside == ASSUME Careful = Start PROVE Spec => []OneInside
<1>1. ASSUME IInv, NEW i \in Start, semId[i] \notin raised
      PROVE  Cardinality(InsideSegment(i)) <= 1
  <2>1. ASSUME NEW x \in InsideSegment(i), NEW y \in InsideSegment(i) PROVE x = y
    <3> DEFINE H(z) == z \in Handler /\ hpc[z] = "inside" /\ hshm[z] = i
               S(z) == z \in Start /\ pc[z] = "inside" /\ shmId[z] = i
    <3>1. CASE H(x) /\ H(y)
      BY <1>1, <3>1, SameSemaphore DEF IInv, Exclusive
    <3>2. CASE H(x) /\ S(y)
      BY <1>1, <3>2, SameSemaphore DEF IInv, Exclusive
    <3>3. CASE S(x) /\ H(y)
      BY <1>1, <3>3, SameSemaphore DEF IInv, Exclusive
    <3>4. CASE S(x) /\ S(y)
      BY <1>1, <3>4 DEF IInv, Alone
    <3> QED  BY <3>1, <3>2, <3>3, <3>4 DEF InsideSegment
  <2> QED  BY <2>1, AtMostOne
<1>2. IInv => OneInside
  BY <1>1 DEF OneInside
<1> QED  BY <1>2, AlwaysIInv, PTL

\* A handler that has outlived its server, client_handler.c, may well work on the state of
\* the next start, but only behind that start's semaphore: the two keys never lead it to
\* objects that do not go together.
THEOREM OrphansAreGuarded == ASSUME Careful = Start PROVE Spec => []OneGuard
<1>1. IInv => OneGuard
  <2> SUFFICES ASSUME IInv, NEW s \in Start, NEW h \in Handler,
                      pc[s] \in Serving, hpc[h] = "inside", hshm[h] = shmId[s]
               PROVE  hsem[h] = semId[s]
    BY DEF OneGuard
  <2>1. shmId[s] \in Start
    BY DEF IInv, Typed, Servers
  <2> QED  BY <2>1, SameSemaphore
<1> QED  BY <1>1, AlwaysIInv, PTL

\* init_sem in sem_create lets a start recover from whatever the one before has died of,
\* and from whomever it has left inside.
THEOREM StartsHeal == ASSUME Careful = Start PROVE Spec => []Healed
<1>1. IInv => Healed
  BY DEF IInv, Free, Healed, Behind
<1> QED  BY <1>1, AlwaysIInv, PTL

=============================================================================

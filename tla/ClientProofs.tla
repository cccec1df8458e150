---------------------------- MODULE ClientProofs ----------------------------
(***************************************************************************)
(* Theorems about Client, for any levels with food, any player and any     *)
(* number of keys and commands: the window is a replica of the game, and   *)
(* keys wait for the registration.                                         *)
(***************************************************************************)
EXTENDS Client, RulesProofs, SequenceTheorems, WellFoundedInduction

\* What is written for this client.
Shown   == Tile \cup {"PLAYER1", "PLAYER2"}
Message == [msgt : {"SPAWN"}, id : Int, item : Shown, pos : Position]
             \cup [msgt : {"MOVEMENT"}, id : Int, pos : Position]
             \cup [msgt : {"EAT_FOOD"}, eater : Int, food : Int]
             \cup [msgt : {"GAME_OVER"}, winner : Player]
             \cup {Registered(Me)}

\* What the handlers write to the broadcaster.
News == [msgt : {"MOVEMENT"}, id : {PlayerId(1), PlayerId(2)}, pos : Position]
          \cup [msgt : {"EAT_FOOD"}, eater : Int, food : Cells]
          \cup [msgt : {"GAME_OVER"}, winner : Player]

LEMMA NewsAre ==
  ASSUME NEW m \in News
  PROVE  /\ m \in Message
         /\ \/ m.msgt = "MOVEMENT" /\ m.id \in {PlayerId(1), PlayerId(2)}
            \/ m.msgt = "EAT_FOOD" /\ m.food \in Cells
            \/ m.msgt = "GAME_OVER" /\ m.winner \in Player
<1>1. \A c \in Cells : c \in Int
  BY DEF Cells
<1>2. PlayerId(1) \in Int /\ PlayerId(2) \in Int
  BY SizeAssumption DEF PlayerId, MAP_SIZE
<1>3. CASE m \in [msgt : {"MOVEMENT"}, id : {PlayerId(1), PlayerId(2)}, pos : Position]
  BY <1>2, <1>3 DEF Message
<1>4. CASE m \in [msgt : {"EAT_FOOD"}, eater : Int, food : Cells]
  BY <1>1, <1>4 DEF Message
<1>5. CASE m \in [msgt : {"GAME_OVER"}, winner : Player]
  BY <1>5 DEF Message
<1> QED  BY <1>3, <1>4, <1>5 DEF News

LEMMA NewsSeq ==
  ASSUME NEW s \in Seq(News)
  PROVE  s \in Seq(Message) /\ \A i \in 1 .. Len(s) : s[i] \in News /\ s[i].msgt # "SPAWN"
<1>1. Len(s) \in Nat /\ s = [i \in 1 .. Len(s) |-> s[i]] /\ \A i \in 1 .. Len(s) : s[i] \in News
  BY LenProperties, SeqDef
<1>2. \A i \in 1 .. Len(s) : s[i] \in Message /\ s[i].msgt # "SPAWN"
  BY <1>1, NewsAre
<1>3. s \in [1 .. Len(s) -> Message]
  BY <1>1, <1>2
<1> QED  BY <1>1, <1>2, <1>3, SeqDef

-----------------------------------------------------------------------------
(* Induction: a set of numbers with 0 and the successors of its members.   *)

LEMMA NatSet ==
  ASSUME NEW S \in SUBSET Nat, 0 \in S, \A n \in S : n + 1 \in S
  PROVE  S = Nat
<1> DEFINE T == Nat \ S
           F == {0 .. n : n \in T}
           R == StrictSubsetOrdering(Nat)
<1> SUFFICES ASSUME T # {} PROVE FALSE
  OBVIOUS
<1>1. F \subseteq FiniteSubsetsOf(Nat) /\ F # {}
  <2>1. \A n \in T : 0 .. n \in SUBSET Nat /\ IsFiniteSet(0 .. n)
    BY FS_Interval
  <2> QED  BY <2>1 DEF FiniteSubsetsOf
<1>2. PICK n \in T : \A m \in T : ~(<<0 .. m, 0 .. n>> \in R)
  <2>1. IsWellFoundedOn(R, FiniteSubsetsOf(Nat))
    BY FS_StrictSubsetOrderingWellFounded
  <2>2. \E s \in F : \A t \in F : ~(<<t, s>> \in R)
    <3> HIDE DEF F, R
    <3> QED  BY <1>1, <2>1, WFMin
  <2> QED  BY <2>2
<1>3. n - 1 \in T
  BY n # 0, n = (n - 1) + 1
<1>4. 0 .. n - 1 \subseteq 0 .. n /\ n \in 0 .. n /\ n \notin 0 .. n - 1 /\ 0 .. n \in SUBSET Nat
  BY <1>3
<1>5. <<0 .. n - 1, 0 .. n>> \in R
  <2>1. PICK a, b : a = 0 .. n - 1 /\ b = 0 .. n
    OBVIOUS
  <2>2. a \in SUBSET Nat /\ b \in SUBSET Nat /\ a \subseteq b /\ a # b
    BY <1>4, <2>1
  <2>3. <<a, b>> \in R
    BY <2>2, Zenon DEF StrictSubsetOrdering
  <2> QED  BY <2>1, <2>3
<1> QED  BY <1>2, <1>3, <1>5

-----------------------------------------------------------------------------
(* Messages taken in one after the other.                                  *)

\* h tells what v has become after each of the messages of s.
Follows(h, v, s) == /\ DOMAIN h = 0 .. Len(s) /\ h[0] = v
                    /\ \A n \in 1 .. Len(s) : h[n] = Process(h[n - 1], s[n])

\* A recursive function is what it is defined to be: there is a function like that.
LEMMA TakenSteps ==
  ASSUME NEW v, NEW s, Len(s) \in Nat
  PROVE  \E h : Follows(h, v, s) /\ Taken(v, s) = h[Len(s)]
<1> DEFINE Steps(h, n) == h = [i \in 0 .. n |-> IF i = 0 THEN v ELSE Process(h[i - 1], s[i])]
           S == {n \in Nat : \E h : Steps(h, n)}
<1>1. S = Nat
  <2>1. 0 \in S
    <3>1. Steps([i \in 0 .. 0 |-> v], 0)
      OBVIOUS
    <3> QED  BY <3>1
  <2>2. ASSUME NEW n \in S PROVE n + 1 \in S
    <3>1. PICK h : Steps(h, n)
      OBVIOUS
    <3> DEFINE g == [i \in 0 .. n + 1 |-> IF i = n + 1 THEN Process(h[n], s[n + 1]) ELSE h[i]]
    <3>2. \A i \in 0 .. n : h[i] = IF i = 0 THEN v ELSE Process(h[i - 1], s[i])
      BY <3>1
    <3>3. \A i \in 0 .. n + 1 : g[i] = IF i = 0 THEN v ELSE Process(g[i - 1], s[i])
      <4>1. g[0] = v /\ g[n + 1] = Process(g[n], s[n + 1])
        BY <3>2
      <4>2. ASSUME NEW i \in 1 .. n PROVE g[i] = Process(g[i - 1], s[i])
        <5>1. g[i] = h[i] /\ g[i - 1] = h[i - 1]
          OBVIOUS
        <5> QED  BY <3>2, <5>1
      <4>3. \A i \in 0 .. n + 1 : i = 0 \/ i \in 1 .. n \/ (i = n + 1 /\ i - 1 = n /\ i # 0)
        OBVIOUS
      <4> HIDE DEF g
      <4> QED  BY <4>1, <4>2, <4>3
    <3>4. Steps(g, n + 1)
      <4>1. g = [i \in 0 .. n + 1 |-> g[i]]
        OBVIOUS
      <4> HIDE DEF g
      <4> QED  BY <3>3, <4>1
    <3> HIDE DEF g, Steps
    <3> QED  BY <3>4
  <2> HIDE DEF S
  <2>3. S \in SUBSET Nat
    BY DEF S
  <2> QED  BY <2>1, <2>2, <2>3, NatSet
<1>2. \E h : Steps(h, Len(s))
  BY <1>1
<1> DEFINE after == CHOOSE h : Steps(h, Len(s))
<1>3. Steps(after, Len(s))
  <2> HIDE DEF Steps
  <2> QED  BY <1>2
<1>4. Taken(v, s) = after[Len(s)]
  BY DEF Taken
<1> HIDE DEF after
<1>5. Follows(after, v, s)
  BY <1>3 DEF Follows
<1> QED  BY <1>4, <1>5

\* There is one such function only.
LEMMA TakenIs ==
  ASSUME NEW v, NEW s, Len(s) \in Nat, NEW h, Follows(h, v, s)
  PROVE  Taken(v, s) = h[Len(s)]
<1>1. PICK g : Follows(g, v, s) /\ Taken(v, s) = g[Len(s)]
  BY TakenSteps
<1> DEFINE S == {n \in Nat : n <= Len(s) => g[n] = h[n]}
<1>2. S = Nat
  <2>1. 0 \in S
    BY <1>1 DEF Follows
  <2>2. ASSUME NEW n \in S PROVE n + 1 \in S
    BY <1>1 DEF Follows
  <2> HIDE DEF S
  <2>3. S \in SUBSET Nat
    BY DEF S
  <2> QED  BY <2>1, <2>2, <2>3, NatSet
<1> QED  BY <1>1, <1>2

LEMMA TakenNone == ASSUME NEW v PROVE Taken(v, << >>) = v
<1>1. PICK h : Follows(h, v, << >>) /\ Taken(v, << >>) = h[Len(<< >>)]
  BY TakenSteps
<1> QED  BY <1>1 DEF Follows

\* Messages taken in in two turns, as many as there may be in each.
LEMMA TakenOn ==
  ASSUME NEW v, NEW s \in Seq(Message), NEW t \in Seq(Message)
  PROVE  Taken(v, s \o t) = Taken(Taken(v, s), t)
<1> DEFINE u == s \o t
<1>1. /\ Len(s) \in Nat /\ Len(t) \in Nat /\ Len(u) = Len(s) + Len(t)
      /\ \A i \in 1 .. Len(u) : u[i] = IF i <= Len(s) THEN s[i] ELSE t[i - Len(s)]
  BY ConcatProperties, LenProperties
<1>2. PICK g : Follows(g, v, s) /\ Taken(v, s) = g[Len(s)]
  BY <1>1, TakenSteps
<1>3. PICK h : Follows(h, g[Len(s)], t) /\ Taken(g[Len(s)], t) = h[Len(t)]
  BY <1>1, TakenSteps
<1> DEFINE f == [i \in 0 .. Len(u) |-> IF i <= Len(s) THEN g[i] ELSE h[i - Len(s)]]
<1> HIDE DEF u
<1>4. ASSUME NEW n \in 1 .. Len(u) PROVE f[n] = Process(f[n - 1], u[n])
  <2>1. CASE n <= Len(s)
    BY <1>1, <1>2, <2>1 DEF Follows
  <2>2. CASE n = Len(s) + 1
    BY <1>1, <1>2, <1>3, <2>2 DEF Follows
  <2>3. CASE n > Len(s) + 1
    <3>1. n - Len(s) \in 1 .. Len(t) /\ (n - Len(s)) - 1 = (n - 1) - Len(s)
      BY <1>1, <2>3
    <3>2. /\ f[n] = h[n - Len(s)] /\ f[n - 1] = h[(n - Len(s)) - 1]
          /\ u[n] = t[n - Len(s)]
      BY <1>1, <2>3, <3>1
    <3>3. h[n - Len(s)] = Process(h[(n - Len(s)) - 1], t[n - Len(s)])
      BY <1>3, <3>1 DEF Follows
    <3> QED  BY <3>2, <3>3
  <2>4. n <= Len(s) \/ n = Len(s) + 1 \/ n > Len(s) + 1
    BY <1>1
  <2> HIDE DEF f
  <2> QED  BY <2>1, <2>2, <2>3, <2>4
<1>5. f[0] = v /\ DOMAIN f = 0 .. Len(u) /\ f[Len(u)] = Taken(g[Len(s)], t)
  BY <1>1, <1>2, <1>3 DEF Follows
<1>6. Follows(f, v, u)
  BY <1>4, <1>5 DEF Follows
<1> HIDE DEF f
<1>7. Taken(v, u) = f[Len(u)]
  <2>1. PICK w, k : w = u /\ k = f
    OBVIOUS
  <2>2. Len(w) \in Nat /\ Follows(k, v, w)
    BY <1>1, <1>6, <2>1
  <2>3. Taken(v, w) = k[Len(w)]
    BY <2>2, TakenIs
  <2> QED  BY <2>1, <2>3
<1> QED  BY <1>2, <1>5, <1>7 DEF u

LEMMA TakenOne == ASSUME NEW v, NEW e PROVE Taken(v, <<e>>) = Process(v, e)
<1>1. PICK h : Follows(h, v, <<e>>) /\ Taken(v, <<e>>) = h[Len(<<e>>)]
  BY TakenSteps
<1> QED  BY <1>1 DEF Follows

LEMMA TakenNext ==
  ASSUME NEW v, NEW s \in Seq(Message), NEW e \in Message
  PROVE  Taken(v, Append(s, e)) = Process(Taken(v, s), e)
<1>1. Append(s, e) = s \o <<e>> /\ <<e>> \in Seq(Message)
  BY AppendIsConcat
<1>2. Taken(v, s \o <<e>>) = Taken(Taken(v, s), <<e>>)
  <2>1. PICK one \in Seq(Message) : one = <<e>>
    BY <1>1
  <2> QED  BY <2>1, TakenOn
<1> QED  BY <1>1, <1>2, TakenOne


-----------------------------------------------------------------------------
(* What a window may know, and what a message does to it.                  *)

Thing  == [item : Shown, pos : Position]
Things == UNION {[D -> Thing] : D \in SUBSET Int}
Aims   == UNION {[D -> Position] : D \in SUBSET Int}

View == {v \in [status : {"NotStarted", "Running", "Over"}, player : {0, Me},
                winner : {0} \cup Player, tiles : [Cells -> {"WALL", "FLOOR"}],
                ents : Things, intents : Aims] :
           DOMAIN v.intents \subseteq DOMAIN v.ents}

LEMMA ThingsAre ==
  ASSUME NEW f
  PROVE  f \in Things <=> /\ DOMAIN f \in SUBSET Int /\ f = [id \in DOMAIN f |-> f[id]]
                          /\ \A id \in DOMAIN f : f[id] \in Thing
<1>1. ASSUME f \in Things
      PROVE  /\ DOMAIN f \in SUBSET Int /\ f = [id \in DOMAIN f |-> f[id]]
             /\ \A id \in DOMAIN f : f[id] \in Thing
  <2>1. PICK D \in SUBSET Int : f \in [D -> Thing]
    BY <1>1 DEF Things
  <2> HIDE DEF Thing
  <2> QED  BY <2>1
<1>2. ASSUME DOMAIN f \in SUBSET Int, f = [id \in DOMAIN f |-> f[id]],
             \A id \in DOMAIN f : f[id] \in Thing
      PROVE  f \in Things
  <2>1. PICK D : D = DOMAIN f
    OBVIOUS
  <2>2. f \in [D -> Thing]
    <3>1. f = [id \in D |-> f[id]] /\ \A id \in D : f[id] \in Thing
      BY <1>2, <2>1
    <3> QED  BY <3>1
  <2>3. D \in SUBSET Int
    BY <1>2, <2>1
  <2> QED  BY <2>2, <2>3 DEF Things
<1> QED  BY <1>1, <1>2

LEMMA AimsAre ==
  ASSUME NEW f
  PROVE  f \in Aims <=> /\ DOMAIN f \in SUBSET Int /\ f = [id \in DOMAIN f |-> f[id]]
                        /\ \A id \in DOMAIN f : f[id] \in Position
<1>1. ASSUME f \in Aims
      PROVE  /\ DOMAIN f \in SUBSET Int /\ f = [id \in DOMAIN f |-> f[id]]
             /\ \A id \in DOMAIN f : f[id] \in Position
  <2>1. PICK D \in SUBSET Int : f \in [D -> Position]
    BY <1>1 DEF Aims
  <2> QED  BY <2>1
<1>2. ASSUME DOMAIN f \in SUBSET Int, f = [id \in DOMAIN f |-> f[id]],
             \A id \in DOMAIN f : f[id] \in Position
      PROVE  f \in Aims
  <2>1. PICK D : D = DOMAIN f
    OBVIOUS
  <2>2. f \in [D -> Position]
    <3>1. f = [id \in D |-> f[id]] /\ \A id \in D : f[id] \in Position
      BY <1>2, <2>1
    <3> QED  BY <3>1
  <2>3. D \in SUBSET Int
    BY <1>2, <2>1
  <2> QED  BY <2>2, <2>3 DEF Aims
<1> QED  BY <1>1, <1>2

\* Put keeps things things, and aims aims.
LEMMA PutThing ==
  ASSUME NEW f \in Things, NEW id \in Int, NEW e \in Thing
  PROVE  Put(f, id, e) \in Things
<1>1. DOMAIN f \in SUBSET Int /\ \A i \in DOMAIN f : f[i] \in Thing
  BY ThingsAre
<1>2. PICK g : g = Put(f, id, e)
  OBVIOUS
<1>3. /\ DOMAIN g = DOMAIN f \cup {id} /\ g = [i \in DOMAIN g |-> g[i]]
      /\ g[id] = e /\ \A i \in DOMAIN f : i # id => g[i] = f[i]
  BY <1>2 DEF Put
<1>4. g \in Things
  BY <1>1, <1>3, ThingsAre
<1> QED  BY <1>2, <1>4

LEMMA PutAim ==
  ASSUME NEW f \in Aims, NEW id \in Int, NEW e \in Position
  PROVE  Put(f, id, e) \in Aims
<1>1. DOMAIN f \in SUBSET Int /\ \A i \in DOMAIN f : f[i] \in Position
  BY AimsAre
<1>2. PICK g : g = Put(f, id, e)
  OBVIOUS
<1>3. /\ DOMAIN g = DOMAIN f \cup {id} /\ g = [i \in DOMAIN g |-> g[i]]
      /\ g[id] = e /\ \A i \in DOMAIN f : i # id => g[i] = f[i]
  BY <1>2 DEF Put
<1>4. g \in Aims
  BY <1>1, <1>3, AimsAre
<1> QED  BY <1>2, <1>4

LEMMA LessThings ==
  ASSUME NEW f \in Things, NEW S \in SUBSET DOMAIN f
  PROVE  Restrict(f, S) \in Things
<1>1. DOMAIN f \in SUBSET Int /\ \A i \in DOMAIN f : f[i] \in Thing
  BY ThingsAre
<1> QED  BY <1>1 DEF Restrict, Things

LEMMA LessAims ==
  ASSUME NEW f \in Aims, NEW S \in SUBSET DOMAIN f
  PROVE  Restrict(f, S) \in Aims
<1>1. DOMAIN f \in SUBSET Int /\ \A i \in DOMAIN f : f[i] \in Position
  BY AimsAre
<1> QED  BY <1>1 DEF Restrict, Aims

LEMMA ProcessTile ==
  ASSUME NEW v \in View, NEW m \in Message, m.msgt = "SPAWN", m.item \in {"WALL", "FLOOR"}
  PROVE  /\ Process(v, m) \in View
         /\ Process(v, m) = [v EXCEPT !.tiles[Position2Index(m.pos)] = m.item]
<1>1. Process(v, m) = [v EXCEPT !.tiles[Position2Index(m.pos)] = m.item]
  BY DEF Process, Place
<1>2. Position2Index(m.pos) \in Cells
  BY IndexInCells DEF Message, Registered
<1> QED  BY <1>1, <1>2 DEF View

LEMMA ProcessThing ==
  ASSUME NEW v \in View, NEW m \in Message, m.msgt = "SPAWN", m.item \notin {"WALL", "FLOOR"}
  PROVE  /\ Process(v, m) \in View
         /\ Process(v, m) = [v EXCEPT !.ents = Put(v.ents, m.id, Entity(m))]
<1>1. Process(v, m) = [v EXCEPT !.ents = Put(v.ents, m.id, Entity(m))]
  BY DEF Process, Place, View
<1>2. m.id \in Int /\ Entity(m) \in Thing
  BY DEF Message, Registered, Entity, Thing
<1>3. Put(v.ents, m.id, Entity(m)) \in Things
  BY <1>2, PutThing DEF View
<1>4. DOMAIN v.ents \subseteq DOMAIN Put(v.ents, m.id, Entity(m))
  BY DEF Put
<1> QED  BY <1>1, <1>3, <1>4 DEF View

LEMMA ProcessMovement ==
  ASSUME NEW v \in View, NEW m \in Message, m.msgt = "MOVEMENT"
  PROVE  /\ Process(v, m) \in View
         /\ Process(v, m) = IF m.id \in DOMAIN v.ents
                              THEN [v EXCEPT !.intents = Put(v.intents, m.id, m.pos)] ELSE v
<1>1. Process(v, m) = IF m.id \in DOMAIN v.ents
                        THEN [v EXCEPT !.intents = Put(v.intents, m.id, m.pos)] ELSE v
  BY DEF Process, View
<1>2. m.id \in Int /\ m.pos \in Position
  BY DEF Message, Registered
<1>3. Put(v.intents, m.id, m.pos) \in Aims
  BY <1>2, PutAim DEF View
<1>4. DOMAIN Put(v.intents, m.id, m.pos) = DOMAIN v.intents \cup {m.id}
  BY DEF Put
<1> QED  BY <1>1, <1>3, <1>4 DEF View

LEMMA ProcessMeal ==
  ASSUME NEW v \in View, NEW m \in Message, m.msgt = "EAT_FOOD"
  PROVE  /\ Process(v, m) \in View
         /\ Process(v, m) =
              [v EXCEPT !.ents    = Restrict(v.ents, DOMAIN v.ents \ {m.food}),
                        !.intents = Restrict(v.intents, DOMAIN v.intents \ {m.food})]
<1>1. Process(v, m) = [v EXCEPT !.ents    = Restrict(v.ents, DOMAIN v.ents \ {m.food}),
                                !.intents = Restrict(v.intents, DOMAIN v.intents \ {m.food})]
  BY DEF Process, View
<1>2. /\ Restrict(v.ents, DOMAIN v.ents \ {m.food}) \in Things
      /\ Restrict(v.intents, DOMAIN v.intents \ {m.food}) \in Aims
  BY LessThings, LessAims DEF View
<1>3. /\ DOMAIN Restrict(v.ents, DOMAIN v.ents \ {m.food}) = DOMAIN v.ents \ {m.food}
      /\ DOMAIN Restrict(v.intents, DOMAIN v.intents \ {m.food}) = DOMAIN v.intents \ {m.food}
  BY DEF Restrict
<1> QED  BY <1>1, <1>2, <1>3 DEF View

LEMMA ProcessRegistered ==
  ASSUME NEW v \in View, NEW m \in Message, m.msgt = "REGISTRATION"
  PROVE  /\ Process(v, m) \in View
         /\ Process(v, m) = [v EXCEPT !.player = Me, !.status = "Running"]
<1>1. m.player = Me
  BY DEF Message, Registered
<1>2. Process(v, m) = [v EXCEPT !.player = Me, !.status = "Running"]
  BY <1>1 DEF Process
<1> QED  BY <1>2 DEF View

LEMMA ProcessOver ==
  ASSUME NEW v \in View, NEW m \in Message, m.msgt = "GAME_OVER"
  PROVE  /\ Process(v, m) \in View /\ m.winner \in Player
         /\ Process(v, m) = [v EXCEPT !.status = "Over", !.winner = m.winner]
<1>1. m.winner \in Player
  BY DEF Message, Registered
<1>2. Process(v, m) = [v EXCEPT !.status = "Over", !.winner = m.winner]
  BY DEF Process
<1> QED  BY <1>1, <1>2 DEF View

LEMMA ProcessTyped == ASSUME NEW v \in View, NEW m \in Message PROVE Process(v, m) \in View
<1>1. m.msgt \in {"SPAWN", "MOVEMENT", "EAT_FOOD", "GAME_OVER", "REGISTRATION"}
  BY DEF Message, Registered
<1> QED  BY <1>1, ProcessTile, ProcessThing, ProcessMovement, ProcessMeal,
         ProcessRegistered, ProcessOver

LEMMA TakenTyped == ASSUME NEW v \in View, NEW s \in Seq(Message) PROVE Taken(v, s) \in View
<1>1. Len(s) \in Nat /\ \A n \in 1 .. Len(s) : s[n] \in Message
  BY LenProperties
<1>2. PICK h : Follows(h, v, s) /\ Taken(v, s) = h[Len(s)]
  BY <1>1, TakenSteps
<1> DEFINE S == {n \in Nat : n <= Len(s) => h[n] \in View}
<1>3. S = Nat
  <2>1. 0 \in S
    BY <1>2 DEF Follows
  <2>2. ASSUME NEW n \in S PROVE n + 1 \in S
    <3>1. CASE n + 1 <= Len(s)
      <4>1. h[n + 1] = Process(h[n], s[n + 1]) /\ h[n] \in View /\ s[n + 1] \in Message
        BY <1>1, <1>2, <3>1 DEF Follows
      <4> QED  BY <4>1, ProcessTyped
    <3> QED  BY <3>1
  <2> HIDE DEF S
  <2>3. S \in SUBSET Nat
    BY DEF S
  <2> QED  BY <2>1, <2>2, <2>3, NatSet
<1> QED  BY <1>1, <1>2, <1>3

\* The spawns of a load_map leave a window that waits for its registration waiting.
LEMMA TakenSpawns ==
  ASSUME NEW v \in View, NEW s \in Seq(Message), \A i \in 1 .. Len(s) : s[i].msgt = "SPAWN"
  PROVE  LET w == Taken(v, s)
         IN  /\ w.status = v.status /\ w.player = v.player /\ w.winner = v.winner
             /\ w.intents = v.intents
<1> DEFINE Waits(w) == /\ w \in View
                       /\ w.status = v.status /\ w.player = v.player /\ w.winner = v.winner
                       /\ w.intents = v.intents
<1>1. Len(s) \in Nat /\ \A n \in 1 .. Len(s) : s[n] \in Message
  BY LenProperties
<1>2. PICK h : Follows(h, v, s) /\ Taken(v, s) = h[Len(s)]
  BY <1>1, TakenSteps
<1>3. ASSUME NEW w, Waits(w), NEW m \in Message, m.msgt = "SPAWN" PROVE Waits(Process(w, m))
  <2>1. CASE m.item \in {"WALL", "FLOOR"}
    <3>1. /\ Process(w, m) = [w EXCEPT !.tiles[Position2Index(m.pos)] = m.item]
          /\ Process(w, m) \in View
      BY <1>3, <2>1, ProcessTile
    <3> QED  BY <1>3, <3>1 DEF View
  <2>2. CASE m.item \notin {"WALL", "FLOOR"}
    <3>1. /\ Process(w, m) = [w EXCEPT !.ents = Put(w.ents, m.id, Entity(m))]
          /\ Process(w, m) \in View
      BY <1>3, <2>2, ProcessThing
    <3> QED  BY <1>3, <3>1 DEF View
  <2> QED  BY <2>1, <2>2
<1> DEFINE S == {n \in Nat : n <= Len(s) => Waits(h[n])}
<1>4. Waits(v)
  OBVIOUS
<1> HIDE DEF Waits
<1>5. S = Nat
  <2>1. 0 \in S
    BY <1>2, <1>4 DEF Follows
  <2>2. ASSUME NEW n \in S PROVE n + 1 \in S
    <3>1. CASE n + 1 <= Len(s)
      <4>1. /\ h[n + 1] = Process(h[n], s[n + 1]) /\ Waits(h[n])
            /\ s[n + 1] \in Message /\ s[n + 1].msgt = "SPAWN"
        BY <1>1, <1>2, <3>1 DEF Follows
      <4> QED  BY <1>3, <4>1
    <3> QED  BY <3>1
  <2> HIDE DEF S
  <2>3. S \in SUBSET Nat
    BY DEF S
  <2> QED  BY <2>1, <2>2, <2>3, NatSet
<1>6. Waits(Taken(v, s))
  BY <1>1, <1>2, <1>5
<1> QED  BY <1>6 DEF Waits

-----------------------------------------------------------------------------
(* What a load_map writes: the spawns of one cell after the other.         *)

\* The position that the coordinates of the loop make for a cell.
At(c) == [x |-> c % WIDTH, y |-> c \div WIDTH]

LEMMA AtOnMap ==
  ASSUME NEW c \in Cells
  PROVE  /\ c \in Int /\ c % WIDTH \in Int /\ c \div WIDTH \in Int
         /\ At(c) \in Position /\ Position2Index(At(c)) = c
<1>1. PICK w \in Nat \ {0}, h \in Nat \ {0} : w = WIDTH /\ h = HEIGHT
  BY SizeAssumption
<1>2. c \in Nat /\ c < w * h
  <2>1. w * h \in Nat
    OBVIOUS
  <2> QED  BY <1>1, <2>1 DEF Cells, MAP_SIZE
<1>3. c % w \in 0 .. w - 1 /\ c \div w \in Int /\ (c \div w) * w + (c % w) = c
  BY <1>2
<1>4. PICK q \in Int, r \in 0 .. w - 1 : q = c \div w /\ r = c % w
  BY <1>3
<1>5. q * w + r = c
  BY <1>3, <1>4
<1>6. q >= 0
  <2> SUFFICES ASSUME q <= -1 PROVE FALSE
    BY <1>4
  <2>1. q * w <= (-1) * w
    OBVIOUS
  <2> QED  BY <1>2, <1>5, <2>1
<1>7. q < h
  <2> SUFFICES ASSUME q >= h PROVE FALSE
    BY <1>4
  <2>1. q * w >= h * w
    OBVIOUS
  <2>2. h * w = w * h
    OBVIOUS
  <2> QED  BY <1>2, <1>5, <2>1, <2>2
<1>8. At(c) = [x |-> r, y |-> q]
  BY <1>1, <1>4 DEF At
<1>9. q \in 0 .. h - 1
  BY <1>6, <1>7
<1> QED  BY <1>1, <1>2, <1>4, <1>5, <1>8, <1>9 DEF Position, Position2Index

\* No two positions have the same offset.
LEMMA OnePlace ==
  ASSUME NEW a \in Position, NEW b \in Position, Position2Index(a) = Position2Index(b)
  PROVE  a = b
<1>1. PICK w \in Nat \ {0} : w = WIDTH
  BY SizeAssumption
<1>2. HEIGHT \in Nat
  BY SizeAssumption
<1>3. PICK r \in 0 .. w - 1, q \in Nat : a = [x |-> r, y |-> q]
  BY <1>1, <1>2 DEF Position
<1>4. PICK s \in 0 .. w - 1, t \in Nat : b = [x |-> s, y |-> t]
  BY <1>1, <1>2 DEF Position
<1>5. q * w + r = t * w + s
  BY <1>1, <1>3, <1>4 DEF Position2Index
<1>6. q = t
  <2>1. CASE q < t
    <3>1. (q + 1) * w <= t * w
      BY <2>1
    <3>2. (q + 1) * w = q * w + w
      OBVIOUS
    <3> QED  BY <1>5, <3>1, <3>2
  <2>2. CASE t < q
    <3>1. (t + 1) * w <= q * w
      BY <2>2
    <3>2. (t + 1) * w = t * w + w
      OBVIOUS
    <3> QED  BY <1>5, <3>1, <3>2
  <2> QED  BY <2>1, <2>2
<1>7. r = s
  BY <1>5, <1>6
<1> QED  BY <1>3, <1>4, <1>6, <1>7

LEMMA SpawnTold ==
  ASSUME NEW c \in Cells, NEW item \in Shown
  PROVE  LET m == Spawn(c % WIDTH, c \div WIDTH, item)
         IN  /\ m \in Message /\ m.msgt = "SPAWN" /\ m.item = item /\ m.pos = At(c)
             /\ m.id = IF item = "PLAYER1" THEN PlayerId(1)
                        ELSE IF item = "PLAYER2" THEN PlayerId(2)
                        ELSE IF item \in Edible THEN c
                        ELSE MAP_SIZE + c
<1>1. PICK x \in Int, y \in Int : x = c % WIDTH /\ y = c \div WIDTH
  BY AtOnMap
<1>2. At(c) = [x |-> x, y |-> y] /\ At(c) \in Position /\ y * WIDTH + x = c /\ c \in Int
  BY <1>1, AtOnMap DEF At, Position2Index
<1>3. MAP_SIZE \in Nat
  BY SizeAssumption DEF MAP_SIZE
<1>4. PICK size \in Nat : size = MAP_SIZE
  BY <1>3
<1>5. Id(x, y, item) = IF item = "PLAYER1" THEN PlayerId(1)
                        ELSE IF item = "PLAYER2" THEN PlayerId(2)
                        ELSE IF item \in Edible THEN c
                        ELSE MAP_SIZE + c
  BY <1>2, <1>4 DEF Id, BaseId, Shown, Tile, Edible
<1>6. Id(x, y, item) \in Int
  BY <1>2, <1>4, <1>5 DEF PlayerId
<1>7. Spawn(x, y, item) \in Message
  BY <1>2, <1>6 DEF Spawn, Message
<1> QED  BY <1>1, <1>2, <1>5, <1>7 DEF Spawn

LEMMA SpawnsTold ==
  ASSUME NEW c \in Cells, NEW g \in Glyph
  PROVE  LET s == Spawns(g, c % WIDTH, c \div WIDTH)
         IN  s \in Seq(Message) /\ \A i \in 1 .. Len(s) : s[i].msgt = "SPAWN"
<1>1. PICK x, y, s : x = c % WIDTH /\ y = c \div WIDTH /\ s = Spawns(g, x, y)
  OBVIOUS
<1>2. \A item \in Shown : Spawn(x, y, item) \in Message /\ Spawn(x, y, item).msgt = "SPAWN"
  BY <1>1, SpawnTold
<1>3. {"WALL", "FLOOR", "FOOD", "SUPERFOOD", "PLAYER1", "PLAYER2"} \subseteq Shown
  BY DEF Shown, Tile, Edible
<1>4. \/ \E a \in Shown : s = <<Spawn(x, y, a)>>
      \/ \E a, b \in Shown : s = <<Spawn(x, y, a), Spawn(x, y, b)>>
  BY <1>1, <1>3 DEF Spawns, Glyph
<1>5. CASE \E a \in Shown : s = <<Spawn(x, y, a)>>
  <2>1. PICK m \in Message : s = <<m>> /\ m.msgt = "SPAWN"
    BY <1>2, <1>5
  <2>2. s \in Seq(Message) /\ Len(s) = 1 /\ s[1] = m
    BY <2>1
  <2> QED  BY <1>1, <2>1, <2>2
<1>6. CASE \E a, b \in Shown : s = <<Spawn(x, y, a), Spawn(x, y, b)>>
  <2>1. PICK m, n \in Message : s = <<m, n>> /\ m.msgt = "SPAWN" /\ n.msgt = "SPAWN"
    BY <1>2, <1>6
  <2>2. s \in Seq(Message) /\ Len(s) = 2 /\ s[1] = m /\ s[2] = n
    BY <2>1
  <2> QED  BY <1>1, <2>1, <2>2
<1> QED  BY <1>4, <1>5, <1>6

\* h tells what has been written when so many cells have been read.
Writes(h, lv) ==
  /\ h[0] = << >>
  /\ \A c \in Cells : h[c + 1] = h[c] \o Spawns(lv[c], c % WIDTH, c \div WIDTH)

LEMMA SceneSteps ==
  ASSUME NEW lv
  PROVE  \E h : Writes(h, lv) /\ Scene(lv) = h[MAP_SIZE]
<1>0. MAP_SIZE \in Nat
  BY SizeAssumption DEF MAP_SIZE
<1> DEFINE More(s, n) == s \o Spawns(lv[n - 1], (n - 1) % WIDTH, (n - 1) \div WIDTH)
           Steps(h, n) == h = [i \in 0 .. n |-> IF i = 0 THEN << >> ELSE More(h[i - 1], i)]
           S == {n \in Nat : \E h : Steps(h, n)}
<1> HIDE DEF More
<1>1. S = Nat
  <2>1. 0 \in S
    <3>1. Steps([i \in 0 .. 0 |-> << >>], 0)
      OBVIOUS
    <3> QED  BY <3>1
  <2>2. ASSUME NEW n \in S PROVE n + 1 \in S
    <3>1. PICK h : Steps(h, n)
      OBVIOUS
    <3> DEFINE g == [i \in 0 .. n + 1 |-> IF i = n + 1 THEN More(h[n], n + 1) ELSE h[i]]
    <3>2. \A i \in 0 .. n : h[i] = IF i = 0 THEN << >> ELSE More(h[i - 1], i)
      BY <3>1
    <3>3. \A i \in 0 .. n + 1 : g[i] = IF i = 0 THEN << >> ELSE More(g[i - 1], i)
      <4>1. g[0] = << >> /\ g[n + 1] = More(g[n], n + 1)
        BY <3>2
      <4>2. ASSUME NEW i \in 1 .. n PROVE g[i] = More(g[i - 1], i)
        <5>1. g[i] = h[i] /\ g[i - 1] = h[i - 1]
          OBVIOUS
        <5> QED  BY <3>2, <5>1
      <4>3. \A i \in 0 .. n + 1 : i = 0 \/ i \in 1 .. n \/ (i = n + 1 /\ i - 1 = n /\ i # 0)
        OBVIOUS
      <4> HIDE DEF g
      <4> QED  BY <4>1, <4>2, <4>3
    <3>4. Steps(g, n + 1)
      <4>1. g = [i \in 0 .. n + 1 |-> g[i]]
        OBVIOUS
      <4> HIDE DEF g
      <4> QED  BY <3>3, <4>1
    <3> HIDE DEF g, Steps
    <3> QED  BY <3>4
  <2> HIDE DEF S
  <2>3. S \in SUBSET Nat
    BY DEF S
  <2> QED  BY <2>1, <2>2, <2>3, NatSet
<1>2. \E h : Steps(h, MAP_SIZE)
  BY <1>0, <1>1
<1> DEFINE upTo == CHOOSE h : Steps(h, MAP_SIZE)
<1>3. Steps(upTo, MAP_SIZE)
  <2> HIDE DEF Steps
  <2> QED  BY <1>2
<1>4. Scene(lv) = upTo[MAP_SIZE]
  BY DEF Scene, More
<1> HIDE DEF upTo
<1>5. upTo[0] = << >> /\ \A i \in 1 .. MAP_SIZE : upTo[i] = More(upTo[i - 1], i)
  BY <1>0, <1>3
<1>6. ASSUME NEW c \in Cells
      PROVE  upTo[c + 1] = upTo[c] \o Spawns(lv[c], c % WIDTH, c \div WIDTH)
  <2>1. c \in Int /\ c + 1 \in 1 .. MAP_SIZE /\ (c + 1) - 1 = c
    BY <1>0 DEF Cells
  <2>2. upTo[c + 1] = More(upTo[c], c + 1)
    BY <1>5, <2>1
  <2>3. More(upTo[c], c + 1) = upTo[c] \o Spawns(lv[c], c % WIDTH, c \div WIDTH)
    BY <2>1 DEF More
  <2> QED  BY <2>2, <2>3
<1>7. Writes(upTo, lv)
  BY <1>5, <1>6 DEF Writes
<1> QED  BY <1>4, <1>7

\* What has been written before a cell is a sequence of spawns.
Written(h, n) == h[n] \in Seq(Message) /\ \A i \in 1 .. Len(h[n]) : h[n][i].msgt = "SPAWN"

LEMMA SceneGrows ==
  ASSUME NEW lv \in [Cells -> Glyph], NEW h, Writes(h, lv), NEW c \in Cells, Written(h, c)
  PROVE  Written(h, c + 1)
<1>1. PICK s \in Seq(Message) : /\ s = Spawns(lv[c], c % WIDTH, c \div WIDTH)
                                /\ \A i \in 1 .. Len(s) : s[i].msgt = "SPAWN"
  BY SpawnsTold
<1>2. PICK r \in Seq(Message) : r = h[c] /\ \A i \in 1 .. Len(r) : r[i].msgt = "SPAWN"
  BY DEF Written
<1>3. h[c + 1] = r \o s
  BY <1>1, <1>2 DEF Writes
<1>4. /\ r \o s \in Seq(Message) /\ Len(r \o s) = Len(r) + Len(s)
      /\ \A i \in 1 .. Len(r \o s) : (r \o s)[i] = IF i <= Len(r) THEN r[i] ELSE s[i - Len(r)]
      /\ Len(r) \in Nat /\ Len(s) \in Nat
  BY ConcatProperties, LenProperties
<1>5. ASSUME NEW i \in 1 .. Len(r \o s) PROVE (r \o s)[i].msgt = "SPAWN"
  <2>1. CASE i <= Len(r)
    BY <1>2, <1>4, <2>1
  <2>2. CASE ~(i <= Len(r))
    <3>1. i - Len(r) \in 1 .. Len(s)
      BY <1>4, <2>2
    <3> QED  BY <1>1, <1>4, <2>2, <3>1
  <2> QED  BY <2>1, <2>2
<1> QED  BY <1>3, <1>4, <1>5 DEF Written

LEMMA SceneTold ==
  ASSUME NEW lv \in [Cells -> Glyph]
  PROVE  /\ Scene(lv) \in Seq(Message)
         /\ \A i \in 1 .. Len(Scene(lv)) : Scene(lv)[i].msgt = "SPAWN"
<1>1. PICK h : Writes(h, lv) /\ Scene(lv) = h[MAP_SIZE]
  BY SceneSteps
<1>2. MAP_SIZE \in Nat
  BY SizeAssumption DEF MAP_SIZE
<1> DEFINE S == {n \in Nat : n <= MAP_SIZE => Written(h, n)}
<1>3. S = Nat
  <2>1. 0 \in S
    <3>1. h[0] = << >>
      BY <1>1 DEF Writes
    <3>2. PICK s : s = h[0]
      OBVIOUS
    <3>3. s \in Seq(Message) /\ Len(s) = 0
      BY <3>1, <3>2
    <3>4. Written(h, 0)
      BY <3>2, <3>3 DEF Written
    <3> QED  BY <3>4
  <2>2. ASSUME NEW n \in S PROVE n + 1 \in S
    <3>1. CASE n + 1 <= MAP_SIZE
      <4>1. n \in Cells /\ Written(h, n)
        BY <1>2, <3>1 DEF Cells
      <4> QED  BY <1>1, <4>1, SceneGrows
    <3> QED  BY <3>1
  <2> HIDE DEF S
  <2>3. S \in SUBSET Nat
    BY DEF S
  <2> QED  BY <2>1, <2>2, <2>3, NatSet
<1>4. Written(h, MAP_SIZE)
  BY <1>2, <1>3
<1> QED  BY <1>1, <1>4 DEF Written

-----------------------------------------------------------------------------
(* The rules as Game's calls see them are those of GameRules.              *)

LEMMA SameCells == Rules!Cells = Cells
BY Zenon DEF Rules!Cells, Cells, Rules!MAP_SIZE, MAP_SIZE

LEMMA SameEdibles == ASSUME NEW map PROVE Rules!EdibleCells(map) = EdibleCells(map)
BY SameCells, Zenon DEF Rules!EdibleCells, EdibleCells, Rules!Edible, Edible

LEMMA SameOffset == ASSUME NEW pos PROVE Rules!Position2Index(pos) = Position2Index(pos)
BY Zenon DEF Rules!Position2Index, Position2Index

LEMMA SameLoad == ASSUME NEW lv PROVE Rules!Load(lv) = Load(lv)
BY Zenon DEF Rules!Load, Load, Rules!EdibleCells, EdibleCells, Rules!Edible, Edible,
     Rules!Cells, Cells, Rules!MAP_SIZE, MAP_SIZE, Rules!TileOf, TileOf, Rules!Mark, Mark,
     Rules!Player, Player, Rules!Position, Position, Rules!Position2Index, Position2Index,
     Rules!Cardinality, Cardinality

LEMMA SameNext ==
  ASSUME NEW pos, NEW dir
  PROVE  Rules!NextPosition(pos, dir) = NextPosition(pos, dir)
BY Zenon DEF Rules!NextPosition, NextPosition, Rules!Shift, Shift, Rules!Position, Position

LEMMA SameWinner == ASSUME NEW st PROVE Rules!GameOver(Rules!Winner(st)) = GameOver(Winner(st))
BY Zenon DEF Rules!GameOver, GameOver, Rules!Winner, Winner

LEMMA SameCollide ==
  ASSUME NEW st, NEW p, NEW next
  PROVE  /\ Rules!Collides(st, p, next) <=> Collides(st, p, next)
         /\ Rules!Collide(st) = Collide(st)
BY Zenon DEF Rules!Collides, Collides, Rules!Collide, Collide, Rules!Other, Other

LEMMA SameEnter ==
  ASSUME NEW st, NEW p, NEW next, NEW item
  PROVE  Rules!Enter(st, p, next, item) = Enter(st, p, next, item)
BY Zenon DEF Rules!Enter, Enter, Rules!Walk, Walk, Rules!Eat, Eat, Rules!Edible, Edible,
     Rules!Position2Index, Position2Index, Rules!Value, Value

LEMMA SameTold ==
  ASSUME NEW p, NEW next, NEW item
  PROVE  Rules!EnterMessages(p, next, item) = EnterMessages(p, next, item)
BY Zenon DEF Rules!EnterMessages, EnterMessages, Rules!Edible, Edible, Rules!Moved, Moved,
     Rules!Eaten, Eaten, Rules!Id, Id, Rules!BaseId, BaseId, Rules!PlayerId, PlayerId,
     Rules!MAP_SIZE, MAP_SIZE

LEMMA SameReset == Rules!ResetState = ResetState
BY Zenon DEF Rules!ResetState, ResetState, Rules!Cells, Cells, Rules!MAP_SIZE, MAP_SIZE,
     Rules!Player, Player, Rules!Origin, Origin

-----------------------------------------------------------------------------
(* What the server's calls do.                                             *)

\* load_map reads the level of the server, on which there is something to eat.
LEMMA LoadIs ==
  ASSUME Rules!LoadMap, level \in Levels
  PROVE  /\ level \in [Cells -> Glyph] /\ IsLevel(level) /\ level' = level
         /\ state' = Load(level) /\ state' \in GameState /\ state'.game_over = FALSE
         /\ loaded' = TRUE /\ out' = << >>
<1>1. IsLevel(level) /\ EdibleCells(Load(level).map) # {}
  BY ClientAssumption
<1>2. state' = Load(level) /\ loaded' = TRUE /\ level' = level
  BY SameLoad DEF Rules!LoadMap
<1>3. Load(level).game_over = FALSE
  BY <1>1 DEF Load
<1>4. out' = << >>
  BY <1>1, <1>2, SameEdibles DEF Rules!LoadMap
<1> QED  BY <1>1, <1>2, <1>3, <1>4, LoadTyped DEF IsLevel

\* The cell that a player makes for.
Ahead(p, dir) == NextPosition(state.positions[p], dir)

\* The three ways through process_user_command.
Over == /\ state.game_over
        /\ state' = state
        /\ out' = <<GameOver(Winner(state))>>

Bump(p, next) == /\ ~state.game_over /\ Collides(state, p, next)
                 /\ state' = Collide(state)
                 /\ out' = <<GameOver(Winner(state))>>

Go(p, next) ==
  LET item == state.map[Position2Index(next)]
  IN  /\ ~state.game_over /\ ~Collides(state, p, next)
      /\ state' = Enter(state, p, next, item)
      /\ out' = EnterMessages(p, next, item)
                  \o IF state'.game_over THEN <<GameOver(Winner(state'))>> ELSE << >>

LEMMA CommandIs ==
  ASSUME NEW p, NEW dir, Rules!Command(p, dir)
  PROVE  /\ loaded' = loaded /\ level' = level
         /\ Over \/ Bump(p, Ahead(p, dir)) \/ Go(p, Ahead(p, dir))
<1>1. CASE Rules!AlreadyOver(p, dir)
  BY <1>1, SameWinner DEF Rules!AlreadyOver, Over
<1>2. CASE Rules!Collision(p, dir)
  BY <1>2, SameWinner, SameCollide, SameNext DEF Rules!Collision, Bump, Ahead
<1>3. CASE Rules!Entry(p, dir)
  <2>1. PICK next : next = Ahead(p, dir)
    OBVIOUS
  <2>2. PICK item : item = state.map[Position2Index(next)]
    OBVIOUS
  <2>3. /\ next = Rules!NextPosition(state.positions[p], dir)
        /\ item = state.map[Rules!Position2Index(next)]
    BY <2>1, <2>2, SameNext, SameOffset DEF Ahead
  <2>4. /\ ~state.game_over /\ ~Collides(state, p, next)
        /\ state' = Enter(state, p, next, item) /\ loaded' = loaded /\ level' = level
    BY <1>3, <2>3, SameCollide, SameEnter DEF Rules!Entry
  <2>5. out' = EnterMessages(p, next, item)
                 \o IF state'.game_over THEN <<GameOver(Winner(state'))>> ELSE << >>
    BY <1>3, <2>3, SameTold, SameWinner, Zenon DEF Rules!Entry
  <2> QED  BY <2>1, <2>2, <2>4, <2>5 DEF Go
<1> QED  BY <1>1, <1>2, <1>3 DEF Rules!Command

\* What a command writes.
LEMMA CommandTold ==
  ASSUME NEW p \in Player, NEW dir, state \in GameState, Rules!Command(p, dir)
  PROVE  state' \in GameState /\ out' \in Seq(News)
<1> DEFINE next == Ahead(p, dir)
           item == state.map[Position2Index(next)]
<1>1. next \in Position /\ item \in Item
  <2>1. next \in Position
    BY NextOnMap DEF Ahead, GameState
  <2> HIDE DEF next
  <2> QED  BY <2>1, IndexInCells DEF GameState
<1>2. \A st : GameOver(Winner(st)) \in News
  BY DEF News, GameOver, Winner, Player
<1>3. Moved(p, next) \in News
  <2>1. PlayerId(p) \in {PlayerId(1), PlayerId(2)}
    BY DEF Player
  <2> HIDE DEF next
  <2> QED  BY <1>1, <2>1 DEF Moved, News
<1>4. ASSUME item \in Edible PROVE Eaten(p, next, item) \in News
  <2>1. PlayerId(p) \in Int
    BY SizeAssumption DEF PlayerId, MAP_SIZE, Player
  <2> HIDE DEF next, item
  <2>2. Id(next.x, next.y, item) = Position2Index(next)
    BY <1>1, <1>4, IndexInCells DEF Id, BaseId, Edible, Position2Index, Cells
  <2>3. Position2Index(next) \in Cells
    BY <1>1, IndexInCells
  <2> QED  BY <2>1, <2>2, <2>3 DEF Eaten, News
<1> HIDE DEF next, item
<1>5. state' \in GameState /\ out' \in Seq(News)
  <2>1. CASE Over
    BY <1>2, <2>1 DEF Over
  <2>2. CASE Bump(p, next)
    BY <1>2, <2>2, CollideFields DEF Bump
  <2>3. CASE Go(p, next)
    <3>1. state' \in GameState
      BY <1>1, <2>3, EnterTyped DEF Go
    <3>2. EnterMessages(p, next, item) \in Seq(News)
      <4>1. << >> \in Seq(News)
        OBVIOUS
      <4> QED  BY <1>3, <1>4, <4>1 DEF EnterMessages
    <3>3. (IF state'.game_over THEN <<GameOver(Winner(state'))>> ELSE << >>) \in Seq(News)
      BY <1>2
    <3>4. PICK a \in Seq(News), b \in Seq(News) :
            /\ a = EnterMessages(p, next, item)
            /\ b = IF state'.game_over THEN <<GameOver(Winner(state'))>> ELSE << >>
      BY <3>2, <3>3
    <3>5. out' = a \o b
      BY <2>3, <3>4 DEF Go, item
    <3>6. a \o b \in Seq(News)
      BY ConcatProperties
    <3> QED  BY <3>1, <3>5, <3>6
  <2> QED  BY <2>1, <2>2, <2>3, CommandIs DEF next
<1> QED  BY <1>5

-----------------------------------------------------------------------------
(* Types, and what there is before the registration.                       *)

\* TypeOK, made inductive: what is written for the window and what it knows are of a kind.
Typed ==
  /\ level \in Levels /\ state \in GameState
  /\ conn \in {"none", "loaded", "playing", "cut", "lost"} /\ moves \in 0 .. MaxMoves
  /\ games \in 1 .. MaxGames /\ clean \in BOOLEAN /\ pipe \in Seq(News)
  /\ bcast \in IF conn = "playing" THEN {"runs", "ended", "died"} ELSE {"none"}
  /\ gui \in {"open", "closed"} /\ fwd \in {"read", "write", "ended"}
  /\ view \in View /\ channel \in Seq(Message) /\ stream \in Seq(Message)
  /\ keypipe \in Seq(Dirs) /\ sent \in Seq(Dirs) /\ key \in Seq(Dirs)
  /\ Len(key) = IF fwd = "write" THEN 1 ELSE 0

Spawned(s)    == \A i \in 1 .. Len(s) : s[i].msgt = "SPAWN"
Spawnless(s)  == \A i \in 1 .. Len(s) : s[i].msgt # "SPAWN"

\* A window that has not been registered has seen nothing but spawns, and sends no keys.
Waiting == /\ view.status = "NotStarted" /\ view.player = 0 /\ view.winner = 0
           /\ Spawned(channel) /\ Spawned(stream)
           /\ keypipe = << >> /\ key = << >> /\ sent = << >>

Early == /\ conn = "none" => /\ view = Blank /\ channel = << >> /\ stream = << >>
                             /\ clean => pipe = << >>
         /\ conn \in {"none", "loaded"} => Waiting

LEMMA NoAims == << >> \in Aims /\ << >> \in Things /\ DOMAIN << >> = {}
<1>1. PICK f : f = << >>
  OBVIOUS
<1>2. f = [id \in {} |-> 0] /\ DOMAIN f = {}
  BY <1>1
<1>3. f \in [{} -> Position] /\ f \in [{} -> Thing]
  BY <1>2
<1> QED  BY <1>1, <1>2, <1>3 DEF Aims, Things

LEMMA BlankTyped == Blank \in View
BY NoAims DEF Blank, View

\* The window after move_to_next_place.
LEMMA MoveIs ==
  ASSUME NEW v \in View
  PROVE  /\ Move(v) \in View /\ Move(v).intents = << >>
         /\ DOMAIN Move(v).ents = DOMAIN v.ents
         /\ Move(v).ents =
              [id \in DOMAIN v.ents |-> IF id \in DOMAIN v.intents
                                          THEN [v.ents[id] EXCEPT !.pos = v.intents[id]]
                                          ELSE v.ents[id]]
         /\ Move(v).tiles = v.tiles /\ Move(v).status = v.status
         /\ Move(v).player = v.player /\ Move(v).winner = v.winner
<1> DEFINE ents == [id \in DOMAIN v.ents |-> IF id \in DOMAIN v.intents
                                               THEN [v.ents[id] EXCEPT !.pos = v.intents[id]]
                                               ELSE v.ents[id]]
<1>1. Move(v) = [v EXCEPT !.ents = ents, !.intents = << >>]
  BY DEF Move, View
<1>2. DOMAIN v.ents \in SUBSET Int /\ \A id \in DOMAIN v.ents : v.ents[id] \in Thing
  BY ThingsAre DEF View
<1>3. \A id \in DOMAIN v.intents : v.intents[id] \in Position
  BY AimsAre DEF View
<1>4. ASSUME NEW id \in DOMAIN v.ents PROVE ents[id] \in Thing
  BY <1>2, <1>3 DEF Thing
<1>5. ents \in Things
  <2>1. ents \in [DOMAIN v.ents -> Thing]
    <3>1. ents = [id \in DOMAIN v.ents |-> ents[id]]
      OBVIOUS
    <3> HIDE DEF ents
    <3> QED  BY <1>4, <3>1
  <2> HIDE DEF ents
  <2> QED  BY <1>2, <2>1 DEF Things
<1>6. DOMAIN ents = DOMAIN v.ents
  OBVIOUS
<1> HIDE DEF ents
<1>7. Move(v) \in View
  BY <1>1, <1>5, <1>6, NoAims DEF View
<1>8. Move(v).ents = ents
  BY <1>1 DEF View
<1> QED  BY <1>1, <1>6, <1>7, <1>8 DEF View, ents

LEMMA TypedInit == Init => Typed /\ Early
<1> SUFFICES ASSUME Init PROVE Typed /\ Early
  OBVIOUS
<1>1. state \in GameState /\ level \in Levels
  BY ResetTyped, SameReset DEF Init, Rules!Init, GameState
<1>2. << >> \in Seq(Message) /\ << >> \in Seq(News) /\ << >> \in Seq(Dirs) /\ Len(<< >>) = 0
  OBVIOUS
<1>3. Typed
  BY <1>1, <1>2, BlankTyped, ClientAssumption DEF Init, Typed
<1>4. view.status = "NotStarted" /\ view.player = 0 /\ view.winner = 0
  BY DEF Init, Blank
<1>5. Early
  BY <1>2, <1>4 DEF Init, Early, Waiting, Spawned
<1> QED  BY <1>3, <1>5

\* Keys are passed on one at a time, up to four of them are taken for it.
LEMMA KeysLeft ==
  ASSUME NEW s \in Seq(Dirs)
  PROVE  SubSeq(s, BUFFER + 1, Len(s)) \in Seq(Dirs)
<1>1. Len(s) \in Nat /\ BUFFER + 1 \in Int /\ \A i \in BUFFER + 1 .. Len(s) : s[i] \in Dirs
  BY LenProperties DEF BUFFER
<1> QED  BY <1>1, SubSeqProperties

LEMMA CutShort ==
  ASSUME NEW s \in Seq(Message), NEW n \in 0 .. Len(s)
  PROVE  SubSeq(s, 1, n) \in Seq(Message)
<1>1. Len(s) \in Nat /\ \A i \in 1 .. n : s[i] \in Message
  BY LenProperties
<1> QED  BY <1>1, SubSeqProperties

LEMMA FetchedTyped == ASSUME Typed PROVE Fetched \in View /\ Move(Fetched) \in View
<1>1. Fetched \in View
  BY TakenTyped DEF Typed, Fetched
<1> QED  BY <1>1, MoveIs

LEMMA TypedTick == ASSUME Typed, Tick PROVE Typed'
<1>1. << >> \in Seq(Message)
  OBVIOUS
<1>2. PICK k \in Key : TickIdle \/ TickRunning(k) \/ TickOver(k)
  BY DEF Tick
<1>3. view' \in View
  <2>1. CASE TickIdle
    BY <2>1, FetchedTyped DEF TickIdle
  <2>2. CASE TickRunning(k)
    BY <2>2, FetchedTyped, BlankTyped DEF TickRunning, Exit
  <2>3. CASE TickOver(k)
    <3>1. [Fetched EXCEPT !.status = "NotStarted"] \in View
      BY FetchedTyped DEF View
    <3> QED  BY <2>3, <3>1, FetchedTyped, BlankTyped DEF TickOver, Exit
  <2> QED  BY <1>2, <2>1, <2>2, <2>3
<1>4. keypipe' \in Seq(Dirs)
  <2>1. CASE keypipe' = keypipe
    BY <2>1 DEF Typed
  <2>2. CASE k \in Dirs /\ keypipe' = Append(keypipe, k)
    BY <2>2, AppendProperties DEF Typed
  <2> QED  BY <1>2, <2>1, <2>2 DEF TickIdle, TickRunning, TickOver
<1>5. gui' \in {"open", "closed"}
  BY <1>2 DEF Typed, TickIdle, TickRunning, TickOver, Exit
<1> QED  BY <1>1, <1>3, <1>4, <1>5 DEF Typed, Tick, server, turn, game, keys

\* What the server's side does with what it has to say.
LEMMA TypedServer ==
  ASSUME Typed, Deliver \/ BroadcasterDies \/ HangUp \/ ServerDies \/ NextGame
  PROVE  Typed'
<1>1. << >> \in Seq(News) /\ << >> \in Seq(Message) /\ << >> \in Seq(Dirs) /\ Len(<< >>) = 0
  OBVIOUS
<1>2. ASSUME pipe # << >>
      PROVE  Head(pipe) \in News /\ Head(pipe) \in Message /\ Tail(pipe) \in Seq(News)
  BY <1>2, HeadTailProperties, NewsAre DEF Typed
<1>3. CASE Deliver
  <2>1. stream' \in Seq(Message) /\ pipe' \in Seq(News)
    BY <1>2, <1>3, AppendProperties DEF Typed, Deliver
  <2>2. bcast' \in {"runs", "ended"} /\ conn' = conn /\ conn = "playing"
    BY <1>3 DEF Typed, Deliver
  <2> QED  BY <1>3, <2>1, <2>2 DEF Typed, Deliver, game, turn, window, keys
<1>4. CASE BroadcasterDies
  <2>1. pipe' \in Seq(News)
    BY <1>2, <1>4 DEF Typed, BroadcasterDies
  <2>2. bcast' = "died" /\ conn' = conn /\ conn = "playing"
    BY <1>4 DEF Typed, BroadcasterDies
  <2> QED  BY <1>4, <2>1, <2>2 DEF Typed, BroadcasterDies, game, turn, window, keys
<1>5. ASSUME Cut PROVE stream' \in Seq(Message) /\ sent' = << >> /\ bcast' = "none"
  BY <1>5, CutShort DEF Typed, Cut
<1>6. CASE HangUp
  BY <1>1, <1>5, <1>6 DEF Typed, HangUp, Cut, game, turn, window
<1>7. CASE ServerDies
  BY <1>1, <1>5, <1>7 DEF Typed, ServerDies, Cut, game, turn, window
<1>8. CASE NextGame
  <2>1. state' \in GameState /\ level' = level
    BY <1>8, ResetTyped, SameReset DEF NextGame, Rules!Reset
  <2>2. games' \in 1 .. MaxGames /\ clean' \in BOOLEAN
    BY <1>8, ClientAssumption DEF Typed, NextGame
  <2>3. bcast' = "none" /\ conn' = "none" /\ pipe' = pipe /\ moves' = moves
    BY <1>8 DEF Typed, NextGame
  <2> QED  BY <1>1, <1>8, <2>1, <2>2, <2>3, BlankTyped DEF Typed, NextGame
<1> QED  BY <1>3, <1>4, <1>6, <1>7, <1>8

LEMMA TypedNext == Typed /\ [Next]_vars => Typed'
<1> SUFFICES ASSUME Typed, [Next]_vars PROVE Typed'
  OBVIOUS
<1>1. ASSUME NEW p \in Player, NEW dir, Command(p, dir)
      PROVE  state' \in GameState /\ level' \in Levels /\ pipe' \in Seq(News)
  <2>1. state' \in GameState /\ out' \in Seq(News) /\ level' = level
    BY <1>1, CommandTold, CommandIs DEF Typed, Command
  <2>2. pipe' = pipe \o out'
    BY <1>1 DEF Command
  <2>3. PICK s \in Seq(News) : s = out'
    BY <2>1
  <2>4. pipe \o s \in Seq(News)
    BY ConcatProperties DEF Typed
  <2> QED  BY <2>1, <2>2, <2>3, <2>4 DEF Typed
<1>2. CASE Prepare
  <2>1. level \in [Cells -> Glyph] /\ level' = level /\ state' \in GameState /\ out' = << >>
    BY <1>2, LoadIs DEF Typed, Prepare
  <2>2. Scene(level) \in Seq(Message)
    BY <2>1, SceneTold
  <2>3. stream' \in Seq(Message)
    BY <1>2, <2>1, <2>2, ConcatEmptySeq DEF Prepare
  <2> QED  BY <1>2, <2>1, <2>3 DEF Typed, Prepare, turn, window, keys
<1>3. CASE Register
  <2>1. Registered(Me) \in Message
    BY DEF Message
  <2>2. stream' \in Seq(Message)
    BY <1>3, <2>1, AppendProperties DEF Typed, Register
  <2> QED  BY <1>3, <2>2 DEF Typed, Register, game, turn, window, keys
<1>4. CASE PlayMine
  <2>1. sent' \in Seq(Dirs)
    BY <1>4, HeadTailProperties DEF Typed, PlayMine
  <2>2. state' \in GameState /\ level' \in Levels /\ pipe' \in Seq(News)
    BY <1>1, <1>4, ClientAssumption DEF PlayMine
  <2> QED  BY <1>4, <2>1, <2>2 DEF Typed, PlayMine, turn, window
<1>5. CASE PlayOther
  <2>1. Other(Me) \in Player
    BY ClientAssumption DEF Other, Player
  <2>2. state' \in GameState /\ level' \in Levels /\ pipe' \in Seq(News)
    BY <1>1, <1>5, <2>1 DEF PlayOther
  <2>3. moves' \in 0 .. MaxMoves
    BY <1>5, ClientAssumption DEF Typed, PlayOther
  <2> QED  BY <1>5, <2>2, <2>3 DEF Typed, PlayOther, window, keys
<1>6. CASE Deliver \/ BroadcasterDies \/ HangUp \/ ServerDies \/ NextGame
  BY <1>6, TypedServer
<1>7. CASE Receive
  <2>1. channel' \in Seq(Message) /\ stream' \in Seq(Message)
    BY <1>7, HeadTailProperties, AppendProperties DEF Typed, Receive
  <2> QED  BY <1>7, <2>1 DEF Typed, Receive, server, turn, game, window, keys
<1>8. CASE Tick
  BY <1>8, TypedTick
<1>9. CASE CloseWindow
  <2>1. << >> \in Seq(Message)
    OBVIOUS
  <2> QED  BY <1>9, <2>1, BlankTyped DEF Typed, CloseWindow, Exit, server, turn, game, keys
<1>10. CASE Forward
  <2>1. Head(keypipe) \in Dirs
    BY <1>10, HeadTailProperties DEF Typed, Forward
  <2>2. key' \in Seq(Dirs) /\ Len(key') = 1
    BY <1>10, <2>1 DEF Forward
  <2>3. keypipe' \in Seq(Dirs)
    BY <1>10, KeysLeft DEF Typed, Forward
  <2> QED  BY <1>10, <2>2, <2>3 DEF Typed, Forward, server, turn, game, window
<1>11. CASE EndOfKeys
  BY <1>11 DEF Typed, EndOfKeys, server, turn, game, window
<1>12. CASE SendKey
  <2>1. sent' \in Seq(Dirs)
    BY <1>12, ConcatProperties DEF Typed, SendKey
  <2>2. key' \in Seq(Dirs) /\ Len(key') = 0
    BY <1>12 DEF SendKey
  <2> QED  BY <1>12, <2>1, <2>2 DEF Typed, SendKey, server, turn, game, window
<1>13. CASE SendKeyFails
  <2>1. key' \in Seq(Dirs) /\ Len(key') = 0
    BY <1>13 DEF SendKeyFails
  <2> QED  BY <1>13, <2>1 DEF Typed, SendKeyFails, server, turn, game, window
<1>14. CASE UNCHANGED vars
  BY <1>14 DEF Typed, vars, server, turn, game, window, keys
<1> QED  BY <1>2, <1>3, <1>4, <1>5, <1>6, <1>7, <1>8, <1>9, <1>10, <1>11, <1>12, <1>13, <1>14
         DEF Next, Forwarder

\* The type invariant of Client, for maps of every size and as many keys as one likes.
THEOREM ClientTypeCorrect == Spec => []TypeOK
<1>1. ASSUME Typed PROVE TypeOK
  <2>1. \A id \in DOMAIN view.ents : view.ents[id].pos \in Position
    BY <1>1, ThingsAre DEF Typed, View, Thing
  <2> QED  BY <1>1, <2>1 DEF Typed, TypeOK, View
<1> QED  BY <1>1, TypedInit, TypedNext, PTL DEF Spec

-----------------------------------------------------------------------------
(* Keys.                                                                   *)

\* As long as there are nothing but spawns, a tick does no more than take them in.
LEMMA FetchedWaiting ==
  ASSUME Typed, Spawned(channel)
  PROVE  /\ Fetched.status = view.status /\ Fetched.player = view.player
         /\ Fetched.winner = view.winner
BY TakenSpawns DEF Typed, Spawned, Fetched

LEMMA SpawnedReceived ==
  ASSUME Typed, Receive, Spawned(channel), Spawned(stream)
  PROVE  Spawned(channel') /\ Spawned(stream')
<1>1. /\ stream # << >> /\ channel' = Append(channel, Head(stream)) /\ stream' = Tail(stream)
      /\ channel \in Seq(Message) /\ stream \in Seq(Message)
  BY DEF Typed, Receive
<1>2. /\ Head(stream) = stream[1] /\ 1 \in 1 .. Len(stream)
      /\ Head(stream) \in Message /\ Len(stream) \in Nat
  BY <1>1, HeadTailProperties
<1>3. PICK e \in Message : e = Head(stream) /\ e.msgt = "SPAWN"
  BY <1>2 DEF Spawned
<1>4. /\ Len(channel') = Len(channel) + 1 /\ Len(channel) \in Nat
      /\ \A i \in 1 .. Len(channel) : channel'[i] = channel[i]
      /\ channel'[Len(channel) + 1] = e
  BY <1>1, <1>3, AppendProperties
<1>5. /\ Len(stream') = Len(stream) - 1
      /\ \A i \in 1 .. Len(stream') : stream'[i] = stream[i + 1]
  BY <1>1, HeadTailProperties
<1>6. \A i \in 1 .. Len(channel') : channel'[i].msgt = "SPAWN"
  BY <1>3, <1>4 DEF Spawned
<1>7. \A i \in 1 .. Len(stream') : stream'[i].msgt = "SPAWN"
  BY <1>2, <1>5 DEF Spawned
<1> QED  BY <1>6, <1>7 DEF Spawned

LEMMA EarlyNext == Typed /\ Early /\ [Next]_vars => Early'
<1> SUFFICES ASSUME Typed, Early, [Next]_vars PROVE Early'
  OBVIOUS
<1> DEFINE Settled == conn' \in {"playing", "cut", "lost"}
<1>1. Settled => Early'
  BY DEF Early
<1>2. CASE Prepare
  <2>1. level \in [Cells -> Glyph] /\ out' = << >>
    BY <1>2, LoadIs DEF Typed, Prepare
  <2>2. Scene(level) \in Seq(Message) /\ Spawned(Scene(level))
    BY <2>1, SceneTold DEF Spawned
  <2>3. stream' = Scene(level)
    BY <1>2, <2>1, <2>2, ConcatEmptySeq DEF Prepare
  <2>4. Spawned(stream')
    BY <2>2, <2>3
  <2>5. conn' = "loaded" /\ Waiting'
    BY <1>2, <2>4 DEF Prepare, Early, Waiting, window, keys, Spawned
  <2> QED  BY <2>5 DEF Early
<1>3. CASE Register
  BY <1>1, <1>3 DEF Register
<1>4. CASE PlayMine
  BY <1>1, <1>4 DEF PlayMine, Command
<1>5. CASE PlayOther
  <2>1. conn' = conn /\ conn \in {"loaded", "playing"}
    BY <1>5 DEF PlayOther
  <2>2. Waiting => Waiting'
    BY <1>5 DEF PlayOther, Waiting, Spawned, window, keys
  <2> QED  BY <1>1, <2>1, <2>2 DEF Early
<1>6. CASE Deliver \/ BroadcasterDies \/ HangUp \/ ServerDies \/ NextGame
  <2>1. ASSUME Deliver \/ BroadcasterDies PROVE Settled
    BY <2>1 DEF Typed, Deliver, BroadcasterDies
  <2>2. ASSUME HangUp \/ ServerDies PROVE Settled
    BY <2>2 DEF HangUp, ServerDies
  <2>3. ASSUME NextGame PROVE Early'
    <3>1. /\ conn' = "none" /\ pipe' = pipe /\ clean' = (pipe = << >>)
          /\ view' = Blank /\ channel' = << >> /\ stream' = << >>
          /\ keypipe' = << >> /\ fwd' = "read" /\ key' = << >> /\ sent' = << >>
      BY <2>3 DEF NextGame
    <3>2. Blank.status = "NotStarted" /\ Blank.player = 0 /\ Blank.winner = 0
      BY DEF Blank
    <3>3. clean' => pipe' = << >>
      BY <3>1
    <3>4. Spawned(channel') /\ Spawned(stream')
      <4>1. PICK t : t = << >> /\ Spawned(t)
        <5>1. Spawned(<< >>)
          BY DEF Spawned
        <5> QED  BY <5>1
      <4> QED  BY <3>1, <4>1
    <3> QED  BY <3>1, <3>2, <3>3, <3>4 DEF Early, Waiting
  <2> QED  BY <1>1, <1>6, <2>1, <2>2, <2>3
<1>7. CASE Receive
  <2>1. conn # "none" /\ UNCHANGED <<conn, window, keys>>
    BY <1>7 DEF Early, Receive, server
  <2>2. ASSUME Waiting PROVE Waiting'
    BY <1>7, <2>1, <2>2, SpawnedReceived DEF Waiting, window, keys
  <2> QED  BY <2>1, <2>2 DEF Early
<1>8. CASE Tick
  <2>1. channel' = << >> /\ UNCHANGED <<conn, clean, pipe, stream, fwd, key, sent>>
    BY <1>8 DEF Tick, server, turn
  <2>2. ASSUME Waiting PROVE Waiting' /\ view' = Fetched
    <3>1. /\ Fetched.status = "NotStarted" /\ Fetched.player = 0 /\ Fetched.winner = 0
      BY <2>2, FetchedWaiting DEF Waiting
    <3>2. view' = Fetched /\ keypipe' = keypipe
      BY <1>8, <3>1 DEF Tick, TickIdle, TickRunning, TickOver
    <3>3. Spawned(channel') /\ Spawned(stream')
      BY <2>1, <2>2 DEF Waiting, Spawned
    <3> QED  BY <2>1, <2>2, <3>1, <3>2, <3>3 DEF Waiting
  <2>3. ASSUME conn = "none" PROVE view' = Blank /\ channel' = << >> /\ stream' = << >>
    <3>1. Fetched = Blank
      BY <2>3, TakenNone DEF Early, Fetched
    <3> QED  BY <2>1, <2>2, <2>3, <3>1 DEF Early
  <2> QED  BY <2>1, <2>2, <2>3 DEF Early
<1>9. CASE CloseWindow
  BY <1>9 DEF Early, Waiting, Spawned, CloseWindow, Exit, Blank, server, turn, keys
<1>10. CASE Forward
  BY <1>1, <1>10 DEF Early, Waiting, Forward, Typed, server
<1>11. CASE EndOfKeys
  BY <1>11 DEF Early, Waiting, Spawned, EndOfKeys, server, turn, window
<1>12. CASE SendKey
  <2>1. key # << >>
    <3>1. Len(key) = 1 /\ Len(<< >>) = 0
      BY <1>12 DEF Typed, SendKey
    <3> QED  BY <3>1
  <2> QED  BY <1>1, <1>12, <2>1 DEF Early, Waiting, SendKey, Typed, server
<1>13. CASE SendKeyFails
  BY <1>1, <1>13 DEF SendKeyFails, server
<1>14. CASE UNCHANGED vars
  BY <1>14 DEF Early, Waiting, Spawned, vars, server, turn, window, keys
<1> QED  BY <1>2, <1>3, <1>4, <1>5, <1>6, <1>7, <1>8, <1>9, <1>10, <1>11, <1>12, <1>13, <1>14
         DEF Next, Forwarder

LEMMA AlwaysEarly == Spec => [](Typed /\ Early)
<1>1. Init => Typed /\ Early
  BY TypedInit
<1>2. Typed /\ Early /\ [Next]_vars => (Typed /\ Early)'
  BY TypedNext, EarlyNext
<1> QED  BY <1>1, <1>2, PTL DEF Spec

\* No key is on its way before the server has said that both maps are loaded: the premise
\* of LoadsAreAlone of Server, for clients without -test.
THEOREM KeysWaitForRegistration == Spec => []KeysAfterRegistration
<1>1. ASSUME Typed, Early PROVE KeysAfterRegistration
  <2>1. ASSUME conn \notin {"playing", "cut", "lost"} PROVE keypipe \o key \o sent = << >>
    <3>1. keypipe = << >> /\ key = << >> /\ sent = << >>
      BY <1>1, <2>1 DEF Typed, Early, Waiting
    <3> QED  BY <3>1
  <2> QED  BY <2>1 DEF KeysAfterRegistration
<1> QED  BY <1>1, AlwaysEarly, PTL

-----------------------------------------------------------------------------
(* Spawns come first: when the window has seen anything else, none follow. *)

SpawnsFirst(s) == \A i, j \in 1 .. Len(s) : i < j /\ s[j].msgt = "SPAWN" => s[i].msgt = "SPAWN"

Staged == /\ SpawnsFirst(stream)
          /\ view.status # "NotStarted" \/ ~Spawned(channel) => Spawnless(stream)

LEMMA StagedInit == Init => Staged
BY DEF Init, Blank, Staged, SpawnsFirst, Spawned

LEMMA StagedOn ==
  ASSUME NEW s \in Seq(Message), NEW t \in Seq(Message), Spawnless(t)
  PROVE  /\ SpawnsFirst(s) => SpawnsFirst(s \o t)
         /\ Spawnless(s) => Spawnless(s \o t)
<1>1. PICK u : u = s \o t
  OBVIOUS
<1>2. /\ Len(s) \in Nat /\ Len(t) \in Nat /\ Len(u) = Len(s) + Len(t)
      /\ \A i \in 1 .. Len(u) : u[i] = IF i <= Len(s) THEN s[i] ELSE t[i - Len(s)]
  BY <1>1, ConcatProperties, LenProperties
<1>3. ASSUME NEW i \in 1 .. Len(u)
      PROVE  \/ i \in 1 .. Len(s) /\ u[i] = s[i]
             \/ i > Len(s) /\ u[i].msgt # "SPAWN"
  <2>1. CASE i <= Len(s)
    BY <1>2, <2>1
  <2>2. CASE ~(i <= Len(s))
    <3>1. i - Len(s) \in 1 .. Len(t) /\ u[i] = t[i - Len(s)]
      BY <1>2, <2>2
    <3> QED  BY <1>2, <2>2, <3>1 DEF Spawnless
  <2> QED  BY <2>1, <2>2
<1>4. SpawnsFirst(s) => SpawnsFirst(u)
  BY <1>2, <1>3 DEF SpawnsFirst
<1>5. Spawnless(s) => Spawnless(u)
  BY <1>3 DEF Spawnless
<1> QED  BY <1>1, <1>4, <1>5

\* One message more, as a sequence of its own.
LEMMA OneMore ==
  ASSUME NEW s \in Seq(Message), NEW e \in Message
  PROVE  /\ <<e>> \in Seq(Message) /\ Append(s, e) = s \o <<e>>
         /\ e.msgt # "SPAWN" => Spawnless(<<e>>)
<1>1. <<e>> \in Seq(Message) /\ Append(s, e) = s \o <<e>>
  BY AppendIsConcat
<1>2. PICK t \in Seq(Message) : t = <<e>>
  BY <1>1
<1>3. Len(t) = 1 /\ t[1] = e
  BY <1>2
<1> QED  BY <1>1, <1>2, <1>3 DEF Spawnless

LEMMA StagedReceive == ASSUME Typed, Staged, Receive PROVE Staged'
<1>1. /\ stream # << >> /\ channel' = Append(channel, Head(stream)) /\ stream' = Tail(stream)
      /\ channel \in Seq(Message) /\ stream \in Seq(Message) /\ view' = view
  BY DEF Typed, Receive, window
<1>2. /\ Head(stream) = stream[1] /\ 1 \in 1 .. Len(stream)
      /\ Head(stream) \in Message /\ Len(stream) \in Nat
  BY <1>1, HeadTailProperties
<1>3. PICK e \in Message : e = Head(stream)
  BY <1>2
<1>4. /\ Len(channel') = Len(channel) + 1 /\ Len(channel) \in Nat
      /\ \A i \in 1 .. Len(channel) : channel'[i] = channel[i]
      /\ channel'[Len(channel) + 1] = e
  BY <1>1, <1>3, AppendProperties
<1>5. /\ Len(stream') = Len(stream) - 1
      /\ \A i \in 1 .. Len(stream') : stream'[i] = stream[i + 1]
  BY <1>1, HeadTailProperties
<1>6. SpawnsFirst(stream')
  BY <1>2, <1>5 DEF Staged, SpawnsFirst
<1>7. Spawnless(stream) => Spawnless(stream')
  BY <1>2, <1>5 DEF Spawnless
<1>8. CASE e.msgt = "SPAWN"
  <2>1. Spawned(channel) => Spawned(channel')
    BY <1>4, <1>8 DEF Spawned
  <2> QED  BY <1>1, <1>6, <1>7, <2>1 DEF Staged
<1>9. CASE e.msgt # "SPAWN"
  <2>1. Spawnless(stream')
    BY <1>2, <1>3, <1>5, <1>9 DEF Staged, SpawnsFirst, Spawnless
  <2> QED  BY <1>6, <2>1 DEF Staged
<1> QED  BY <1>8, <1>9

\* A window that knows of the beginning of the game, or of its end, has its map.
LEMMA FetchedLate == ASSUME Typed, Staged, Fetched.status # "NotStarted" PROVE Spawnless(stream)
<1>1. Spawned(channel) => view.status # "NotStarted"
  BY FetchedWaiting
<1> QED  BY <1>1 DEF Staged

LEMMA StagedNext == Typed /\ Early /\ Staged /\ [Next]_vars => Staged'
<1> SUFFICES ASSUME Typed, Early, Staged, [Next]_vars PROVE Staged'
  OBVIOUS
<1>1. ASSUME NEW t \in Seq(Message), Spawnless(t), stream' = stream \o t,
             UNCHANGED <<channel, view>>
      PROVE  Staged'
  <2>1. PICK u : u = stream \o t
    OBVIOUS
  <2>2. (SpawnsFirst(stream) => SpawnsFirst(u)) /\ (Spawnless(stream) => Spawnless(u))
    BY <1>1, <2>1, StagedOn DEF Typed
  <2> QED  BY <1>1, <2>1, <2>2 DEF Staged, SpawnsFirst, Spawnless, Spawned
<1>2. CASE Prepare
  <2>1. level \in [Cells -> Glyph] /\ out' = << >>
    BY <1>2, LoadIs DEF Typed, Prepare
  <2>2. Scene(level) \in Seq(Message) /\ Spawned(Scene(level))
    BY <2>1, SceneTold DEF Spawned
  <2>3. stream' = Scene(level)
    BY <1>2, <2>1, <2>2, ConcatEmptySeq DEF Prepare
  <2>4. SpawnsFirst(stream')
    BY <2>2, <2>3 DEF SpawnsFirst, Spawned
  <2>5. view'.status = "NotStarted" /\ Spawned(channel')
    BY <1>2 DEF Prepare, Early, Waiting, Spawned, window
  <2> QED  BY <2>4, <2>5 DEF Staged
<1>3. CASE Register
  <2>1. PICK e \in Message : e = Registered(Me) /\ e.msgt # "SPAWN"
    <3>1. Registered(Me) \in Message
      BY DEF Message
    <3>2. Registered(Me).msgt # "SPAWN"
      BY DEF Registered
    <3> QED  BY <3>1, <3>2
  <2>2. PICK t \in Seq(Message) : t = <<e>> /\ stream' = stream \o t /\ Spawnless(t)
    BY <1>3, <2>1, OneMore DEF Typed, Register
  <2> QED  BY <1>1, <1>3, <2>2 DEF Register, window
<1>4. CASE Deliver
  <2>1. PICK e \in Message : e = Head(pipe) /\ e.msgt # "SPAWN"
    <3>1. Head(pipe) \in News
      BY <1>4, HeadTailProperties DEF Typed, Deliver
    <3> QED  BY <3>1, NewsAre
  <2>2. PICK t \in Seq(Message) : t = <<e>> /\ stream' = stream \o t /\ Spawnless(t)
    BY <1>4, <2>1, OneMore DEF Typed, Deliver
  <2> QED  BY <1>1, <1>4, <2>2 DEF Deliver, window
<1>5. CASE NextGame
  BY <1>5 DEF NextGame, Blank, Staged, SpawnsFirst, Spawned
<1>6. CASE HangUp \/ ServerDies
  <2>1. PICK n \in 0 .. Len(stream) : stream' = SubSeq(stream, 1, n)
    BY <1>6 DEF HangUp, ServerDies, Cut
  <2>2. Len(stream) \in Nat /\ \A i \in 1 .. n : stream[i] \in Message
    BY LenProperties DEF Typed
  <2>3. Len(stream') = n /\ \A i \in 1 .. n : stream'[i] = stream[i]
    BY <2>1, <2>2, SubSeqProperties
  <2>4. SpawnsFirst(stream') /\ (Spawnless(stream) => Spawnless(stream'))
    BY <2>2, <2>3 DEF Staged, SpawnsFirst, Spawnless
  <2> QED  BY <1>6, <2>4 DEF Staged, HangUp, ServerDies, Cut, window, Spawned
<1>7. CASE Receive
  BY <1>7, StagedReceive
<1>8. CASE Tick
  <2>1. stream' = stream /\ Spawned(channel')
    BY <1>8 DEF Tick, Spawned
  <2>2. ASSUME view'.status # "NotStarted" PROVE Fetched.status # "NotStarted"
    <3>1. view' \in {Fetched, Move(Fetched), [Fetched EXCEPT !.status = "NotStarted"], Blank}
      BY <1>8 DEF Tick, TickIdle, TickRunning, TickOver, Exit
    <3>2. [Fetched EXCEPT !.status = "NotStarted"].status = "NotStarted"
      BY FetchedTyped DEF View
    <3>3. Move(Fetched).status = Fetched.status
      BY FetchedTyped, MoveIs
    <3>4. Blank.status = "NotStarted"
      BY DEF Blank
    <3> QED  BY <2>2, <3>1, <3>2, <3>3, <3>4
  <2>3. view'.status # "NotStarted" => Spawnless(stream)
    BY <2>2, FetchedLate
  <2> QED  BY <2>1, <2>3 DEF Staged, SpawnsFirst, Spawnless
<1>9. ASSUME UNCHANGED <<stream, channel, view>> PROVE Staged'
  BY <1>9 DEF Staged, SpawnsFirst, Spawnless, Spawned
<1>10. CASE CloseWindow
  <2>1. stream' = stream /\ view'.status = "NotStarted" /\ Spawned(channel')
    BY <1>10 DEF CloseWindow, Exit, Blank, Spawned
  <2> QED  BY <2>1 DEF Staged, SpawnsFirst
<1>11. CASE PlayMine \/ PlayOther \/ BroadcasterDies
  BY <1>9, <1>11 DEF PlayMine, PlayOther, BroadcasterDies, window
<1>12. CASE Forwarder
  BY <1>9, <1>12 DEF Forwarder, Forward, EndOfKeys, SendKey, SendKeyFails, window
<1>13. CASE UNCHANGED vars
  BY <1>9, <1>13 DEF vars, window
<1> QED  BY <1>2, <1>3, <1>4, <1>5, <1>6, <1>7, <1>8, <1>10, <1>11, <1>12, <1>13 DEF Next

-----------------------------------------------------------------------------
(* What a window is going to show, wherever it is between two ticks.       *)

\* Where everything is once it has gone where it intends to.
Where(v) == Move(v).ents

\* Two windows that are going to show the same.  A window whose player has put the message
\* box away has the status of one that has not started.
Like(u, w) == /\ u.tiles = w.tiles /\ Where(u) = Where(w)
              /\ u.player = w.player /\ u.winner = w.winner
              /\ u.status = "Running" <=> w.status = "Running"

LEMMA WhereIs ==
  ASSUME NEW v \in View
  PROVE  /\ DOMAIN Where(v) = DOMAIN v.ents
         /\ Where(v) = [id \in DOMAIN v.ents |->
                          IF id \in DOMAIN v.intents THEN [v.ents[id] EXCEPT !.pos = v.intents[id]]
                                                     ELSE v.ents[id]]
BY MoveIs DEF Where

LEMMA WhereMoved ==
  ASSUME NEW v \in View, NEW m \in Message, m.msgt = "MOVEMENT"
  PROVE  Where(Process(v, m)) = [id \in DOMAIN Where(v) |->
                                   IF id = m.id THEN [Where(v)[id] EXCEPT !.pos = m.pos]
                                                ELSE Where(v)[id]]
<1>1. PICK w \in View : w = Process(v, m)
  BY ProcessMovement
<1>2. CASE m.id \in DOMAIN v.ents
  <2>1. w = [v EXCEPT !.intents = Put(v.intents, m.id, m.pos)]
    BY <1>1, <1>2, ProcessMovement
  <2>2. w.ents = v.ents /\ w.intents = Put(v.intents, m.id, m.pos)
    BY <2>1 DEF View
  <2>3. /\ DOMAIN w.intents = DOMAIN v.intents \cup {m.id} /\ w.intents[m.id] = m.pos
        /\ \A id \in DOMAIN v.intents : id # m.id => w.intents[id] = v.intents[id]
    <3>1. PICK f, id, to : f = v.intents /\ id = m.id /\ to = m.pos
      OBVIOUS
    <3>2. /\ DOMAIN Put(f, id, to) = DOMAIN f \cup {id} /\ Put(f, id, to)[id] = to
          /\ \A i \in DOMAIN f : i # id => Put(f, id, to)[i] = f[i]
      BY DEF Put
    <3> QED  BY <2>2, <3>1, <3>2
  <2>4. \A id \in DOMAIN v.ents : v.ents[id] \in Thing
    BY ThingsAre DEF View
  <2>5. ASSUME NEW id \in DOMAIN v.ents
        PROVE  Where(w)[id] = IF id = m.id THEN [Where(v)[id] EXCEPT !.pos = m.pos]
                                           ELSE Where(v)[id]
    <3>1. /\ Where(v)[id] = IF id \in DOMAIN v.intents
                              THEN [v.ents[id] EXCEPT !.pos = v.intents[id]] ELSE v.ents[id]
          /\ Where(w)[id] = IF id \in DOMAIN w.intents
                              THEN [v.ents[id] EXCEPT !.pos = w.intents[id]] ELSE v.ents[id]
      BY <2>2, WhereIs
    <3>2. CASE id = m.id
      <4>1. Where(w)[id] = [v.ents[id] EXCEPT !.pos = m.pos]
        BY <2>3, <3>1, <3>2
      <4>2. [Where(v)[id] EXCEPT !.pos = m.pos] = [v.ents[id] EXCEPT !.pos = m.pos]
        BY <2>4, <3>1 DEF Thing
      <4> QED  BY <3>2, <4>1, <4>2
    <3>3. CASE id # m.id
      BY <2>3, <3>1, <3>3
    <3> QED  BY <3>2, <3>3
  <2>6. PICK f, g : f = Where(v) /\ g = Where(w)
    OBVIOUS
  <2>7. g = [id \in DOMAIN v.ents |-> g[id]] /\ DOMAIN f = DOMAIN v.ents
    BY <2>2, <2>6, WhereIs
  <2> QED  BY <1>1, <2>5, <2>6, <2>7
<1>3. CASE m.id \notin DOMAIN v.ents
  <2>1. w = v
    BY <1>1, <1>3, ProcessMovement
  <2>2. PICK f : f = Where(v) /\ f = [id \in DOMAIN v.ents |-> f[id]]
    BY WhereIs
  <2>3. m.id \notin DOMAIN f
    BY <1>3, <2>2, WhereIs
  <2> QED  BY <1>1, <2>1, <2>2, <2>3
<1> QED  BY <1>2, <1>3

LEMMA WhereEaten ==
  ASSUME NEW v \in View, NEW m \in Message, m.msgt = "EAT_FOOD"
  PROVE  Where(Process(v, m)) = [id \in DOMAIN Where(v) \ {m.food} |-> Where(v)[id]]
<1>1. PICK w \in View : w = Process(v, m)
  BY ProcessMeal
<1>2. /\ w.ents = Restrict(v.ents, DOMAIN v.ents \ {m.food})
      /\ w.intents = Restrict(v.intents, DOMAIN v.intents \ {m.food})
  <2>1. w = [v EXCEPT !.ents    = Restrict(v.ents, DOMAIN v.ents \ {m.food}),
                      !.intents = Restrict(v.intents, DOMAIN v.intents \ {m.food})]
    BY <1>1, ProcessMeal
  <2> QED  BY <2>1 DEF View
<1>3. /\ DOMAIN w.ents = DOMAIN v.ents \ {m.food}
      /\ DOMAIN w.intents = DOMAIN v.intents \ {m.food}
      /\ \A id \in DOMAIN w.ents : w.ents[id] = v.ents[id]
      /\ \A id \in DOMAIN w.intents : w.intents[id] = v.intents[id]
  BY <1>2 DEF Restrict
<1>4. \A id \in DOMAIN w.ents : Where(w)[id] = Where(v)[id]
  BY <1>3, WhereIs
<1>5. PICK f, g : f = Where(v) /\ g = Where(w)
  OBVIOUS
<1>6. g = [id \in DOMAIN w.ents |-> g[id]] /\ DOMAIN f = DOMAIN v.ents
  BY <1>5, WhereIs
<1> QED  BY <1>1, <1>3, <1>4, <1>5, <1>6

\* Neither the registration nor the end of the game moves anything.
LEMMA WhereKept ==
  ASSUME NEW v \in View, NEW w \in View, w.ents = v.ents, w.intents = v.intents
  PROVE  Where(w) = Where(v)
BY WhereIs

LEMMA MealKeeps ==
  ASSUME NEW v \in View, NEW m \in Message, m.msgt = "EAT_FOOD"
  PROVE  LET w == Process(v, m)
         IN  /\ w.tiles = v.tiles /\ w.player = v.player
             /\ w.winner = v.winner /\ w.status = v.status
<1>1. PICK w, e, i : /\ w = Process(v, m) /\ e = Restrict(v.ents, DOMAIN v.ents \ {m.food})
                     /\ i = Restrict(v.intents, DOMAIN v.intents \ {m.food})
  OBVIOUS
<1>2. w = [v EXCEPT !.ents = e, !.intents = i]
  BY <1>1, ProcessMeal
<1> QED  BY <1>1, <1>2 DEF View

LEMMA LikeProcess ==
  ASSUME NEW u \in View, NEW w \in View, Like(u, w), NEW m \in Message, m.msgt # "SPAWN"
  PROVE  Like(Process(u, m), Process(w, m))
<1>1. PICK a \in View, b \in View : a = Process(u, m) /\ b = Process(w, m)
  BY ProcessTyped
<1>2. CASE m.msgt = "REGISTRATION"
  <2>1. /\ a = [u EXCEPT !.player = Me, !.status = "Running"]
        /\ b = [w EXCEPT !.player = Me, !.status = "Running"]
    BY <1>1, <1>2, ProcessRegistered
  <2>2. Where(a) = Where(u) /\ Where(b) = Where(w)
    BY <2>1, WhereKept DEF View
  <2>3. Like(a, b)
    BY <2>1, <2>2 DEF Like, View
  <2> QED  BY <1>1, <2>3
<1>3. CASE m.msgt = "GAME_OVER"
  <2>1. /\ a = [u EXCEPT !.status = "Over", !.winner = m.winner]
        /\ b = [w EXCEPT !.status = "Over", !.winner = m.winner]
    BY <1>1, <1>3, ProcessOver
  <2>2. Where(a) = Where(u) /\ Where(b) = Where(w)
    BY <2>1, WhereKept DEF View
  <2>3. Like(a, b)
    BY <2>1, <2>2 DEF Like, View
  <2> QED  BY <1>1, <2>3
<1>4. CASE m.msgt = "MOVEMENT"
  <2>1. Where(a) = Where(b)
    BY <1>1, <1>4, WhereMoved DEF Like
  <2>2. /\ a.tiles = u.tiles /\ a.player = u.player /\ a.winner = u.winner /\ a.status = u.status
        /\ b.tiles = w.tiles /\ b.player = w.player /\ b.winner = w.winner /\ b.status = w.status
    BY <1>1, <1>4, ProcessMovement DEF View
  <2>3. Like(a, b)
    BY <2>1, <2>2 DEF Like
  <2> QED  BY <1>1, <2>3
<1>5. CASE m.msgt = "EAT_FOOD"
  <2>1. Where(a) = Where(b)
    <3>1. PICK f : f = Where(u) /\ f = Where(w)
      BY DEF Like
    <3>2. Where(a) = [id \in DOMAIN f \ {m.food} |-> f[id]]
      <4>1. Where(Process(u, m)) = [id \in DOMAIN Where(u) \ {m.food} |-> Where(u)[id]]
        BY <1>5, WhereEaten
      <4> QED  BY <1>1, <3>1, <4>1, Zenon
    <3>3. Where(b) = [id \in DOMAIN f \ {m.food} |-> f[id]]
      <4>1. Where(Process(w, m)) = [id \in DOMAIN Where(w) \ {m.food} |-> Where(w)[id]]
        BY <1>5, WhereEaten
      <4> QED  BY <1>1, <3>1, <4>1, Zenon
    <3> QED  BY <3>2, <3>3
  <2>2. /\ a.tiles = u.tiles /\ a.player = u.player /\ a.winner = u.winner /\ a.status = u.status
        /\ b.tiles = w.tiles /\ b.player = w.player /\ b.winner = w.winner /\ b.status = w.status
    BY <1>1, <1>5, MealKeeps
  <2>3. Like(a, b)
    BY <2>1, <2>2 DEF Like
  <2> QED  BY <1>1, <2>3
<1>6. m.msgt \in {"REGISTRATION", "MOVEMENT", "EAT_FOOD", "GAME_OVER"}
  BY DEF Message, Registered
<1> QED  BY <1>2, <1>3, <1>4, <1>5, <1>6

\* Windows that are alike stay alike, whatever messages of a running game they take in.
LEMMA LikeTaken ==
  ASSUME NEW u \in View, NEW w \in View, Like(u, w), NEW s \in Seq(Message), Spawnless(s)
  PROVE  Like(Taken(u, s), Taken(w, s))
<1>1. Len(s) \in Nat /\ \A n \in 1 .. Len(s) : s[n] \in Message /\ s[n].msgt # "SPAWN"
  BY LenProperties DEF Spawnless
<1>2. PICK g : Follows(g, u, s) /\ Taken(u, s) = g[Len(s)]
  BY <1>1, TakenSteps
<1>3. PICK h : Follows(h, w, s) /\ Taken(w, s) = h[Len(s)]
  BY <1>1, TakenSteps
<1> DEFINE S == {n \in Nat : n <= Len(s) => g[n] \in View /\ h[n] \in View /\ Like(g[n], h[n])}
<1>4. S = Nat
  <2>1. 0 \in S
    BY <1>2, <1>3 DEF Follows
  <2>2. ASSUME NEW n \in S PROVE n + 1 \in S
    <3>1. CASE n + 1 <= Len(s)
      <4>1. /\ g[n + 1] = Process(g[n], s[n + 1]) /\ h[n + 1] = Process(h[n], s[n + 1])
            /\ g[n] \in View /\ h[n] \in View /\ Like(g[n], h[n])
            /\ s[n + 1] \in Message /\ s[n + 1].msgt # "SPAWN"
        BY <1>1, <1>2, <1>3, <3>1 DEF Follows
      <4>2. PICK x \in View, y \in View, m \in Message :
              x = g[n] /\ y = h[n] /\ m = s[n + 1]
        BY <4>1
      <4>3. Like(x, y) /\ m.msgt # "SPAWN"
        BY <4>1, <4>2
      <4>4. Process(x, m) \in View /\ Process(y, m) \in View
        BY ProcessTyped
      <4>5. Like(Process(x, m), Process(y, m))
        BY <4>3, LikeProcess
      <4>6. g[n + 1] = Process(x, m) /\ h[n + 1] = Process(y, m)
        BY <4>1, <4>2
      <4> QED  BY <4>4, <4>5, <4>6
    <3> QED  BY <3>1
  <2> HIDE DEF S
  <2>3. S \in SUBSET Nat
    BY DEF S
  <2> QED  BY <2>1, <2>2, <2>3, NatSet
<1> QED  BY <1>1, <1>2, <1>3, <1>4

LEMMA LikeMoved == ASSUME NEW v \in View PROVE Like(v, Move(v))
<1>1. PICK w \in View : w = Move(v)
  BY MoveIs
<1>2. w.ents = Where(v) /\ DOMAIN w.intents = {} /\ w.tiles = v.tiles
      /\ w.player = v.player /\ w.winner = v.winner /\ w.status = v.status
  BY <1>1, MoveIs, NoAims DEF Where
<1>3. Where(w) = w.ents
  <2>1. PICK f : f = w.ents
    OBVIOUS
  <2>2. f = [id \in DOMAIN f |-> f[id]]
    BY <2>1, ThingsAre DEF View
  <2>3. Where(w) = [id \in DOMAIN f |-> f[id]]
    BY <1>2, <2>1, WhereIs
  <2> QED  BY <2>1, <2>2, <2>3
<1>4. Like(v, w)
  BY <1>2, <1>3 DEF Like
<1> QED  BY <1>1, <1>4

LEMMA LikeDismissed ==
  ASSUME NEW v \in View, v.status = "Over"
  PROVE  /\ [v EXCEPT !.status = "NotStarted"] \in View
         /\ Like(v, [v EXCEPT !.status = "NotStarted"])
<1>1. PICK w : w = [v EXCEPT !.status = "NotStarted"]
  OBVIOUS
<1>2. w \in View /\ w.ents = v.ents /\ w.intents = v.intents
  BY <1>1 DEF View
<1>3. Where(w) = Where(v)
  BY <1>2, WhereKept
<1>4. Like(v, w)
  BY <1>1, <1>3 DEF Like, View
<1> QED  BY <1>1, <1>2, <1>4

-----------------------------------------------------------------------------
(* What the window is to show of a state, and how a load_map draws it.     *)

Walls(st) == [c \in Cells |-> IF st.map[c] = "WALL" THEN "WALL" ELSE "FLOOR"]

Ids(st) == EdibleCells(st.map) \cup {PlayerId(1), PlayerId(2)}

Figure(st, id) ==
  IF id \in Cells THEN [item |-> st.map[id], pos |-> At(id)]
  ELSE IF id = PlayerId(1) THEN [item |-> "PLAYER1", pos |-> st.positions[1]]
                           ELSE [item |-> "PLAYER2", pos |-> st.positions[2]]

Figures(st) == [id \in Ids(st) |-> Figure(st, id)]

LEMMA PlayerIds ==
  /\ PlayerId(1) \in Int /\ PlayerId(2) \in Int /\ PlayerId(1) # PlayerId(2)
  /\ PlayerId(1) \notin Cells /\ PlayerId(2) \notin Cells
<1>1. PICK size \in Nat : size = MAP_SIZE
  BY SizeAssumption DEF MAP_SIZE
<1>2. Cells = 0 .. size - 1 /\ PlayerId(1) = 3 * size /\ PlayerId(2) = 3 * size + 1
  BY <1>1 DEF Cells, PlayerId
<1> QED  BY <1>2

LEMMA FigureIs ==
  ASSUME NEW st \in GameState
  PROVE  /\ \A c \in Cells : Figure(st, c) = [item |-> st.map[c], pos |-> At(c)]
         /\ Figure(st, PlayerId(1)) = [item |-> "PLAYER1", pos |-> st.positions[1]]
         /\ Figure(st, PlayerId(2)) = [item |-> "PLAYER2", pos |-> st.positions[2]]
         /\ \A id \in Ids(st) : id \in Int /\ Figure(st, id) \in Thing
<1>1. /\ \A c \in Cells : Figure(st, c) = [item |-> st.map[c], pos |-> At(c)]
      /\ Figure(st, PlayerId(1)) = [item |-> "PLAYER1", pos |-> st.positions[1]]
      /\ Figure(st, PlayerId(2)) = [item |-> "PLAYER2", pos |-> st.positions[2]]
  BY PlayerIds DEF Figure
<1>2. ASSUME NEW c \in EdibleCells(st.map) PROVE c \in Int /\ Figure(st, c) \in Thing
  <2>1. c \in Cells /\ st.map[c] \in Shown
    BY DEF EdibleCells, Edible, Shown, Tile
  <2> QED  BY <1>1, <2>1, AtOnMap DEF Thing
<1>3. st.positions[1] \in Position /\ st.positions[2] \in Position
  BY DEF GameState, Player
<1>4. /\ [item |-> "PLAYER1", pos |-> st.positions[1]] \in Thing
      /\ [item |-> "PLAYER2", pos |-> st.positions[2]] \in Thing
  BY <1>3 DEF Thing, Shown
<1>5. Figure(st, PlayerId(1)) \in Thing /\ Figure(st, PlayerId(2)) \in Thing
  BY <1>1, <1>4
<1> QED  BY <1>1, <1>2, <1>5, PlayerIds DEF Ids

\* Where a figure stands, as an offset.
Spot(st, id) == Position2Index(Figure(st, id).pos)

LEMMA SpotOnMap == ASSUME NEW st \in GameState, NEW id \in Ids(st) PROVE Spot(st, id) \in Cells
<1>1. Figure(st, id).pos \in Position
  BY FigureIs DEF Thing
<1> QED  BY <1>1, IndexInCells DEF Spot

\* Of a level, the cells before n: the walls there are, and who is on them.
WallsTo(st, n) == [c \in Cells |-> IF c < n /\ st.map[c] = "WALL" THEN "WALL" ELSE "FLOOR"]

FiguresTo(st, ents, n) ==
  /\ \A id \in Int : id \in DOMAIN ents <=> (id \in Ids(st) /\ Spot(st, id) < n)
  /\ \A id \in DOMAIN ents : ents[id] = Figure(st, id)

Drawn(v, st, n) == v \in View /\ v.tiles = WallsTo(st, n) /\ FiguresTo(st, v.ents, n)

\* A player is on the one cell with its mark.
LEMMA MarkedCell ==
  ASSUME NEW lv, IsLevel(lv), NEW p \in Player, NEW c \in Cells
  PROVE  /\ lv[c] = Mark[p] => Load(lv).positions[p] = At(c)
         /\ Position2Index(Load(lv).positions[p]) = c => lv[c] = Mark[p]
<1>1. PICK st : st = Load(lv)
  OBVIOUS
<1>2. st.positions[p] \in Position /\ lv[Position2Index(st.positions[p])] = Mark[p]
  BY <1>1, LoadPlaces
<1>3. At(c) \in Position /\ Position2Index(At(c)) = c
  BY AtOnMap
<1>4. PICK pos \in Position :
        \A other \in Position : lv[Position2Index(other)] = Mark[p] <=> other = pos
  BY DEF IsLevel
<1>5. lv[c] = Mark[p] => st.positions[p] = At(c)
  BY <1>2, <1>3, <1>4
<1> QED  BY <1>1, <1>2, <1>5

\* Who is on a cell of a level.
LEMMA WhoIsThere ==
  ASSUME NEW lv, IsLevel(lv), NEW st, st = Load(lv), NEW c \in Cells, NEW id \in Ids(st)
  PROVE  Spot(st, id) = c <=> (\/ id = c /\ lv[c] \in {".", "*"}
                               \/ id = PlayerId(1) /\ lv[c] = "@"
                               \/ id = PlayerId(2) /\ lv[c] = "!")
<1>1. st \in GameState /\ st.map = [d \in Cells |-> TileOf(lv[d])]
  BY LoadTyped DEF Load
<1>2. 1 \in Player /\ 2 \in Player /\ Mark[1] = "@" /\ Mark[2] = "!"
  BY DEF Player, Mark
<1>3. CASE id \in EdibleCells(st.map)
  <2>1. id \in Cells /\ TileOf(lv[id]) \in Edible
    BY <1>1, <1>3 DEF EdibleCells
  <2>2. Spot(st, id) = id
    BY <1>1, <2>1, FigureIs, AtOnMap DEF Spot
  <2>3. lv[id] \in {".", "*"}
    BY <2>1 DEF TileOf, Edible
  <2> QED  BY <2>1, <2>2, <2>3, PlayerIds
<1>4. CASE id = PlayerId(1)
  <2>1. Spot(st, id) = Position2Index(st.positions[1])
    BY <1>1, <1>4, FigureIs DEF Spot
  <2>2. lv[c] = Mark[1] <=> Position2Index(st.positions[1]) = c
    BY <1>2, MarkedCell, AtOnMap
  <2> QED  BY <1>2, <1>4, <2>1, <2>2, PlayerIds
<1>5. CASE id = PlayerId(2)
  <2>1. Spot(st, id) = Position2Index(st.positions[2])
    BY <1>1, <1>5, FigureIs DEF Spot
  <2>2. lv[c] = Mark[2] <=> Position2Index(st.positions[2]) = c
    BY <1>2, MarkedCell, AtOnMap
  <2> QED  BY <1>2, <1>5, <2>1, <2>2, PlayerIds
<1> QED  BY <1>3, <1>4, <1>5 DEF Ids

LEMMA TileDrawn ==
  ASSUME NEW st \in GameState, NEW c \in Cells, NEW v \in View, v.tiles = WallsTo(st, c),
         NEW m \in Message, m.msgt = "SPAWN", m.pos = At(c),
         m.item = IF st.map[c] = "WALL" THEN "WALL" ELSE "FLOOR"
  PROVE  LET w == Process(v, m)
         IN  w \in View /\ w.tiles = WallsTo(st, c + 1) /\ w.ents = v.ents
<1>1. PICK w \in View : w = Process(v, m) /\ w = [v EXCEPT !.tiles[c] = m.item]
  BY ProcessTile, AtOnMap
<1>2. w.tiles = [v.tiles EXCEPT ![c] = m.item] /\ w.ents = v.ents
  BY <1>1 DEF View
<1>3. c \in Int /\ \A d \in Cells : d \in Int /\ (d < c + 1 <=> d < c \/ d = c)
  BY DEF Cells
<1>4. w.tiles = WallsTo(st, c + 1)
  BY <1>2, <1>3 DEF WallsTo
<1> QED  BY <1>1, <1>2, <1>4

LEMMA ThingDrawn ==
  ASSUME NEW st \in GameState, NEW c \in Cells, NEW v \in View, FiguresTo(st, v.ents, c),
         NEW m \in Message, m.msgt = "SPAWN", m.item \notin {"WALL", "FLOOR"},
         m.id \in Ids(st), Figure(st, m.id) = [item |-> m.item, pos |-> m.pos],
         \A id \in Ids(st) : Spot(st, id) = c <=> id = m.id
  PROVE  LET w == Process(v, m)
         IN  w \in View /\ w.tiles = v.tiles /\ FiguresTo(st, w.ents, c + 1)
<1>1. PICK w \in View : w = Process(v, m) /\ w = [v EXCEPT !.ents = Put(v.ents, m.id, Entity(m))]
  BY ProcessThing
<1>2. w.tiles = v.tiles /\ w.ents = Put(v.ents, m.id, Entity(m))
  BY <1>1 DEF View
<1>3. /\ DOMAIN w.ents = DOMAIN v.ents \cup {m.id} /\ w.ents[m.id] = Entity(m)
      /\ \A id \in DOMAIN v.ents : id # m.id => w.ents[id] = v.ents[id]
  <2>1. PICK f, i, e : f = v.ents /\ i = m.id /\ e = Entity(m)
    OBVIOUS
  <2>2. /\ DOMAIN Put(f, i, e) = DOMAIN f \cup {i} /\ Put(f, i, e)[i] = e
        /\ \A id \in DOMAIN f : id # i => Put(f, i, e)[id] = f[id]
    BY DEF Put
  <2> QED  BY <1>2, <2>1, <2>2
<1>4. \A id \in Ids(st) : Spot(st, id) \in Int /\ id \in Int
  BY SpotOnMap, FigureIs DEF Cells
<1>5. c \in Int
  BY DEF Cells
<1>6. ASSUME NEW id \in Int PROVE id \in DOMAIN w.ents <=> (id \in Ids(st) /\ Spot(st, id) < c + 1)
  BY <1>3, <1>4, <1>5 DEF FiguresTo
<1>7. \A id \in DOMAIN w.ents : w.ents[id] = Figure(st, id)
  BY <1>3 DEF FiguresTo, Entity
<1>8. FiguresTo(st, w.ents, c + 1)
  BY <1>6, <1>7 DEF FiguresTo
<1> QED  BY <1>1, <1>2, <1>8

LEMMA NobodyDrawn ==
  ASSUME NEW st \in GameState, NEW c \in Cells, NEW ents, FiguresTo(st, ents, c),
         \A id \in Ids(st) : Spot(st, id) # c
  PROVE  FiguresTo(st, ents, c + 1)
<1>1. \A id \in Ids(st) : Spot(st, id) \in Int /\ id \in Int
  BY SpotOnMap, FigureIs DEF Cells
<1>2. c \in Int
  BY DEF Cells
<1>3. \A id \in Ids(st) : Spot(st, id) < c + 1 <=> Spot(st, id) < c
  BY <1>1, <1>2
<1> QED  BY <1>3 DEF FiguresTo

LEMMA TakenTwo ==
  ASSUME NEW v, NEW a \in Message, NEW b \in Message
  PROVE  Taken(v, <<a, b>>) = Process(Process(v, a), b)
<1>1. PICK s \in Seq(Message) : s = <<a>>
  <2>1. <<a>> \in Seq(Message)
    OBVIOUS
  <2> QED  BY <2>1
<1>2. Taken(v, Append(s, b)) = Process(Taken(v, s), b)
  BY TakenNext
<1>3. Append(s, b) = <<a, b>>
  <2>1. PICK t, u : t = Append(s, b) /\ u = <<a, b>>
    OBVIOUS
  <2>2. Len(s) = 1 /\ s[1] = a
    BY <1>1
  <2>3. t \in Seq(Message) /\ Len(t) = 2 /\ t[1] = a /\ t[2] = b
    <3>1. /\ Append(s, b) \in Seq(Message) /\ Len(Append(s, b)) = Len(s) + 1
          /\ \A i \in 1 .. Len(s) : Append(s, b)[i] = s[i]
          /\ Append(s, b)[Len(s) + 1] = b
      BY AppendProperties
    <3>2. t \in Seq(Message) /\ Len(t) = 1 + 1 /\ t[1] = a /\ t[1 + 1] = b
      BY <2>1, <2>2, <3>1
    <3> QED  BY <3>2
  <2>4. u \in Seq(Message) /\ Len(u) = 2 /\ u[1] = a /\ u[2] = b
    BY <2>1
  <2>5. t = u
    BY <2>3, <2>4, SeqEqual
  <2> QED  BY <2>1, <2>5
<1> QED  BY <1>1, <1>2, <1>3, TakenOne

\* One more cell.
LEMMA CellDrawn ==
  ASSUME NEW lv, IsLevel(lv), NEW st, st = Load(lv), NEW c \in Cells, NEW v, Drawn(v, st, c)
  PROVE  Drawn(Taken(v, Spawns(lv[c], c % WIDTH, c \div WIDTH)), st, c + 1)
<1>1. /\ st \in GameState /\ st.map = [d \in Cells |-> TileOf(lv[d])]
      /\ v \in View /\ v.tiles = WallsTo(st, c) /\ FiguresTo(st, v.ents, c)
  BY LoadTyped DEF Load, Drawn
<1>2. PICK x, y, g : x = c % WIDTH /\ y = c \div WIDTH /\ g = lv[c]
  OBVIOUS
<1>3. g \in Glyph /\ st.map[c] = TileOf(g)
  BY <1>1, <1>2 DEF IsLevel
<1>4. \A item \in Shown : LET m == Spawn(x, y, item)
                          IN  /\ m \in Message /\ m.msgt = "SPAWN" /\ m.item = item /\ m.pos = At(c)
                              /\ m.id = IF item = "PLAYER1" THEN PlayerId(1)
                                         ELSE IF item = "PLAYER2" THEN PlayerId(2)
                                         ELSE IF item \in Edible THEN c
                                         ELSE MAP_SIZE + c
  BY <1>2, SpawnTold
<1>5. {"WALL", "FLOOR", "FOOD", "SUPERFOOD", "PLAYER1", "PLAYER2"} \subseteq Shown
  BY DEF Shown, Tile, Edible
<1>6. \A id \in Ids(st) : Spot(st, id) = c <=> (\/ id = c /\ g \in {".", "*"}
                                                \/ id = PlayerId(1) /\ g = "@"
                                                \/ id = PlayerId(2) /\ g = "!")
  BY <1>2, WhoIsThere
<1>7. c # PlayerId(1) /\ c # PlayerId(2) /\ PlayerId(1) # PlayerId(2)
  BY PlayerIds
<1>8. ASSUME NEW item \in {"WALL", "FLOOR"}, g = IF item = "WALL" THEN "#" ELSE " "
      PROVE  Drawn(Taken(v, Spawns(g, x, y)), st, c + 1)
  <2>1. PICK m \in Message : /\ m = Spawn(x, y, item) /\ m.msgt = "SPAWN"
                             /\ m.pos = At(c) /\ m.item = item
    BY <1>4, <1>5, <1>8
  <2>2. Spawns(g, x, y) = <<m>>
    BY <1>8, <2>1 DEF Spawns
  <2>3. item = IF st.map[c] = "WALL" THEN "WALL" ELSE "FLOOR"
    BY <1>3, <1>8 DEF TileOf
  <2>4. PICK w \in View : w = Process(v, m) /\ w.tiles = WallsTo(st, c + 1) /\ w.ents = v.ents
    BY <1>1, <2>1, <2>3, TileDrawn
  <2>5. \A id \in Ids(st) : Spot(st, id) # c
    BY <1>6, <1>8
  <2>6. FiguresTo(st, w.ents, c + 1)
    BY <1>1, <2>4, <2>5, NobodyDrawn
  <2>7. Drawn(w, st, c + 1)
    BY <2>4, <2>6 DEF Drawn
  <2> QED  BY <2>2, <2>4, <2>7, TakenOne
<1>9. PICK floor \in Message : /\ floor = Spawn(x, y, "FLOOR") /\ floor.msgt = "SPAWN"
                               /\ floor.pos = At(c) /\ floor.item = "FLOOR"
  BY <1>4, <1>5
<1>10. ASSUME NEW item \in Edible, g = IF item = "FOOD" THEN "." ELSE "*"
       PROVE  Drawn(Taken(v, Spawns(g, x, y)), st, c + 1)
  <2>1. PICK m \in Message : /\ m = Spawn(x, y, item) /\ m.msgt = "SPAWN" /\ m.pos = At(c)
                             /\ m.item = item /\ m.id = c
    BY <1>4, <1>5, <1>10 DEF Edible
  <2>2. Spawns(g, x, y) = <<floor, m>>
    BY <1>9, <1>10, <2>1 DEF Spawns, Edible
  <2>3. st.map[c] = item /\ st.map[c] # "WALL"
    BY <1>3, <1>10 DEF TileOf, Edible
  <2>4. PICK w \in View : w = Process(v, floor) /\ w.tiles = WallsTo(st, c + 1) /\ w.ents = v.ents
    BY <1>1, <1>9, <2>3, TileDrawn
  <2>5. m.id \in Ids(st) /\ Figure(st, m.id) = [item |-> m.item, pos |-> m.pos]
    BY <1>1, <2>1, <2>3, FigureIs DEF Ids, EdibleCells
  <2>6. \A id \in Ids(st) : Spot(st, id) = c <=> id = m.id
    BY <1>6, <1>7, <1>10, <2>1 DEF Edible
  <2>7. m.item \notin {"WALL", "FLOOR"}
    BY <2>1 DEF Edible
  <2>8. PICK u \in View : u = Process(w, m) /\ u.tiles = w.tiles /\ FiguresTo(st, u.ents, c + 1)
    BY <1>1, <2>1, <2>4, <2>5, <2>6, <2>7, ThingDrawn
  <2>9. Drawn(u, st, c + 1)
    BY <2>4, <2>8 DEF Drawn
  <2>10. Taken(v, <<floor, m>>) = u
    BY <2>4, <2>8, TakenTwo
  <2> QED  BY <2>2, <2>9, <2>10
<1>11. ASSUME NEW p \in Player, g = IF p = 1 THEN "@" ELSE "!"
       PROVE  Drawn(Taken(v, Spawns(g, x, y)), st, c + 1)
  <2>1. PICK item \in Shown : item = IF p = 1 THEN "PLAYER1" ELSE "PLAYER2"
    BY <1>5
  <2>2. PICK m \in Message : /\ m = Spawn(x, y, item) /\ m.msgt = "SPAWN" /\ m.pos = At(c)
                             /\ m.item = item /\ m.id = PlayerId(p)
    <3>1. CASE p = 1
      BY <1>4, <2>1, <3>1
    <3>2. CASE p = 2
      BY <1>4, <2>1, <3>2
    <3> QED  BY <3>1, <3>2 DEF Player
  <2>3. Spawns(g, x, y) = <<m, floor>>
    BY <1>9, <1>11, <2>1, <2>2 DEF Spawns
  <2>4. st.map[c] # "WALL"
    BY <1>3, <1>11 DEF TileOf
  <2>5. st.positions[p] = At(c)
    <3>1. lv[c] = Mark[p]
      BY <1>2, <1>11 DEF Mark
    <3> QED  BY <3>1, MarkedCell
  <2>6. m.id \in Ids(st) /\ Figure(st, m.id) = [item |-> m.item, pos |-> m.pos]
    BY <1>1, <2>1, <2>2, <2>5, FigureIs DEF Ids, Player
  <2>7. \A id \in Ids(st) : Spot(st, id) = c <=> id = m.id
    BY <1>6, <1>7, <1>11, <2>2 DEF Player
  <2>8. m.item \notin {"WALL", "FLOOR"}
    BY <2>1, <2>2
  <2>9. PICK w \in View : w = Process(v, m) /\ w.tiles = v.tiles /\ FiguresTo(st, w.ents, c + 1)
    BY <1>1, <2>2, <2>6, <2>7, <2>8, ThingDrawn
  <2>10. w.tiles = WallsTo(st, c)
    BY <1>1, <2>9
  <2>11. PICK u \in View : u = Process(w, floor) /\ u.tiles = WallsTo(st, c + 1) /\ u.ents = w.ents
    BY <1>1, <1>9, <2>4, <2>10, TileDrawn
  <2>12. Drawn(u, st, c + 1)
    BY <2>9, <2>11 DEF Drawn
  <2>13. Taken(v, <<m, floor>>) = u
    BY <2>9, <2>11, TakenTwo
  <2> QED  BY <2>3, <2>12, <2>13
<1>12. Drawn(Taken(v, Spawns(g, x, y)), st, c + 1)
  <2>1. CASE g = "#"
    <3>1. PICK item \in {"WALL", "FLOOR"} : item = "WALL"
      OBVIOUS
    <3> QED  BY <1>8, <2>1, <3>1
  <2>2. CASE g = " "
    <3>1. PICK item \in {"WALL", "FLOOR"} : item = "FLOOR"
      OBVIOUS
    <3> QED  BY <1>8, <2>2, <3>1
  <2>3. CASE g = "."
    <3>1. PICK item \in Edible : item = "FOOD"
      BY DEF Edible
    <3> QED  BY <1>10, <2>3, <3>1
  <2>4. CASE g = "*"
    <3>1. PICK item \in Edible : item = "SUPERFOOD"
      BY DEF Edible
    <3> QED  BY <1>10, <2>4, <3>1
  <2>5. CASE g = "@"
    <3>1. PICK p \in Player : p = 1
      BY DEF Player
    <3> QED  BY <1>11, <2>5, <3>1
  <2>6. CASE g = "!"
    <3>1. PICK p \in Player : p = 2
      BY DEF Player
    <3> QED  BY <1>11, <2>6, <3>1
  <2> QED  BY <1>3, <2>1, <2>2, <2>3, <2>4, <2>5, <2>6 DEF Glyph
<1> QED  BY <1>2, <1>12

LEMMA SceneDrawn ==
  ASSUME NEW lv, IsLevel(lv)
  PROVE  Drawn(Taken(Blank, Scene(lv)), Load(lv), MAP_SIZE)
<1>1. PICK st : st = Load(lv)
  OBVIOUS
<1>2. lv \in [Cells -> Glyph] /\ MAP_SIZE \in Nat /\ st \in GameState
  BY <1>1, LoadTyped, SizeAssumption DEF IsLevel, MAP_SIZE
<1>3. PICK h : Writes(h, lv) /\ Scene(lv) = h[MAP_SIZE]
  BY SceneSteps
<1> DEFINE S == {n \in Nat : n <= MAP_SIZE => Written(h, n) /\ Drawn(Taken(Blank, h[n]), st, n)}
<1>4. Drawn(Blank, st, 0)
  <2>1. \A c \in Cells : ~(c < 0)
    BY DEF Cells
  <2>2. Blank.tiles = WallsTo(st, 0)
    BY <2>1 DEF Blank, WallsTo
  <2>3. FiguresTo(st, Blank.ents, 0)
    <3>1. \A id \in Ids(st) : ~(Spot(st, id) < 0)
      BY <1>2, <2>1, SpotOnMap
    <3> QED  BY <3>1, NoAims DEF Blank, FiguresTo
  <2> QED  BY <2>2, <2>3, BlankTyped DEF Drawn
<1>5. S = Nat
  <2>1. 0 \in S
    <3>1. h[0] = << >>
      BY <1>3 DEF Writes
    <3>2. PICK s : s = h[0]
      OBVIOUS
    <3>3. s \in Seq(Message) /\ Len(s) = 0
      BY <3>1, <3>2
    <3>4. Written(h, 0)
      BY <3>2, <3>3 DEF Written
    <3>5. Taken(Blank, h[0]) = Blank
      BY <3>1, TakenNone
    <3> QED  BY <1>4, <3>4, <3>5
  <2>2. ASSUME NEW n \in S PROVE n + 1 \in S
    <3>1. CASE n + 1 <= MAP_SIZE
      <4>1. n \in Cells /\ Written(h, n) /\ Drawn(Taken(Blank, h[n]), st, n)
        BY <1>2, <3>1 DEF Cells
      <4>2. Written(h, n + 1)
        BY <1>2, <1>3, <4>1, SceneGrows
      <4>3. PICK r \in Seq(Message), s \in Seq(Message) :
              r = h[n] /\ s = Spawns(lv[n], n % WIDTH, n \div WIDTH)
        <5>1. lv[n] \in Glyph
          BY <1>2, <4>1
        <5> QED  BY <4>1, <5>1, SpawnsTold DEF Written
      <4>4. h[n + 1] = r \o s
        BY <1>3, <4>1, <4>3 DEF Writes
      <4>5. PICK v : v = Taken(Blank, r) /\ Drawn(v, st, n)
        BY <4>1, <4>3
      <4>6. Taken(Blank, r \o s) = Taken(v, s)
        BY <4>5, TakenOn
      <4>7. Drawn(Taken(v, Spawns(lv[n], n % WIDTH, n \div WIDTH)), st, n + 1)
        BY <1>1, <4>1, <4>5, CellDrawn
      <4>8. Drawn(Taken(Blank, h[n + 1]), st, n + 1)
        BY <4>3, <4>4, <4>6, <4>7
      <4> QED  BY <4>2, <4>8
    <3> QED  BY <3>1
  <2> HIDE DEF S
  <2>3. S \in SUBSET Nat
    BY DEF S
  <2> QED  BY <2>1, <2>2, <2>3, NatSet
<1>6. Drawn(Taken(Blank, h[MAP_SIZE]), st, MAP_SIZE)
  BY <1>2, <1>5
<1> QED  BY <1>1, <1>3, <1>6

\* The window shows what there is of the state.
Mirrored(v, st) == v.tiles = Walls(st) /\ Where(v) = Figures(st)

LEMMA SceneMirrored ==
  ASSUME NEW lv, IsLevel(lv)
  PROVE  Mirrored(Taken(Blank, Scene(lv)), Load(lv))
<1>1. PICK st \in GameState : st = Load(lv)
  BY LoadTyped
<1>2. PICK v \in View : v = Taken(Blank, Scene(lv)) /\ Drawn(v, st, MAP_SIZE)
  BY <1>1, SceneDrawn DEF Drawn
<1>3. v.intents = << >>
  <2>1. Scene(lv) \in Seq(Message) /\ Spawned(Scene(lv))
    BY SceneTold DEF IsLevel, Spawned
  <2>2. PICK s \in Seq(Message) : s = Scene(lv) /\ \A i \in 1 .. Len(s) : s[i].msgt = "SPAWN"
    BY <2>1 DEF Spawned
  <2>3. Taken(Blank, s).intents = Blank.intents
    BY <2>2, TakenSpawns, BlankTyped
  <2> QED  BY <1>2, <2>2, <2>3 DEF Blank
<1>4. PICK size \in Nat : size = MAP_SIZE
  BY SizeAssumption DEF MAP_SIZE
<1>5. \A id \in Ids(st) : Spot(st, id) < size /\ id \in Int
  BY <1>4, SpotOnMap, FigureIs DEF Cells
<1>6. \A c \in Cells : c < size
  BY <1>4 DEF Cells
<1>7. v.tiles = Walls(st)
  BY <1>2, <1>4, <1>6 DEF Drawn, WallsTo, Walls
<1>8. PICK f : f = v.ents
  OBVIOUS
<1>9. DOMAIN f \in SUBSET Int /\ f = [id \in DOMAIN f |-> f[id]]
  BY <1>8, ThingsAre DEF View
<1>10. DOMAIN f = Ids(st) /\ \A id \in DOMAIN f : f[id] = Figure(st, id)
  BY <1>2, <1>4, <1>5, <1>8, <1>9 DEF Drawn, FiguresTo
<1>11. f = Figures(st)
  BY <1>9, <1>10 DEF Figures
<1>12. Where(v) = f
  <2>1. Where(v) = [id \in DOMAIN f |-> f[id]]
    BY <1>3, <1>8, NoAims, WhereIs
  <2> QED  BY <1>9, <2>1
<1> QED  BY <1>1, <1>2, <1>7, <1>11, <1>12 DEF Mirrored

-----------------------------------------------------------------------------
(* What a command writes, taken in, shows what the command has done.       *)

\* The window knows its player and, if and only if it is over, how the game has ended.
Tells(v, st) == /\ v.player = Me
                /\ IF st.game_over THEN v.status # "Running" /\ v.winner = Winner(st)
                                   ELSE v.status = "Running" /\ v.winner = 0

Knows(v, w) == w.status = v.status /\ w.player = v.player /\ w.winner = v.winner

LEMMA SameShown ==
  ASSUME NEW v, NEW st, NEW after, after.map = st.map, after.positions = st.positions,
         Mirrored(v, st)
  PROVE  Mirrored(v, after)
BY DEF Mirrored, Walls, Figures, Ids, Figure

LEMMA EndShown ==
  ASSUME NEW v \in View, NEW st, Mirrored(v, st), v.player = Me
  PROVE  LET w == Process(v, GameOver(Winner(st)))
         IN  /\ GameOver(Winner(st)) \in Message /\ w \in View /\ Mirrored(w, st)
             /\ w.player = Me /\ w.status = "Over" /\ w.winner = Winner(st)
<1>1. PICK m \in Message : m = GameOver(Winner(st)) /\ m.msgt = "GAME_OVER" /\ m.winner = Winner(st)
  <2>1. GameOver(Winner(st)) \in Message
    BY DEF Message, GameOver, Winner, Player
  <2> QED  BY <2>1 DEF GameOver
<1>2. PICK w \in View : w = Process(v, m) /\ w = [v EXCEPT !.status = "Over", !.winner = m.winner]
  BY <1>1, ProcessOver
<1>3. /\ w.ents = v.ents /\ w.intents = v.intents /\ w.tiles = v.tiles /\ w.player = v.player
      /\ w.status = "Over" /\ w.winner = Winner(st)
  BY <1>1, <1>2 DEF View
<1>4. Mirrored(w, st)
  BY <1>3, WhereKept DEF Mirrored
<1> QED  BY <1>1, <1>2, <1>3, <1>4

LEMMA WalkShown ==
  ASSUME NEW v \in View, NEW st \in GameState, Mirrored(v, st),
         NEW p \in Player, NEW next \in Position
  PROVE  LET w == Process(v, Moved(p, next))
         IN  /\ Moved(p, next) \in Message /\ w \in View /\ Knows(v, w)
             /\ Mirrored(w, Walk(st, p, next))
<1>1. PICK m \in Message : /\ m = Moved(p, next) /\ m.msgt = "MOVEMENT"
                           /\ m.id = PlayerId(p) /\ m.pos = next
  <2>1. PlayerId(p) \in Int
    BY PlayerIds DEF Player
  <2>2. Moved(p, next) \in Message
    BY <2>1 DEF Moved, Message
  <2> QED  BY <2>2 DEF Moved
<1>2. PICK w \in View : w = Process(v, m)
  BY <1>1, ProcessMovement
<1>3. w.tiles = v.tiles /\ Knows(v, w)
  BY <1>1, <1>2, ProcessMovement DEF View, Knows
<1>4. PICK after \in GameState : after = Walk(st, p, next)
  BY DEF Walk, GameState
<1>5. after.map = st.map /\ after.positions = [st.positions EXCEPT ![p] = next]
  BY <1>4, WalkFields
<1>6. PICK f : f = Figures(st) /\ Where(v) = f
  BY DEF Mirrored
<1>7. Where(w) = [id \in DOMAIN f |-> IF id = m.id THEN [f[id] EXCEPT !.pos = m.pos] ELSE f[id]]
  <2>1. Where(Process(v, m)) = [id \in DOMAIN Where(v) |->
                                   IF id = m.id THEN [Where(v)[id] EXCEPT !.pos = m.pos]
                                                ELSE Where(v)[id]]
    BY <1>1, WhereMoved
  <2> QED  BY <1>2, <1>6, <2>1, Zenon
<1>8. DOMAIN f = Ids(st) /\ Ids(after) = Ids(st)
  BY <1>5, <1>6 DEF Figures, Ids
<1>9. ASSUME NEW id \in Ids(st)
      PROVE  Figure(after, id) = IF id = m.id THEN [f[id] EXCEPT !.pos = m.pos] ELSE f[id]
  <2>1. f[id] = Figure(st, id)
    BY <1>6 DEF Figures
  <2>2. CASE id \in EdibleCells(st.map)
    <3>1. id \in Cells /\ id # m.id
      BY <1>1, <2>2, PlayerIds DEF EdibleCells, Player
    <3> QED  BY <1>5, <2>1, <3>1, FigureIs
  <2>3. st.positions \in [Player -> Position]
    BY DEF GameState
  <2>4. CASE id = PlayerId(1)
    <3>1. /\ Figure(st, id) = [item |-> "PLAYER1", pos |-> st.positions[1]]
          /\ Figure(after, id) = [item |-> "PLAYER1", pos |-> after.positions[1]]
      BY <2>4, FigureIs
    <3>2. CASE p = 1
      BY <1>1, <1>5, <2>1, <2>3, <2>4, <3>1, <3>2
    <3>3. CASE p = 2
      BY <1>1, <1>5, <2>1, <2>3, <2>4, <3>1, <3>3, PlayerIds DEF Player
    <3> QED  BY <3>2, <3>3 DEF Player
  <2>5. CASE id = PlayerId(2)
    <3>1. /\ Figure(st, id) = [item |-> "PLAYER2", pos |-> st.positions[2]]
          /\ Figure(after, id) = [item |-> "PLAYER2", pos |-> after.positions[2]]
      BY <2>5, FigureIs
    <3>2. CASE p = 1
      BY <1>1, <1>5, <2>1, <2>3, <2>5, <3>1, <3>2, PlayerIds DEF Player
    <3>3. CASE p = 2
      BY <1>1, <1>5, <2>1, <2>3, <2>5, <3>1, <3>3
    <3> QED  BY <3>2, <3>3 DEF Player
  <2> QED  BY <2>2, <2>4, <2>5 DEF Ids
<1>10. Where(w) = Figures(after)
  BY <1>7, <1>8, <1>9 DEF Figures
<1>11. w.tiles = Walls(after)
  BY <1>3, <1>5 DEF Mirrored, Walls
<1>12. Mirrored(w, after)
  BY <1>10, <1>11 DEF Mirrored
<1> QED  BY <1>1, <1>2, <1>3, <1>4, <1>12

\* The mover is shown on the cell already when the food there is taken away.
LEMMA MealShown ==
  ASSUME NEW v \in View, NEW st \in GameState, Mirrored(v, st),
         NEW p \in Player, NEW next \in Position,
         NEW item, item = st.map[Position2Index(next)], item \in Edible,
         NEW after \in GameState, after.positions = st.positions,
         after.map = [st.map EXCEPT ![Position2Index(next)] = "FLOOR"]
  PROVE  LET w == Process(v, Eaten(p, next, item))
         IN  /\ Eaten(p, next, item) \in Message /\ w \in View /\ Knows(v, w)
             /\ Mirrored(w, after)
<1>1. PICK c \in Cells : c = Position2Index(next)
  BY IndexInCells
<1>2. PICK m \in Message : m = Eaten(p, next, item) /\ m.msgt = "EAT_FOOD" /\ m.food = c
  <2>1. PlayerId(p) \in Int /\ c \in Int
    BY PlayerIds DEF Player, Cells
  <2>2. Id(next.x, next.y, item) = c
    BY <1>1, <2>1 DEF Id, BaseId, Edible, Position2Index
  <2>3. Eaten(p, next, item) \in Message
    BY <2>1, <2>2 DEF Eaten, Message
  <2> QED  BY <2>2, <2>3 DEF Eaten
<1>3. PICK w \in View : w = Process(v, m)
  BY <1>2, ProcessMeal
<1>4. w.tiles = v.tiles /\ Knows(v, w)
  BY <1>2, <1>3, MealKeeps DEF Knows
<1>5. PICK f : f = Figures(st) /\ Where(v) = f
  BY DEF Mirrored
<1>6. Where(w) = [id \in DOMAIN f \ {c} |-> f[id]]
  <2>1. Where(Process(v, m)) = [id \in DOMAIN Where(v) \ {m.food} |-> Where(v)[id]]
    BY <1>2, WhereEaten
  <2> QED  BY <1>2, <1>3, <1>5, <2>1, Zenon
<1>7. /\ after.map = [st.map EXCEPT ![c] = "FLOOR"]
      /\ st.map \in [Cells -> Item] /\ st.map[c] \in Edible
  BY <1>1 DEF GameState
<1>8. EdibleCells(after.map) = EdibleCells(st.map) \ {c}
  BY <1>7, EatenCell
<1>9. DOMAIN f = Ids(st) /\ Ids(after) = Ids(st) \ {c}
  BY <1>5, <1>8, PlayerIds DEF Figures, Ids
<1>10. ASSUME NEW id \in Ids(after) PROVE Figure(after, id) = f[id]
  <2>1. f[id] = Figure(st, id) /\ id \in Ids(st) /\ id # c
    BY <1>5, <1>9 DEF Figures
  <2> QED  BY <1>7, <2>1 DEF Figure
<1>11. Where(w) = Figures(after)
  BY <1>6, <1>9, <1>10 DEF Figures
<1>12. w.tiles = Walls(after)
  <2>1. v.tiles = Walls(st) /\ \A d \in Cells : after.map[d] = "WALL" <=> st.map[d] = "WALL"
    BY <1>7 DEF Mirrored, Edible
  <2> QED  BY <1>4, <2>1 DEF Walls
<1>13. Mirrored(w, after)
  BY <1>11, <1>12 DEF Mirrored
<1> QED  BY <1>2, <1>3, <1>4, <1>13

LEMMA CommandShown ==
  ASSUME NEW p \in Player, NEW dir, state \in GameState, Rules!Command(p, dir),
         NEW v \in View, Mirrored(v, state), Tells(v, state)
  PROVE  Mirrored(Taken(v, out'), state') /\ Tells(Taken(v, out'), state')
<1>1. PICK next \in Position : next = Ahead(p, dir)
  BY NextOnMap DEF Ahead, GameState
<1>2. PICK item : item = state.map[Position2Index(next)]
  OBVIOUS
<1>3. CASE Over
  <2>1. PICK w : /\ w = Process(v, GameOver(Winner(state))) /\ Mirrored(w, state)
                 /\ w.player = Me /\ w.status = "Over" /\ w.winner = Winner(state)
    BY EndShown DEF Tells
  <2>2. Taken(v, out') = w
    BY <1>3, <2>1, TakenOne DEF Over
  <2>3. state' = state /\ state.game_over
    BY <1>3 DEF Over
  <2> QED  BY <2>1, <2>2, <2>3 DEF Tells
<1>4. CASE Bump(p, next)
  <2>1. PICK w : /\ w = Process(v, GameOver(Winner(state))) /\ Mirrored(w, state)
                 /\ w.player = Me /\ w.status = "Over" /\ w.winner = Winner(state)
    BY EndShown DEF Tells
  <2>2. Taken(v, out') = w
    BY <1>4, <2>1, TakenOne DEF Bump
  <2>3. /\ state'.map = state.map /\ state'.positions = state.positions
        /\ state'.scores = state.scores /\ state'.game_over
    BY <1>4, CollideFields DEF Bump
  <2>4. Mirrored(w, state') /\ Winner(state') = Winner(state)
    BY <2>1, <2>3, SameShown DEF Winner
  <2> QED  BY <2>1, <2>2, <2>3, <2>4 DEF Tells
<1>5. CASE Go(p, next)
  <2> DEFINE told == IF state'.game_over THEN <<GameOver(Winner(state'))>> ELSE << >>
  <2>1. /\ ~state.game_over /\ state' = Enter(state, p, next, item)
        /\ out' = EnterMessages(p, next, item) \o told
    BY <1>2, <1>5 DEF Go
  <2>2. PICK w \in View : /\ w = Process(v, Moved(p, next)) /\ Moved(p, next) \in Message
                          /\ Knows(v, w) /\ Mirrored(w, Walk(state, p, next))
    BY WalkShown
  <2>3. CASE item = "FLOOR"
    <3>1. state' = Walk(state, p, next) /\ EnterMessages(p, next, item) = <<Moved(p, next)>>
      BY <2>1, <2>3 DEF Enter, EnterMessages, Edible
    <3>2. ~state'.game_over
      <4>1. PICK mid : mid = Walk(state, p, next) /\ (mid.game_over <=> state.game_over)
        BY WalkFields
      <4> QED  BY <2>1, <3>1, <4>1
    <3>3. out' = <<Moved(p, next)>>
      <4>1. <<Moved(p, next)>> \in Seq(Message)
        BY <2>2
      <4>2. <<Moved(p, next)>> \o << >> = <<Moved(p, next)>>
        BY <4>1, ConcatEmptySeq
      <4> QED  BY <2>1, <3>1, <3>2, <4>2
    <3>4. Taken(v, out') = w
      BY <2>2, <3>3, TakenOne
    <3> QED  BY <2>1, <2>2, <3>1, <3>2, <3>4 DEF Tells, Knows
  <2>4. CASE item \in Edible
    <3>1. /\ state' = Eat(state, p, next, item) /\ state' \in GameState
          /\ EnterMessages(p, next, item) = <<Moved(p, next), Eaten(p, next, item)>>
      BY <2>1, <2>4, EatTyped DEF Enter, EnterMessages, Edible
    <3>2. PICK mid \in GameState : mid = Walk(state, p, next)
      BY DEF Walk, GameState
    <3>3. mid.map = state.map /\ mid.positions = [state.positions EXCEPT ![p] = next]
      BY <3>2, WalkFields
    <3>4. /\ state'.map = [state.map EXCEPT ![Position2Index(next)] = "FLOOR"]
          /\ state'.positions = [state.positions EXCEPT ![p] = next]
      <4>1. Ate(state, state', p, next)
        BY <2>1, <2>4, EnterFood
      <4> QED  BY <4>1 DEF Ate
    <3>5. PICK after \in GameState : after = state'
      BY <3>1
    <3>6. PICK u \in View : /\ u = Process(w, Eaten(p, next, item))
                            /\ Eaten(p, next, item) \in Message
                            /\ Knows(w, u) /\ Mirrored(u, after)
      BY <1>2, <2>2, <2>4, <3>2, <3>3, <3>4, <3>5, MealShown
    <3>7. PICK a \in Message, b \in Message : a = Moved(p, next) /\ b = Eaten(p, next, item)
      BY <2>2, <3>6
    <3>8. PICK s \in Seq(Message) : s = <<a, b>>
      <4>1. <<a, b>> \in Seq(Message)
        OBVIOUS
      <4> QED  BY <4>1
    <3>9. Taken(v, s) = u
      BY <2>2, <3>6, <3>7, <3>8, TakenTwo
    <3>10. out' = s \o told
      BY <2>1, <3>1, <3>7, <3>8
    <3>11. u.player = Me /\ u.status = "Running" /\ u.winner = 0
      BY <2>1, <2>2, <3>6 DEF Tells, Knows
    <3>12. CASE state'.game_over
      <4>1. PICK e \in Message : e = GameOver(Winner(after))
        BY <3>6, <3>11, EndShown
      <4>2. PICK x : /\ x = Process(u, e) /\ Mirrored(x, after)
                     /\ x.player = Me /\ x.status = "Over" /\ x.winner = Winner(after)
        BY <3>6, <3>11, <4>1, EndShown
      <4>3. out' = Append(s, e)
        <5>1. told = <<e>>
          BY <3>5, <3>12, <4>1
        <5>2. Append(s, e) = s \o <<e>>
          BY AppendIsConcat
        <5> QED  BY <3>10, <5>1, <5>2
      <4>4. Taken(v, out') = x
        BY <3>9, <4>2, <4>3, TakenNext
      <4> QED  BY <3>5, <3>12, <4>2, <4>4 DEF Tells
    <3>13. CASE ~state'.game_over
      <4>1. out' = s
        <5>1. told = << >>
          BY <3>13
        <5>2. s \o << >> = s
          BY ConcatEmptySeq
        <5> QED  BY <3>10, <5>1, <5>2
      <4> QED  BY <3>5, <3>6, <3>9, <3>11, <3>13, <4>1 DEF Tells
    <3> QED  BY <3>12, <3>13
  <2>5. CASE item \notin {"FLOOR"} \cup Edible
    <3>1. state' = state /\ EnterMessages(p, next, item) = << >>
      BY <2>1, <2>5, EnterElse DEF EnterMessages
    <3>2. out' = << >>
      BY <2>1, <3>1
    <3> QED  BY <3>1, <3>2, TakenNone
  <2> QED  BY <2>3, <2>4, <2>5
<1> QED  BY <1>1, <1>3, <1>4, <1>5, CommandIs

-----------------------------------------------------------------------------
(* What holds of a window in any game, whatever is left of the last one.   *)

\* Whom it plays, and the walls.
Placed(v, st) == v.player = Me /\ v.tiles = Walls(st)

\* It has no figure that the state does not have, and both players, wherever they are.
Fits(v, st) ==
  /\ \A id \in DOMAIN Where(v) : /\ id \in Ids(st)
                                 /\ id \in Cells => Where(v)[id] = Figure(st, id)
  /\ {PlayerId(1), PlayerId(2)} \subseteq DOMAIN Where(v)
  /\ Where(v)[PlayerId(1)].item = "PLAYER1" /\ Where(v)[PlayerId(2)].item = "PLAYER2"

LEMMA MirroredFits ==
  ASSUME NEW v \in View, NEW st \in GameState, Mirrored(v, st)
  PROVE  Fits(v, st)
<1>1. PICK f : f = Where(v) /\ f = Figures(st)
  BY DEF Mirrored
<1>2. DOMAIN f = Ids(st) /\ \A id \in Ids(st) : f[id] = Figure(st, id)
  BY <1>1 DEF Figures
<1>3. {PlayerId(1), PlayerId(2)} \subseteq Ids(st)
  BY DEF Ids
<1> QED  BY <1>1, <1>2, <1>3, FigureIs DEF Fits

LEMMA FitsNews ==
  ASSUME NEW v \in View, NEW st, Fits(v, st), NEW m \in News
  PROVE  LET w == Process(v, m)
         IN  /\ w \in View /\ Fits(w, st) /\ w.tiles = v.tiles /\ w.player = v.player
             /\ DOMAIN Where(w) \subseteq DOMAIN Where(v)
             /\ m.msgt = "EAT_FOOD" => m.food \notin DOMAIN Where(w)
<1>1. m \in Message
  BY NewsAre
<1>2. PICK w \in View : w = Process(v, m)
  BY <1>1, ProcessTyped
<1>3. PICK f, g : f = Where(v) /\ g = Where(w)
  OBVIOUS
<1>4. \A id \in DOMAIN f : f[id] \in Thing
  BY <1>3, MoveIs, ThingsAre DEF Where, View
<1>5. /\ \A id \in DOMAIN f : id \in Ids(st) /\ (id \in Cells => f[id] = Figure(st, id))
      /\ {PlayerId(1), PlayerId(2)} \subseteq DOMAIN f
      /\ f[PlayerId(1)].item = "PLAYER1" /\ f[PlayerId(2)].item = "PLAYER2"
  BY <1>3 DEF Fits
<1> DEFINE Kept == /\ \A id \in DOMAIN g :
                        id \in Ids(st) /\ (id \in Cells => g[id] = Figure(st, id))
                   /\ {PlayerId(1), PlayerId(2)} \subseteq DOMAIN g
                   /\ g[PlayerId(1)].item = "PLAYER1" /\ g[PlayerId(2)].item = "PLAYER2"
                   /\ DOMAIN g \subseteq DOMAIN f
                   /\ m.msgt = "EAT_FOOD" => m.food \notin DOMAIN g
<1>6. CASE m.msgt = "MOVEMENT"
  <2>1. Where(Process(v, m)) = [id \in DOMAIN Where(v) |->
                                  IF id = m.id THEN [Where(v)[id] EXCEPT !.pos = m.pos]
                                               ELSE Where(v)[id]]
    BY <1>1, <1>6, WhereMoved
  <2>2. g = [id \in DOMAIN f |-> IF id = m.id THEN [f[id] EXCEPT !.pos = m.pos] ELSE f[id]]
    BY <1>2, <1>3, <2>1, Zenon
  <2>3. m.id \notin Cells
    BY <1>6, NewsAre, PlayerIds
  <2>4. \A id \in DOMAIN f : g[id].item = f[id].item
    BY <1>4, <2>2 DEF Thing
  <2>5. Kept
    BY <1>5, <1>6, <2>2, <2>3, <2>4
  <2>6. w.tiles = v.tiles /\ w.player = v.player
    BY <1>1, <1>2, <1>6, ProcessMovement DEF View
  <2> HIDE DEF Kept
  <2>7. Fits(w, st)
    BY <1>3, <2>5 DEF Fits, Kept
  <2> QED  BY <1>2, <1>3, <1>6, <2>5, <2>6, <2>7 DEF Kept
<1>7. CASE m.msgt = "EAT_FOOD"
  <2>1. Where(Process(v, m)) = [id \in DOMAIN Where(v) \ {m.food} |-> Where(v)[id]]
    BY <1>1, <1>7, WhereEaten
  <2>2. g = [id \in DOMAIN f \ {m.food} |-> f[id]]
    BY <1>2, <1>3, <2>1, Zenon
  <2>3. PlayerId(1) # m.food /\ PlayerId(2) # m.food
    BY <1>7, NewsAre, PlayerIds
  <2>4. Kept
    BY <1>5, <2>2, <2>3
  <2>5. w.tiles = v.tiles /\ w.player = v.player
    BY <1>1, <1>2, <1>7, MealKeeps
  <2> HIDE DEF Kept
  <2>6. Fits(w, st)
    BY <1>3, <2>4 DEF Fits, Kept
  <2> QED  BY <1>2, <1>3, <2>4, <2>5, <2>6 DEF Kept
<1>8. CASE m.msgt = "GAME_OVER"
  <2>1. w = [v EXCEPT !.status = "Over", !.winner = m.winner]
    BY <1>1, <1>2, <1>8, ProcessOver
  <2>2. w.ents = v.ents /\ w.intents = v.intents /\ w.tiles = v.tiles /\ w.player = v.player
    BY <2>1 DEF View
  <2>3. g = f
    BY <1>3, <2>2, WhereKept
  <2> QED  BY <1>2, <1>3, <1>5, <1>8, <2>2, <2>3 DEF Fits
<1> QED  BY <1>6, <1>7, <1>8, NewsAre

LEMMA FitsTaken ==
  ASSUME NEW v \in View, NEW st, Fits(v, st), NEW s \in Seq(News)
  PROVE  Taken(v, s) \in View /\ Fits(Taken(v, s), st)
<1>1. Len(s) \in Nat /\ \A n \in 1 .. Len(s) : s[n] \in News
  BY LenProperties
<1>2. PICK h : Follows(h, v, s) /\ Taken(v, s) = h[Len(s)]
  BY <1>1, TakenSteps
<1> DEFINE S == {n \in Nat : n <= Len(s) => h[n] \in View /\ Fits(h[n], st)}
<1>3. S = Nat
  <2>1. 0 \in S
    BY <1>2 DEF Follows
  <2>2. ASSUME NEW n \in S PROVE n + 1 \in S
    <3>1. CASE n + 1 <= Len(s)
      <4>1. /\ h[n + 1] = Process(h[n], s[n + 1]) /\ h[n] \in View /\ Fits(h[n], st)
            /\ s[n + 1] \in News
        BY <1>1, <1>2, <3>1 DEF Follows
      <4>2. Process(h[n], s[n + 1]) \in View /\ Fits(Process(h[n], s[n + 1]), st)
        BY <4>1, FitsNews
      <4> QED  BY <4>1, <4>2
    <3> QED  BY <3>1
  <2> HIDE DEF S
  <2>3. S \in SUBSET Nat
    BY DEF S
  <2> QED  BY <2>1, <2>2, <2>3, NatSet
<1> QED  BY <1>1, <1>2, <1>3

LEMMA CommandFits ==
  ASSUME NEW p \in Player, NEW dir, state \in GameState, Rules!Command(p, dir),
         NEW v \in View, Fits(v, state)
  PROVE  Fits(Taken(v, out'), state') /\ Walls(state') = Walls(state)
<1>1. PICK next \in Position : next = Ahead(p, dir)
  BY NextOnMap DEF Ahead, GameState
<1>2. PICK item : item = state.map[Position2Index(next)]
  OBVIOUS
<1>3. PICK w \in View : w = Taken(v, out') /\ Fits(w, state)
  <2>1. PICK s \in Seq(News) : s = out'
    BY CommandTold
  <2> QED  BY <2>1, FitsTaken
<1>4. ASSUME state'.map = state.map PROVE Fits(w, state') /\ Walls(state') = Walls(state)
  <2>1. Ids(state') = Ids(state) /\ \A c \in Cells : Figure(state', c) = Figure(state, c)
    BY <1>4 DEF Ids, Figure
  <2> QED  BY <1>3, <1>4, <2>1 DEF Fits, Walls
<1>5. CASE Over
  BY <1>3, <1>4, <1>5 DEF Over
<1>6. CASE Bump(p, next)
  BY <1>3, <1>4, <1>6, CollideFields DEF Bump
<1>7. CASE Go(p, next) /\ item \notin Edible
  <2>1. state' = Enter(state, p, next, item)
    BY <1>2, <1>7 DEF Go
  <2>2. CASE item = "FLOOR"
    <3>1. state' = Walk(state, p, next)
      BY <1>7, <2>1, <2>2 DEF Enter
    <3> QED  BY <1>3, <1>4, <3>1, WalkFields
  <2>3. CASE item # "FLOOR"
    BY <1>3, <1>4, <1>7, <2>1, <2>3, EnterElse
  <2> QED  BY <2>2, <2>3
<1>8. CASE Go(p, next) /\ item \in Edible
  <2> DEFINE told == IF state'.game_over THEN <<GameOver(Winner(state'))>> ELSE << >>
  <2>1. /\ state' = Enter(state, p, next, item)
        /\ out' = <<Moved(p, next), Eaten(p, next, item)>> \o told
    BY <1>2, <1>8 DEF Go, EnterMessages, Edible
  <2>2. PICK c \in Cells : c = Position2Index(next)
    BY IndexInCells
  <2>3. state'.map = [state.map EXCEPT ![c] = "FLOOR"]
    <3>1. Ate(state, state', p, next)
      BY <1>8, <2>1, EnterFood
    <3> QED  BY <2>2, <3>1 DEF Ate
  <2>4. state.map \in [Cells -> Item] /\ state.map[c] \in Edible
    BY <1>2, <1>8, <2>2 DEF GameState
  <2>5. PICK a \in News : a = Moved(p, next)
    BY DEF Moved, News, Player
  <2>6. PICK b \in News : b = Eaten(p, next, item) /\ b.msgt = "EAT_FOOD" /\ b.food = c
    <3>1. PlayerId(p) \in Int /\ c \in Int
      BY PlayerIds DEF Player, Cells
    <3>2. Id(next.x, next.y, item) = c
      BY <1>8, <2>2, <3>1 DEF Id, BaseId, Edible, Position2Index
    <3>3. Eaten(p, next, item) = [msgt |-> "EAT_FOOD", eater |-> PlayerId(p), food |-> c]
      BY <3>2 DEF Eaten
    <3>4. Eaten(p, next, item) \in News
      BY <3>1, <3>3 DEF News
    <3> QED  BY <3>3, <3>4
  <2>7. PICK u \in View : u = Taken(v, <<a, b>>) /\ Fits(u, state) /\ c \notin DOMAIN Where(u)
    <3>1. PICK x \in View : x = Process(v, a) /\ Fits(x, state)
      BY FitsNews
    <3>2. PICK u \in View : u = Process(x, b) /\ Fits(u, state) /\ c \notin DOMAIN Where(u)
      BY <2>6, <3>1, FitsNews
    <3>3. Taken(v, <<a, b>>) = Process(Process(v, a), b)
      BY NewsAre, TakenTwo
    <3> QED  BY <3>1, <3>2, <3>3
  <2>8. c \notin DOMAIN Where(w)
    <3>1. PICK s \in Seq(Message) : s = <<a, b>>
      <4>1. a \in Message /\ b \in Message
        BY NewsAre
      <4>2. <<a, b>> \in Seq(Message)
        BY <4>1
      <4> QED  BY <4>2
    <3>2. CASE state'.game_over
      <4>1. PICK e \in News : e = GameOver(Winner(state'))
        BY DEF News, GameOver, Winner, Player
      <4>2. e \in Message
        BY NewsAre
      <4>3. out' = Append(s, e)
        <5>1. told = <<e>>
          BY <3>2, <4>1
        <5>2. Append(s, e) = s \o <<e>>
          BY <4>2, AppendIsConcat
        <5> QED  BY <2>1, <2>5, <2>6, <3>1, <5>1, <5>2
      <4>4. w = Process(u, e)
        BY <1>3, <2>7, <3>1, <4>2, <4>3, TakenNext
      <4>5. DOMAIN Where(Process(u, e)) \subseteq DOMAIN Where(u)
        BY <2>7, FitsNews
      <4> QED  BY <2>7, <4>4, <4>5
    <3>3. CASE ~state'.game_over
      <4>1. out' = s
        <5>1. told = << >>
          BY <3>3
        <5>2. s \o << >> = s
          BY ConcatEmptySeq
        <5> QED  BY <2>1, <2>5, <2>6, <3>1, <5>1, <5>2
      <4> QED  BY <1>3, <2>7, <3>1, <4>1
    <3> QED  BY <3>2, <3>3
  <2>9. Ids(state') = Ids(state) \ {c}
    BY <2>3, <2>4, EatenCell, PlayerIds DEF Ids
  <2>10. \A d \in Cells : d # c => Figure(state', d) = Figure(state, d)
    BY <2>3, <2>4 DEF Figure
  <2>11. Fits(w, state')
    BY <1>3, <2>8, <2>9, <2>10 DEF Fits
  <2>12. Walls(state') = Walls(state)
    BY <2>3, <2>4 DEF Walls, Edible
  <2> QED  BY <1>3, <2>11, <2>12
<1> QED  BY <1>1, <1>3, <1>5, <1>6, <1>7, <1>8, CommandIs

-----------------------------------------------------------------------------
(* The end of a game is the last thing that is written in it.              *)

Ends(s, st) == \A i \in 1 .. Len(s) : s[i].msgt = "GAME_OVER" =>
                 st.game_over /\ \A j \in i .. Len(s) : s[j] = GameOver(Winner(st))

\* Of what a command writes, only the last message tells the end.
LEMMA CommandEnds ==
  ASSUME NEW p \in Player, NEW dir, state \in GameState, Rules!Command(p, dir),
         NEW s \in Seq(News), Ends(s, state)
  PROVE  Ends(s \o out', state')
<1>1. PICK next \in Position : next = Ahead(p, dir)
  BY NextOnMap DEF Ahead, GameState
<1>2. PICK t \in Seq(News) : t = out'
  BY CommandTold
<1>3. PICK u : u = s \o t
  OBVIOUS
<1>4. /\ Len(s) \in Nat /\ Len(t) \in Nat /\ Len(u) = Len(s) + Len(t)
      /\ \A i \in 1 .. Len(u) : u[i] = IF i <= Len(s) THEN s[i] ELSE t[i - Len(s)]
  BY <1>3, ConcatProperties, LenProperties
<1>5. CASE Over
  <2>1. Len(t) = 1 /\ t[1] = GameOver(Winner(state)) /\ state' = state
    BY <1>2, <1>5 DEF Over
  <2>2. \A i \in 1 .. Len(u) : u[i] = IF i = Len(s) + 1 THEN GameOver(Winner(state)) ELSE s[i]
    BY <1>4, <2>1
  <2>3. Ends(u, state)
    BY <1>4, <1>5, <2>1, <2>2 DEF Ends, Over
  <2> QED  BY <1>2, <1>3, <2>1, <2>3
<1>6. ASSUME ~state.game_over,
             \A i \in 1 .. Len(t) : t[i].msgt = "GAME_OVER" =>
               i = Len(t) /\ t[i] = GameOver(Winner(state')) /\ state'.game_over
      PROVE  Ends(s \o out', state')
  <2>1. \A i \in 1 .. Len(s) : s[i].msgt # "GAME_OVER"
    BY <1>6 DEF Ends
  <2>2. ASSUME NEW i \in 1 .. Len(u), u[i].msgt = "GAME_OVER"
        PROVE  i = Len(u) /\ u[i] = GameOver(Winner(state')) /\ state'.game_over
    <3>1. ~(i <= Len(s))
      BY <1>4, <2>1, <2>2
    <3>2. i - Len(s) \in 1 .. Len(t) /\ u[i] = t[i - Len(s)]
      BY <1>4, <3>1
    <3> QED  BY <1>4, <1>6, <2>2, <3>2
  <2>3. Ends(u, state')
    BY <1>4, <2>2 DEF Ends
  <2> QED  BY <1>2, <1>3, <2>3
<1>7. CASE Bump(p, next)
  <2>1. Len(t) = 1 /\ t[1] = GameOver(Winner(state)) /\ ~state.game_over
    BY <1>2, <1>7 DEF Bump
  <2>2. state'.game_over /\ state'.scores = state.scores
    BY <1>7, CollideFields DEF Bump
  <2>3. Winner(state') = Winner(state)
    BY <2>2 DEF Winner
  <2> QED  BY <1>6, <2>1, <2>2, <2>3
<1>8. CASE Go(p, next)
  <2>1. PICK item, told : /\ item = state.map[Position2Index(next)]
                          /\ told = IF state'.game_over THEN <<GameOver(Winner(state'))>> ELSE << >>
    OBVIOUS
  <2>2. t = EnterMessages(p, next, item) \o told /\ ~state.game_over
    BY <1>2, <1>8, <2>1 DEF Go
  <2>3. PICK a \in Seq(News) : /\ a = EnterMessages(p, next, item)
                               /\ \A i \in 1 .. Len(a) : a[i].msgt # "GAME_OVER"
    <3>1. PICK x \in News : x = Moved(p, next) /\ x.msgt # "GAME_OVER"
      <4>1. Moved(p, next) \in News
        BY DEF Moved, News, Player
      <4> QED  BY <4>1 DEF Moved
    <3>2. ASSUME item \in Edible
          PROVE  \E y \in News : y = Eaten(p, next, item) /\ y.msgt # "GAME_OVER"
      <4>1. PlayerId(p) \in Int
        BY PlayerIds DEF Player
      <4>2. Position2Index(next) \in Cells
        BY IndexInCells
      <4>3. Id(next.x, next.y, item) = Position2Index(next)
        BY <3>2, <4>2 DEF Id, BaseId, Edible, Position2Index, Cells
      <4>4. Eaten(p, next, item) \in News
        BY <4>1, <4>2, <4>3 DEF Eaten, News
      <4> QED  BY <4>4 DEF Eaten
    <3>3. CASE item \in Edible
      <4>1. PICK y \in News : y = Eaten(p, next, item) /\ y.msgt # "GAME_OVER"
        BY <3>2, <3>3
      <4>2. EnterMessages(p, next, item) = <<x, y>>
        BY <3>1, <3>3, <4>1 DEF EnterMessages, Edible
      <4>3. <<x, y>> \in Seq(News)
        OBVIOUS
      <4>4. PICK a \in Seq(News) : a = <<x, y>>
        BY <4>3
      <4>5. Len(a) = 2 /\ a[1] = x /\ a[2] = y
        BY <4>4
      <4>6. \A i \in 1 .. Len(a) : a[i].msgt # "GAME_OVER"
        BY <3>1, <4>1, <4>5
      <4> QED  BY <4>2, <4>4, <4>6
    <3>4. CASE item = "FLOOR"
      <4>1. EnterMessages(p, next, item) = <<x>>
        BY <3>1, <3>4 DEF EnterMessages, Edible
      <4>2. <<x>> \in Seq(News)
        OBVIOUS
      <4>3. PICK a \in Seq(News) : a = <<x>>
        BY <4>2
      <4>4. Len(a) = 1 /\ a[1] = x
        BY <4>3
      <4>5. \A i \in 1 .. Len(a) : a[i].msgt # "GAME_OVER"
        BY <3>1, <4>4
      <4> QED  BY <4>1, <4>3, <4>5
    <3>5. CASE item \notin Edible /\ item # "FLOOR"
      <4>1. EnterMessages(p, next, item) = << >>
        BY <3>5 DEF EnterMessages
      <4>2. << >> \in Seq(News)
        OBVIOUS
      <4>3. PICK a \in Seq(News) : a = << >>
        BY <4>2
      <4>4. Len(a) = 0
        BY <4>3
      <4>5. \A i \in 1 .. Len(a) : FALSE
        BY <4>4
      <4> QED  BY <4>1, <4>3, <4>5
    <3> QED  BY <3>3, <3>4, <3>5
  <2>4. CASE ~state'.game_over
    <3>1. t = a
      BY <2>1, <2>2, <2>3, <2>4, ConcatEmptySeq
    <3> QED  BY <1>6, <2>2, <2>3, <3>1
  <2>5. CASE state'.game_over
    <3>1. PICK e \in News : e = GameOver(Winner(state'))
      <4>1. Winner(state') \in Player
        BY DEF Winner, Player
      <4>2. GameOver(Winner(state')) \in News
        BY <4>1 DEF News, GameOver
      <4> QED  BY <4>2
    <3>2. t = Append(a, e)
      BY <2>1, <2>2, <2>3, <2>5, <3>1, AppendIsConcat
    <3>3. /\ Len(t) = Len(a) + 1 /\ Len(a) \in Nat /\ t[Len(a) + 1] = e
          /\ \A i \in 1 .. Len(a) : t[i] = a[i]
      BY <3>2, AppendProperties
    <3> QED  BY <1>6, <2>2, <2>3, <2>5, <3>1, <3>3
  <2> QED  BY <2>4, <2>5
<1> QED  BY <1>1, <1>5, <1>7, <1>8, CommandIs

\* A window that knows how the game has ended learns nothing from hearing it again.
LEMMA TakenEnds ==
  ASSUME NEW v \in View, v.status = "Over", v.winner \in Player, NEW s \in Seq(Message),
         \A i \in 1 .. Len(s) : s[i] = GameOver(v.winner)
  PROVE  Taken(v, s) = v
<1>1. Len(s) \in Nat /\ \A n \in 1 .. Len(s) : s[n] \in Message
  BY LenProperties
<1>2. PICK h : Follows(h, v, s) /\ Taken(v, s) = h[Len(s)]
  BY <1>1, TakenSteps
<1>3. Process(v, GameOver(v.winner)) = v
  <2>1. PICK m \in Message : m = GameOver(v.winner) /\ m.msgt = "GAME_OVER" /\ m.winner = v.winner
    BY DEF GameOver, Message
  <2>2. Process(v, m) = [v EXCEPT !.status = "Over", !.winner = v.winner]
    BY <2>1, ProcessOver
  <2>3. [v EXCEPT !.status = "Over", !.winner = v.winner] = v
    BY DEF View
  <2> QED  BY <2>1, <2>2, <2>3
<1> DEFINE S == {n \in Nat : n <= Len(s) => h[n] = v}
<1>4. S = Nat
  <2>1. 0 \in S
    BY <1>2 DEF Follows
  <2>2. ASSUME NEW n \in S PROVE n + 1 \in S
    <3>1. CASE n + 1 <= Len(s)
      <4>1. h[n + 1] = Process(h[n], s[n + 1]) /\ h[n] = v /\ s[n + 1] = GameOver(v.winner)
        BY <1>1, <1>2, <3>1 DEF Follows
      <4> QED  BY <1>3, <4>1
    <3> QED  BY <3>1
  <2> HIDE DEF S
  <2>3. S \in SUBSET Nat
    BY DEF S
  <2> QED  BY <2>1, <2>2, <2>3, NatSet
<1> QED  BY <1>1, <1>2, <1>4

\* News never touch the walls or whom the window plays, and commands never the walls.
LEMMA NewsKeeps ==
  ASSUME NEW v \in View, NEW m \in News
  PROVE  LET w == Process(v, m)
         IN  w \in View /\ w.tiles = v.tiles /\ w.player = v.player
<1>1. m \in Message
  BY NewsAre
<1>2. CASE m.msgt = "MOVEMENT"
  BY <1>1, <1>2, ProcessMovement DEF View
<1>3. CASE m.msgt = "EAT_FOOD"
  BY <1>1, <1>3, MealKeeps, ProcessTyped
<1>4. CASE m.msgt = "GAME_OVER"
  <2>1. PICK w \in View : /\ w = Process(v, m)
                          /\ w = [v EXCEPT !.status = "Over", !.winner = m.winner]
    BY <1>1, <1>4, ProcessOver
  <2>2. w.tiles = v.tiles /\ w.player = v.player
    BY <2>1 DEF View
  <2> QED  BY <2>1, <2>2
<1> QED  BY <1>2, <1>3, <1>4, NewsAre

LEMMA CommandWalls ==
  ASSUME NEW p \in Player, NEW dir, state \in GameState, Rules!Command(p, dir)
  PROVE  Walls(state') = Walls(state)
<1>1. PICK next \in Position : next = Ahead(p, dir)
  BY NextOnMap DEF Ahead, GameState
<1>2. PICK item : item = state.map[Position2Index(next)]
  OBVIOUS
<1>3. state'.map = state.map => Walls(state') = Walls(state)
  BY DEF Walls
<1>4. CASE Over
  BY <1>3, <1>4 DEF Over
<1>5. CASE Bump(p, next)
  BY <1>3, <1>5, CollideFields DEF Bump
<1>6. CASE Go(p, next)
  <2>1. state' = Enter(state, p, next, item)
    BY <1>2, <1>6 DEF Go
  <2>2. CASE item = "FLOOR"
    <3>1. Enter(state, p, next, item) = Walk(state, p, next)
      BY <2>2 DEF Enter, Edible
    <3>2. Walk(state, p, next).map = state.map
      BY WalkFields
    <3> QED  BY <1>3, <2>1, <3>1, <3>2
  <2>3. CASE item \in Edible
    <3>1. PICK c \in Cells : c = Position2Index(next)
      BY IndexInCells
    <3>2. Ate(state, state', p, next)
      BY <2>1, <2>3, EnterFood
    <3>3. state'.map = [state.map EXCEPT ![c] = "FLOOR"]
      BY <3>1, <3>2 DEF Ate
    <3>4. state.map \in [Cells -> Item] /\ state.map[c] \in Edible
      BY <1>2, <2>3, <3>1 DEF GameState
    <3> QED  BY <3>3, <3>4 DEF Walls, Edible
  <2>4. CASE item \notin {"FLOOR"} \cup Edible
    BY <1>3, <2>1, <2>4, EnterElse
  <2> QED  BY <2>2, <2>3, <2>4
<1> QED  BY <1>1, <1>4, <1>5, <1>6, CommandIs

-----------------------------------------------------------------------------
(* The window mirrors the game, up to what is still on its way.            *)

\* What the window is going to know of what is written for it, the registration that the
\* server is about to send included; and of what is in the pipe.
Due == IF conn = "loaded" THEN <<Registered(Me)>> ELSE << >>

Now == Taken(view, (channel \o stream) \o Due)

Coming == Taken(Now, pipe)

Faithful(v) == Mirrored(v, state) /\ Tells(v, state)

\* In every game the walls; while the broadcaster runs, no figure that is gone; and in a
\* game that began with an empty pipe, all that there is to know.
MirrorOpen ==
  /\ Placed(Now, state)
  /\ bcast \in {"none", "runs"} => Fits(Coming, state)
  /\ clean /\ bcast \in {"none", "runs"} => Faithful(Coming) /\ Ends(pipe, state)
  /\ clean /\ bcast = "ended" => state.game_over /\ Faithful(Now)

Mirror == conn \in {"loaded", "playing"} /\ gui = "open" => MirrorOpen

LEMMA RegisteredIs ==
  /\ Registered(Me) \in Message /\ Registered(Me).msgt = "REGISTRATION"
BY DEF Message, Registered

LEMMA DueIs == Due \in Seq(Message) /\ Spawnless(Due)
<1>1. PICK e \in Message : e = Registered(Me) /\ e.msgt = "REGISTRATION"
  BY RegisteredIs
<1>2. <<e>> \in Seq(Message) /\ Spawnless(<<e>>)
  <2>1. << >> \in Seq(Message)
    BY EmptySeq
  <2> QED  BY <1>1, <2>1, OneMore
<1>3. << >> \in Seq(Message) /\ Spawnless(<< >>)
  BY EmptySeq DEF Spawnless
<1> QED  BY <1>1, <1>2, <1>3 DEF Due

LEMMA NowIs ==
  ASSUME Typed
  PROVE  /\ Now = Taken(Fetched, stream \o Due)
         /\ Now \in View /\ Coming \in View
         /\ pipe \in Seq(Message) /\ Spawnless(pipe)
<1>1. PICK c \in Seq(Message), s \in Seq(Message), d \in Seq(Message) :
        c = channel /\ s = stream /\ d = Due
  BY DueIs DEF Typed
<1>2. PICK t \in Seq(Message) : t = s \o d
  BY ConcatProperties
<1>3. (c \o s) \o d = c \o t
  BY <1>2, ConcatAssociative
<1>4. Taken(view, c \o t) = Taken(Taken(view, c), t)
  BY TakenOn
<1>5. Now = Taken(Fetched, t)
  BY <1>1, <1>3, <1>4 DEF Now, Fetched
<1>6. Now \in View
  BY <1>5, FetchedTyped, TakenTyped
<1>7. pipe \in Seq(Message) /\ Spawnless(pipe)
  BY NewsSeq DEF Typed, Spawnless
<1>8. Coming \in View
  BY <1>6, <1>7, TakenTyped DEF Coming
<1> QED  BY <1>1, <1>2, <1>5, <1>6, <1>7, <1>8

\* A message more, once the registration is written.
LEMMA NowOn ==
  ASSUME Typed, conn = "playing", NEW e \in Message, stream' = Append(stream, e),
         UNCHANGED <<conn, channel, view>>
  PROVE  Now' = Process(Now, e)
<1>1. PICK c \in Seq(Message), s \in Seq(Message) : c = channel /\ s = stream
  BY DEF Typed
<1>2. PICK u \in Seq(Message) : u = c \o s
  BY ConcatProperties
<1>3. c \o Append(s, e) = Append(u, e)
  <2>1. PICK one \in Seq(Message) : one = <<e>> /\ Append(s, e) = s \o one
    BY OneMore
  <2>2. Append(u, e) = u \o one
    BY <2>1, OneMore
  <2>3. c \in Seq(Message) /\ s \in Seq(Message) /\ one \in Seq(Message)
    BY <1>1, <2>1
  <2>4. (c \o s) \o one = c \o (s \o one)
    BY <2>3, ConcatAssociative
  <2> QED  BY <1>2, <2>1, <2>2, <2>4
<1>4. PICK w \in Seq(Message) : w = Append(u, e)
  BY AppendProperties
<1>5. u \o << >> = u /\ w \o << >> = w
  BY ConcatEmptySeq
<1>6. Now = Taken(view, u)
  BY <1>1, <1>2, <1>5, ClientAssumption DEF Now, Due
<1>7. Now' = Taken(view, w)
  <2>1. (channel' \o stream') = w /\ Due' = << >> /\ view' = view
    BY <1>1, <1>3, <1>4 DEF Due
  <2> QED  BY <1>5, <2>1 DEF Now
<1> QED  BY <1>4, <1>6, <1>7, TakenNext

\* The broadcaster moves a message from the pipe to the streams.
LEMMA ComingDelivered ==
  ASSUME Typed, conn = "playing", Deliver
  PROVE  /\ Head(pipe) \in News /\ Tail(pipe) \in Seq(News)
         /\ Now' = Process(Now, Head(pipe)) /\ Coming' = Coming
<1>1. PICK q \in Seq(News) : q = pipe /\ q # << >>
  BY DEF Typed, Deliver
<1>2. PICK e \in News, r \in Seq(News) : e = Head(q) /\ r = Tail(q)
  BY <1>1, HeadTailProperties
<1>3. e \in Message /\ r \in Seq(Message) /\ q \in Seq(Message)
  BY NewsAre, NewsSeq
<1>4. Now' = Process(Now, e)
  BY <1>1, <1>2, <1>3, NowOn DEF Deliver, window
<1>5. PICK one \in Seq(Message) : one = <<e>>
  BY <1>3, OneMore
<1>6. q = one \o r
  <2>1. Len(q) \in Nat \ {0}
    BY <1>1, EmptySeq
  <2>2. SubSeq(q, 1, Len(q)) = <<q[1]>> \o SubSeq(q, 1 + 1, Len(q))
    BY <2>1, SubSeqRecursiveFirst
  <2>3. Head(q) = q[1] /\ Tail(q) = SubSeq(q, 2, Len(q)) /\ SubSeq(q, 1, Len(q)) = q
    BY <1>1, TailIsSubSeq, SubSeqFull
  <2> QED  BY <1>2, <1>5, <2>2, <2>3
<1>7. Coming = Taken(Process(Now, e), r)
  <2>1. Taken(Now, one \o r) = Taken(Taken(Now, one), r)
    BY <1>3, TakenOn
  <2>2. Taken(Now, one) = Process(Now, e)
    BY <1>5, TakenOne
  <2> QED  BY <1>1, <1>6, <2>1, <2>2 DEF Coming
<1>8. pipe' = r
  BY <1>1, <1>2 DEF Deliver
<1>9. Coming' = Taken(Process(Now, e), r)
  BY <1>4, <1>8 DEF Coming
<1> QED  BY <1>1, <1>2, <1>4, <1>7, <1>9

\* What a command writes is the last that the window is going to hear of.
LEMMA ComingOn ==
  ASSUME Typed, NEW t \in Seq(News), pipe' = pipe \o t,
         UNCHANGED <<conn, channel, stream, view>>
  PROVE  Now' = Now /\ Coming' = Taken(Coming, t)
<1>1. PICK q \in Seq(Message), s \in Seq(Message) : q = pipe /\ s = t
  BY NewsSeq, NowIs
<1>2. PICK n : n = Now
  OBVIOUS
<1>3. Now' = n
  BY <1>2 DEF Now, Due
<1>4. Coming' = Taken(n, q \o s)
  BY <1>1, <1>3 DEF Coming
<1>5. Taken(n, q \o s) = Taken(Taken(n, q), s)
  BY TakenOn
<1> QED  BY <1>1, <1>2, <1>3, <1>4, <1>5 DEF Coming

LEMMA MirrorInit == Init => Mirror
BY DEF Init, Mirror

\* Reading a message moves it, and loses none.
LEMMA Received == ASSUME Typed, Receive PROVE channel' \o stream' = channel \o stream
<1>1. /\ stream # << >> /\ channel' = Append(channel, Head(stream)) /\ stream' = Tail(stream)
  BY DEF Receive
<1>2. PICK c \in Seq(Message), s \in Seq(Message) : c = channel /\ s = stream
  BY DEF Typed
<1>3. PICK e \in Message, r \in Seq(Message) : e = Head(s) /\ r = Tail(s)
  BY <1>1, <1>2, HeadTailProperties
<1>4. PICK one \in Seq(Message) : one = <<e>> /\ Append(c, e) = c \o one
  <2>1. <<e>> \in Seq(Message) /\ Append(c, e) = c \o <<e>>
    BY AppendIsConcat
  <2> QED  BY <2>1
<1>5. s = one \o r
  <2>1. Len(s) \in Nat \ {0}
    BY <1>1, <1>2, EmptySeq
  <2>2. SubSeq(s, 1, Len(s)) = <<s[1]>> \o SubSeq(s, 1 + 1, Len(s))
    BY <2>1, SubSeqRecursiveFirst
  <2>3. Head(s) = s[1] /\ Tail(s) = SubSeq(s, 2, Len(s)) /\ SubSeq(s, 1, Len(s)) = s
    BY <1>1, <1>2, TailIsSubSeq, SubSeqFull
  <2> QED  BY <1>3, <1>4, <2>2, <2>3
<1>6. (c \o one) \o r = c \o (one \o r)
  BY ConcatAssociative
<1> QED  BY <1>1, <1>2, <1>3, <1>4, <1>5, <1>6

\* A tick moves what is going to be shown closer, and does not change it.
LEMMA ComingTicked ==
  ASSUME Typed, Staged, Tick, gui' = "open"
  PROVE  Like(Now, Now') /\ Like(Coming, Coming')
<1>1. /\ channel' = << >> /\ stream' = stream /\ stream \in Seq(Message) /\ gui' # "closed"
      /\ UNCHANGED <<conn, pipe>>
  BY DEF Tick, Typed, server
<1>2. PICK f \in View, s \in Seq(Message), d \in Seq(Message) :
        f = Fetched /\ s = stream /\ d = Due /\ Spawnless(d)
  BY FetchedTyped, DueIs DEF Typed
<1>3. PICK t \in Seq(Message) : t = s \o d
  BY ConcatProperties
<1>4. PICK n \in View, q \in Seq(Message) :
        n = Now /\ q = pipe /\ Spawnless(q) /\ n = Taken(f, t) /\ Coming = Taken(n, q)
  BY <1>2, <1>3, NowIs DEF Coming
<1>5. PICK w : w = view'
  OBVIOUS
<1>6. PICK m : m = Now' /\ m = Taken(w, t) /\ Coming' = Taken(m, q)
  <2>1. << >> \o s = s
    BY ConcatEmptySeq
  <2>2. Due' = d
    BY <1>1, <1>2 DEF Due
  <2>3. Now' = Taken(w, t)
    BY <1>1, <1>2, <1>3, <1>5, <2>1, <2>2 DEF Now
  <2> QED  BY <1>1, <1>4, <2>3 DEF Coming
<1>7. CASE w = f
  BY <1>4, <1>6, <1>7 DEF Like
<1>8. ASSUME f.status # "NotStarted", w \in View, Like(f, w)
      PROVE  Like(Now, Now') /\ Like(Coming, Coming')
  <2>1. Spawnless(s)
    BY <1>2, <1>8, FetchedLate
  <2>2. Spawnless(t)
    BY <1>2, <1>3, <2>1, StagedOn
  <2>3. Like(n, m)
    BY <1>4, <1>6, <1>8, <2>2, LikeTaken
  <2>4. m \in View
    BY <1>6, <1>8, TakenTyped
  <2>5. Like(Taken(n, q), Taken(m, q))
    BY <1>4, <2>3, <2>4, LikeTaken
  <2> QED  BY <1>4, <1>6, <2>3, <2>5
<1>9. CASE f.status = "Running" /\ w = Move(f)
  <2>1. w \in View /\ Like(f, w)
    BY <1>9, MoveIs, LikeMoved
  <2> QED  BY <1>8, <1>9, <2>1
<1>10. CASE f.status = "Over" /\ w = [f EXCEPT !.status = "NotStarted"]
  <2>1. w \in View /\ Like(f, w)
    BY <1>10, LikeDismissed
  <2> QED  BY <1>8, <1>10, <2>1
<1>11. \/ w = f
       \/ f.status = "Running" /\ w = Move(f)
       \/ f.status = "Over" /\ w = [f EXCEPT !.status = "NotStarted"]
  BY <1>1, <1>2, <1>5 DEF Tick, TickIdle, TickRunning, TickOver, Exit
<1> QED  BY <1>7, <1>9, <1>10, <1>11

LEMMA LikeKeeps ==
  ASSUME NEW u, NEW w, Like(u, w)
  PROVE  /\ Placed(u, state) => Placed(w, state)
         /\ Fits(u, state) => Fits(w, state)
         /\ Faithful(u) => Faithful(w)
BY DEF Like, Placed, Fits, Faithful, Mirrored, Tells

LEMMA MirrorCommand ==
  ASSUME Typed, Mirror, NEW p \in Player, NEW dir, Command(p, dir),
         UNCHANGED <<conn, bcast, clean, gui, channel, stream, view>>
  PROVE  Mirror'
<1> SUFFICES ASSUME conn \in {"loaded", "playing"}, gui = "open" PROVE MirrorOpen'
  BY DEF Mirror
<1>1. MirrorOpen /\ Rules!Command(p, dir) /\ pipe' = pipe \o out' /\ state \in GameState
  BY DEF Mirror, Command, Typed
<1>2. PICK t \in Seq(News) : t = out'
  BY <1>1, CommandTold
<1>3. PICK v \in View : v = Coming
  BY NowIs
<1>4. Now' = Now /\ Coming' = Taken(v, out')
  BY <1>1, <1>2, <1>3, ComingOn
<1>5. Placed(Now, state')
  BY <1>1, CommandWalls DEF MirrorOpen, Placed
<1>6. ASSUME bcast \in {"none", "runs"} PROVE Fits(Taken(v, out'), state')
  BY <1>1, <1>3, <1>6, CommandFits DEF MirrorOpen
<1>7. ASSUME clean, bcast \in {"none", "runs"}
      PROVE  /\ Mirrored(Taken(v, out'), state') /\ Tells(Taken(v, out'), state')
             /\ Ends(pipe \o out', state')
  <2>1. Mirrored(v, state) /\ Tells(v, state) /\ Ends(pipe, state) /\ pipe \in Seq(News)
    BY <1>1, <1>3, <1>7 DEF MirrorOpen, Faithful, Typed
  <2> QED  BY <1>1, <2>1, CommandShown, CommandEnds
<1>8. ASSUME clean, bcast = "ended"
      PROVE  state'.game_over /\ Mirrored(Now, state') /\ Tells(Now, state')
  <2>1. state.game_over /\ Mirrored(Now, state) /\ Tells(Now, state)
    BY <1>1, <1>8 DEF MirrorOpen, Faithful
  <2>2. state' = state
    BY <1>1, <2>1, CommandIs DEF Over, Bump, Go
  <2> QED  BY <2>1, <2>2
<1>9. PICK n, c, q : n = Now' /\ c = Coming' /\ q = pipe'
  OBVIOUS
<1>10. /\ Placed(n, state')
       /\ bcast \in {"none", "runs"} => Fits(c, state')
       /\ clean /\ bcast \in {"none", "runs"} =>
            Mirrored(c, state') /\ Tells(c, state') /\ Ends(q, state')
       /\ clean /\ bcast = "ended" =>
            state'.game_over /\ Mirrored(n, state') /\ Tells(n, state')
  BY <1>1, <1>4, <1>5, <1>6, <1>7, <1>8, <1>9
<1> QED  BY <1>9, <1>10 DEF MirrorOpen, Faithful

LEMMA MirrorPrepare == ASSUME Typed, Early, Prepare PROVE Mirror'
<1>1. /\ level \in [Cells -> Glyph] /\ IsLevel(level) /\ state' = Load(level)
      /\ state' \in GameState /\ state'.game_over = FALSE /\ out' = << >>
  BY LoadIs, ClientAssumption DEF Typed, Prepare
<1>2. PICK s \in Seq(Message) : s = Scene(level) /\ << >> \o s = s /\ s \o << >> = s
  <2>1. Scene(level) \in Seq(Message)
    BY <1>1, SceneTold
  <2> QED  BY <2>1, ConcatEmptySeq
<1>3. /\ view' = Blank /\ channel' = << >> /\ conn' = "loaded" /\ stream' = s
      /\ UNCHANGED <<pipe, bcast, clean>> /\ bcast = "none"
      /\ clean => pipe = << >>
  BY <1>1, <1>2 DEF Prepare, Early, Typed, window, turn
<1>4. PICK e \in Message : e = Registered(Me) /\ e.msgt = "REGISTRATION"
  BY RegisteredIs
<1>5. PICK b \in View : b = Blank
  BY BlankTyped
<1>6. PICK v \in View : v = Taken(b, s) /\ Mirrored(v, state') /\ v.winner = 0
  <2>1. Mirrored(Taken(Blank, s), Load(level))
    BY <1>1, <1>2, SceneMirrored
  <2>2. \A i \in 1 .. Len(s) : s[i].msgt = "SPAWN"
    BY <1>1, <1>2, SceneTold
  <2>3. Taken(b, s).winner = b.winner
    BY <2>2, TakenSpawns
  <2>4. b.winner = 0
    BY <1>5 DEF Blank
  <2> QED  BY <1>1, <1>5, <2>1, <2>3, <2>4, TakenTyped
<1>7. PICK w \in View : w = Process(v, e) /\ w = [v EXCEPT !.player = Me, !.status = "Running"]
  BY <1>4, ProcessRegistered
<1>8. /\ w.tiles = v.tiles /\ w.ents = v.ents /\ w.intents = v.intents /\ w.player = Me
      /\ w.status = "Running" /\ w.winner = 0
  BY <1>6, <1>7 DEF View
<1>9. Mirrored(w, state') /\ Tells(w, state')
  BY <1>1, <1>6, <1>8, WhereKept DEF Mirrored, Tells
<1>10. Now' = w
  <2>1. PICK one \in Seq(Message) : one = <<e>>
    BY OneMore
  <2>2. Due' = one
    BY <1>3, <1>4, <2>1 DEF Due
  <2>3. Now' = Taken(b, s \o one)
    BY <1>2, <1>3, <1>5, <2>2 DEF Now
  <2>4. Taken(b, s \o one) = Taken(Taken(b, s), one)
    BY TakenOn
  <2> QED  BY <1>6, <1>7, <2>1, <2>3, <2>4, TakenOne
<1>11. PICK q \in Seq(News) : q = pipe /\ Coming' = Taken(w, q)
  <2>1. Coming' = Taken(Now', pipe') /\ pipe' = pipe
    BY <1>3 DEF Coming
  <2>2. pipe \in Seq(News)
    BY DEF Typed
  <2> QED  BY <1>10, <2>1, <2>2
<1>12. Fits(Taken(w, q), state')
  BY <1>1, <1>9, MirroredFits, FitsTaken
<1>13. ASSUME clean
       PROVE  Mirrored(Taken(w, q), state') /\ Tells(Taken(w, q), state') /\ Ends(q, state')
  <2>1. q = << >>
    BY <1>3, <1>11, <1>13
  <2>2. Taken(w, << >>) = w
    BY TakenNone
  <2>3. Ends(<< >>, state')
    BY <1>1 DEF Ends
  <2>4. Taken(w, q) = w /\ Ends(q, state')
    BY <2>1, <2>2, <2>3
  <2> QED  BY <1>9, <2>4
<1>14. Placed(w, state')
  BY <1>8, <1>9 DEF Placed, Mirrored
<1>15. PICK n, c, k : n = Now' /\ c = Coming' /\ k = pipe'
  OBVIOUS
<1>16. Placed(n, state') /\ Fits(c, state')
  BY <1>10, <1>11, <1>12, <1>14, <1>15
<1>17. clean => Mirrored(c, state') /\ Tells(c, state') /\ Ends(k, state')
  BY <1>3, <1>11, <1>13, <1>15
<1>18. conn' = "loaded" /\ bcast' = "none" /\ clean' = clean
  BY <1>3
<1>19. MirrorOpen'
  BY <1>15, <1>16, <1>17, <1>18 DEF MirrorOpen, Faithful
<1> QED  BY <1>19 DEF Mirror

LEMMA MirrorRegister == ASSUME Typed, Mirror, Register PROVE Mirror'
<1>1. /\ conn = "loaded" /\ conn' = "playing" /\ stream' = Append(stream, Registered(Me))
      /\ bcast = "none" /\ bcast' = "runs"
      /\ UNCHANGED <<channel, view, state, pipe, clean, gui>>
  BY DEF Register, Typed, window, game, turn
<1>2. PICK c \in Seq(Message), s \in Seq(Message), e \in Message :
        c = channel /\ s = stream /\ e = Registered(Me)
  BY RegisteredIs DEF Typed
<1>3. PICK one \in Seq(Message) : one = <<e>> /\ Append(s, e) = s \o one
  BY OneMore
<1>4. Now = Taken(view, (c \o s) \o one)
  BY <1>1, <1>2, <1>3 DEF Now, Due
<1>5. Now' = Taken(view, (c \o (s \o one)) \o << >>)
  <2>1. /\ channel' = c /\ stream' = s \o one /\ view' = view /\ Due' = << >>
    BY <1>1, <1>2, <1>3 DEF Due
  <2> QED  BY <2>1 DEF Now
<1>6. (c \o (s \o one)) \o << >> = (c \o s) \o one
  <2>1. PICK u \in Seq(Message) : u = c \o (s \o one)
    BY ConcatProperties
  <2>2. u \o << >> = u
    BY ConcatEmptySeq
  <2> QED  BY <2>1, <2>2, ConcatAssociative
<1>7. Now' = Now
  BY <1>4, <1>5, <1>6
<1>8. Coming' = Coming
  BY <1>1, <1>7 DEF Coming
<1> QED  BY <1>1, <1>7, <1>8 DEF Mirror, MirrorOpen, Faithful

LEMMA MirrorDeliver == ASSUME Typed, Mirror, Deliver PROVE Mirror'
<1>1. /\ bcast = "runs" /\ pipe # << >> /\ pipe' = Tail(pipe) /\ conn = "playing"
      /\ bcast' = IF Head(pipe).msgt = "GAME_OVER" THEN "ended" ELSE "runs"
      /\ UNCHANGED <<state, clean, conn, gui>>
  BY DEF Deliver, Typed, window, game, turn
<1> SUFFICES ASSUME gui = "open" PROVE MirrorOpen'
  BY <1>1 DEF Mirror
<1>2. MirrorOpen
  BY <1>1 DEF Mirror
<1>3. PICK n \in View, q \in Seq(News) : n = Now /\ q = pipe
  BY NowIs DEF Typed
<1>4. PICK e \in News, r \in Seq(News) : e = Head(q) /\ r = Tail(q)
  BY <1>1, <1>3, HeadTailProperties
<1>5. Now' = Process(n, e) /\ Coming' = Coming
  BY <1>1, <1>3, <1>4, ComingDelivered
<1>6. Process(n, e) \in View /\ Placed(Process(n, e), state)
  BY <1>2, <1>3, NewsKeeps DEF MirrorOpen, Placed
<1>7. Len(q) \in Nat \ {0} /\ Len(r) = Len(q) - 1 /\ e = q[1]
      /\ \A i \in 1 .. Len(r) : r[i] = q[i + 1]
  BY <1>1, <1>3, <1>4, EmptySeq, HeadTailProperties
<1>8. ASSUME clean PROVE Ends(r, state)
  <2>1. Ends(q, state)
    BY <1>1, <1>2, <1>3, <1>8 DEF MirrorOpen
  <2> QED  BY <1>7, <2>1 DEF Ends
<1>9. ASSUME clean, e.msgt = "GAME_OVER" PROVE state.game_over /\ Coming = Process(n, e)
  <2>1. Ends(q, state)
    BY <1>1, <1>2, <1>3, <1>9 DEF MirrorOpen
  <2>2. 1 \in 1 .. Len(q)
    BY <1>7
  <2>3. state.game_over /\ \A j \in 1 .. Len(q) : q[j] = GameOver(Winner(state))
    BY <1>7, <1>9, <2>1, <2>2 DEF Ends
  <2>4. e = GameOver(Winner(state)) /\ \A i \in 1 .. Len(r) : r[i] = GameOver(Winner(state))
    BY <1>7, <2>2, <2>3
  <2>5. e \in Message /\ r \in Seq(Message) /\ Winner(state) \in Player
    BY NewsAre, NewsSeq DEF Winner, Player
  <2>6. PICK w \in View : /\ w = Process(n, e) /\ w = [n EXCEPT !.status = "Over",
                                                               !.winner = e.winner]
    BY <1>9, <2>5, ProcessOver
  <2>7. w.status = "Over" /\ w.winner = Winner(state)
    BY <2>4, <2>6 DEF View, GameOver
  <2>8. Taken(w, r) = w
    BY <2>4, <2>5, <2>7, TakenEnds
  <2>9. Coming' = Taken(w, r)
    BY <1>1, <1>3, <1>4, <1>5, <2>6 DEF Coming
  <2> QED  BY <1>5, <2>3, <2>6, <2>8, <2>9
<1>10. PICK m, c, k : m = Now' /\ c = Coming' /\ k = pipe'
  OBVIOUS
<1>11. m = Process(n, e) /\ c = Coming /\ k = r
  BY <1>1, <1>3, <1>4, <1>5, <1>10
<1>12. /\ Placed(m, state)
       /\ Fits(c, state)
       /\ clean => Faithful(c) /\ Ends(k, state)
       /\ clean /\ e.msgt = "GAME_OVER" => state.game_over /\ Faithful(m)
  BY <1>1, <1>2, <1>6, <1>8, <1>9, <1>11 DEF MirrorOpen
<1> QED  BY <1>1, <1>3, <1>4, <1>10, <1>12 DEF MirrorOpen, Faithful

LEMMA MirrorTick == ASSUME Typed, Staged, Mirror, Tick PROVE Mirror'
<1>1. UNCHANGED <<conn, bcast, clean, state, pipe>> /\ gui = "open"
  BY DEF Tick, server, game, turn
<1> SUFFICES ASSUME conn \in {"loaded", "playing"}, gui' = "open" PROVE MirrorOpen'
  BY <1>1 DEF Mirror
<1>2. MirrorOpen
  BY <1>1 DEF Mirror
<1>3. PICK n, c, m, d : n = Now /\ c = Coming /\ m = Now' /\ d = Coming'
  OBVIOUS
<1>4. Like(n, m) /\ Like(c, d)
  BY <1>3, ComingTicked
<1>5. /\ Placed(n, state) => Placed(m, state)
      /\ Fits(c, state) => Fits(d, state)
      /\ Faithful(n) => Faithful(m)
      /\ Faithful(c) => Faithful(d)
  BY <1>4, LikeKeeps
<1>6. /\ Placed(m, state)
      /\ bcast \in {"none", "runs"} => Fits(d, state)
      /\ clean /\ bcast \in {"none", "runs"} => Faithful(d) /\ Ends(pipe, state)
      /\ clean /\ bcast = "ended" => state.game_over /\ Faithful(m)
  BY <1>2, <1>3, <1>5 DEF MirrorOpen
<1> QED  BY <1>1, <1>3, <1>6 DEF MirrorOpen, Faithful

LEMMA MirrorNext == Typed /\ Early /\ Staged /\ Mirror /\ [Next]_vars => Mirror'
<1> SUFFICES ASSUME Typed, Early, Staged, Mirror, [Next]_vars PROVE Mirror'
  OBVIOUS
<1>1. CASE PlayMine
  BY <1>1, MirrorCommand, ClientAssumption DEF PlayMine, turn, window
<1>2. CASE PlayOther
  <2>1. Other(Me) \in Player
    BY ClientAssumption DEF Other, Player
  <2> QED  BY <1>2, <2>1, MirrorCommand DEF PlayOther, window
<1>3. CASE BroadcasterDies
  <2>1. /\ bcast' = "died" /\ UNCHANGED <<conn, gui, channel, stream, view, state>>
    BY <1>3 DEF BroadcasterDies, game, window
  <2>2. Now' = Now
    BY <2>1 DEF Now, Due
  <2> QED  BY <2>1, <2>2 DEF Mirror, MirrorOpen
<1>4. CASE HangUp \/ ServerDies \/ NextGame \/ CloseWindow
  BY <1>4 DEF HangUp, ServerDies, NextGame, CloseWindow, Exit, Mirror
<1>5. ASSUME UNCHANGED <<conn, bcast, clean, gui, state, pipe, view>>,
             channel' \o stream' = channel \o stream
      PROVE  Mirror'
  <2>1. Now' = Now
    BY <1>5 DEF Now, Due
  <2>2. Coming' = Coming
    BY <1>5, <2>1 DEF Coming
  <2> QED  BY <1>5, <2>1, <2>2 DEF Mirror, MirrorOpen, Faithful
<1>6. CASE Receive
  BY <1>5, <1>6, Received DEF Receive, server, game, turn, window
<1>7. CASE Forwarder
  BY <1>5, <1>7 DEF Forwarder, Forward, EndOfKeys, SendKey, SendKeyFails, server, game, turn,
                    window
<1>8. CASE UNCHANGED vars
  BY <1>5, <1>8 DEF vars, server, game, turn, window
<1> QED  BY <1>1, <1>2, <1>3, <1>4, <1>6, <1>7, <1>8, MirrorPrepare, MirrorRegister,
            MirrorDeliver, MirrorTick DEF Next

LEMMA AlwaysMirror == Spec => [](Typed /\ Early /\ Staged /\ Mirror)
<1>1. Init => Typed /\ Early /\ Staged /\ Mirror
  BY TypedInit, StagedInit, MirrorInit
<1>2. Typed /\ Early /\ Staged /\ Mirror /\ [Next]_vars => (Typed /\ Early /\ Staged /\ Mirror)'
  BY TypedNext, EarlyNext, StagedNext, MirrorNext
<1> QED  BY <1>1, <1>2, PTL DEF Spec

\* Each identifier stands for something of its own.
LEMMA FiguresDiffer ==
  ASSUME NEW st \in GameState, NEW a \in Ids(st), NEW b \in Ids(st), Figure(st, a) = Figure(st, b)
  PROVE  a = b
<1>1. \A c \in EdibleCells(st.map) : /\ Figure(st, c).pos = At(c) /\ Figure(st, c).item \in Edible
                                     /\ c \in Cells
  BY FigureIs DEF EdibleCells
<1>2. \A c, d \in Cells : At(c) = At(d) => c = d
  BY AtOnMap
<1>3. /\ Figure(st, PlayerId(1)).item = "PLAYER1" /\ Figure(st, PlayerId(2)).item = "PLAYER2"
  BY FigureIs
<1> QED  BY <1>1, <1>2, <1>3 DEF Ids, Edible

\* The figures of a state, as a set.
LEMMA ScreenIs ==
  ASSUME Typed
  PROVE  /\ Screen = {Figures(state)[id] : id \in Ids(state)}
         /\ Cardinality(Ids(state)) = Cardinality(Screen)
<1>1. state \in GameState
  BY DEF Typed
<1>2. ASSUME NEW c \in EdibleCells(state.map)
      PROVE  [item |-> state.map[c], pos |-> CHOOSE at \in Position : Position2Index(at) = c]
               = Figure(state, c)
  <2>1. c \in Cells
    BY DEF EdibleCells
  <2>2. \A at \in Position : Position2Index(at) = c <=> at = At(c)
    BY <2>1, AtOnMap, OnePlace
  <2>3. (CHOOSE at \in Position : Position2Index(at) = c) = At(c)
    BY <2>1, <2>2, AtOnMap
  <2> QED  BY <1>1, <2>1, <2>3, FigureIs
<1>3. ASSUME NEW p \in Player
      PROVE  [item |-> IF p = 1 THEN "PLAYER1" ELSE "PLAYER2", pos |-> state.positions[p]]
               = Figure(state, PlayerId(p))
  BY <1>1, FigureIs DEF Player
<1>4. Screen = {Figure(state, id) : id \in Ids(state)}
  <2> DEFINE food == {[item |-> state.map[c],
                       pos  |-> CHOOSE at \in Position : Position2Index(at) = c] :
                        c \in EdibleCells(state.map)}
             players == {[item |-> IF p = 1 THEN "PLAYER1" ELSE "PLAYER2",
                          pos  |-> state.positions[p]] : p \in Player}
  <2>1. food = {Figure(state, c) : c \in EdibleCells(state.map)}
    BY <1>2, Zenon
  <2>2. players = {Figure(state, PlayerId(p)) : p \in Player}
    BY <1>3, Zenon
  <2>3. Screen = food \cup players
    BY DEF Screen
  <2> HIDE DEF food, players
  <2>4. Screen = {Figure(state, c) : c \in EdibleCells(state.map)}
                   \cup {Figure(state, PlayerId(p)) : p \in Player}
    BY <2>1, <2>2, <2>3
  <2> QED  BY <2>4 DEF Ids, Player
<1>5. PICK f : f = Figures(state)
  OBVIOUS
<1>6. DOMAIN f = Ids(state) /\ \A id \in Ids(state) : f[id] = Figure(state, id)
  BY <1>5 DEF Figures
<1>7. Screen = {f[id] : id \in Ids(state)}
  BY <1>4, <1>6
<1>8. \A a, b \in Ids(state) : f[a] = f[b] => a = b
  BY <1>1, <1>6, FiguresDiffer
<1>9. IsFiniteSet(Ids(state))
  <2>1. IsFiniteSet(EdibleCells(state.map))
    BY EdiblesFinite
  <2>2. IsFiniteSet(EdibleCells(state.map) \cup {PlayerId(1)})
    BY <2>1, FS_AddElement
  <2>3. IsFiniteSet((EdibleCells(state.map) \cup {PlayerId(1)}) \cup {PlayerId(2)})
    BY <2>2, FS_AddElement
  <2>4. Ids(state) = (EdibleCells(state.map) \cup {PlayerId(1)}) \cup {PlayerId(2)}
    BY DEF Ids
  <2> QED  BY <2>3, <2>4
<1>10. Cardinality(Ids(state)) = Cardinality(Screen)
  BY <1>6, <1>7, <1>8, <1>9, SameNumber
<1> QED  BY <1>5, <1>7, <1>10

\* However the messages come, are taken in between two ticks, and find the figures on
\* their way, the window gets to know the walls and whom it plays, in every game; once the
\* broadcaster has caught up, no food that is gone and the two players, whatever the last
\* game has left in the pipe; and in a game that began with an empty one, all: the food
\* that is left and both players where they are, nothing else and nothing twice, and the
\* end of the game with its winner if and only if it is over.
THEOREM WindowIsReplica == Spec => []Replica
<1>1. ASSUME Typed, Mirror PROVE Replica
  <2> SUFFICES ASSUME gui = "open", conn = "playing"
               PROVE  /\ Now.player = Me
                      /\ Now.tiles =
                           [c \in Cells |-> IF state.map[c] = "WALL" THEN "WALL" ELSE "FLOOR"]
                      /\ bcast = "runs" /\ pipe = << >> =>
                           /\ \A e \in Shows(Where(Now)) : e.item \in Edible => e \in Screen
                           /\ Cardinality({id \in DOMAIN Where(Now) :
                                             Where(Now)[id].item \notin Edible}) = 2
                      /\ clean /\ (bcast = "ended" \/ (bcast = "runs" /\ pipe = << >>)) =>
                           /\ Shows(Where(Now)) = Screen
                           /\ Cardinality(DOMAIN Where(Now)) = Cardinality(Screen)
                           /\ IF state.game_over
                                THEN /\ Now.status \in {"Over", "NotStarted"}
                                     /\ Now.winner = Winner(state)
                                ELSE Now.status = "Running" /\ Now.winner = 0
    <3>1. channel \o stream \in Seq(Message)
      BY <1>1, ConcatProperties DEF Typed
    <3>2. ASSUME conn = "playing" PROVE Now = Taken(view, channel \o stream)
      <4>1. PICK u \in Seq(Message) : u = channel \o stream
        BY <3>1
      <4>2. u \o << >> = u
        BY ConcatEmptySeq
      <4>3. Due = << >>
        BY <3>2 DEF Due
      <4> QED  BY <4>1, <4>2, <4>3 DEF Now
    <3> QED  BY <3>2 DEF Replica, Where
  <2>1. PICK v \in View : v = Now /\ state \in GameState /\ MirrorOpen
    BY <1>1, NowIs DEF Mirror, Typed
  <2>2. PICK f : f = Where(v)
    OBVIOUS
  <2>3. v.player = Me /\ v.tiles = Walls(state) /\ v.status \in {"NotStarted", "Running", "Over"}
    BY <2>1 DEF MirrorOpen, Placed, View
  <2>4. pipe = << >> => Coming = v
    BY <2>1, TakenNone DEF Coming
  <2>5. ASSUME bcast = "runs", pipe = << >>
        PROVE  /\ \A e \in Shows(f) : e.item \in Edible => e \in Screen
               /\ Cardinality({id \in DOMAIN f : f[id].item \notin Edible}) = 2
    <3>1. /\ \A id \in DOMAIN f : id \in Ids(state) /\ (id \in Cells => f[id] = Figure(state, id))
          /\ {PlayerId(1), PlayerId(2)} \subseteq DOMAIN f
          /\ f[PlayerId(1)].item = "PLAYER1" /\ f[PlayerId(2)].item = "PLAYER2"
      BY <2>1, <2>2, <2>4, <2>5 DEF MirrorOpen, Fits
    <3>2. Screen = {Figures(state)[id] : id \in Ids(state)}
      BY <1>1, ScreenIs
    <3>3. \A id \in Ids(state) : Figure(state, id) \in Screen
      BY <3>2 DEF Figures
    <3>4. ASSUME NEW id \in DOMAIN f, id \in Cells
          PROVE  f[id].item \in Edible /\ f[id] \in Screen
      <4>1. id \in EdibleCells(state.map)
        BY <3>1, <3>4, PlayerIds DEF Ids
      <4>2. state.map[id] \in Edible
        BY <4>1 DEF EdibleCells
      <4> QED  BY <2>1, <3>1, <3>3, <3>4, <4>2, FigureIs
    <3>5. \A id \in DOMAIN f : id \in Cells \/ id \in {PlayerId(1), PlayerId(2)}
      BY <3>1 DEF Ids, EdibleCells
    <3>6. {id \in DOMAIN f : f[id].item \notin Edible} = {PlayerId(1), PlayerId(2)}
      BY <3>1, <3>4, <3>5, PlayerIds DEF Edible
    <3>7. Cardinality({PlayerId(1), PlayerId(2)}) = 2
      <4>1. Cardinality({PlayerId(1)}) = 1 /\ IsFiniteSet({PlayerId(1)})
        BY FS_Singleton
      <4>2. Cardinality({PlayerId(1)} \cup {PlayerId(2)}) = 2
        BY <4>1, PlayerIds, FS_AddElement
      <4>3. {PlayerId(1)} \cup {PlayerId(2)} = {PlayerId(1), PlayerId(2)}
        OBVIOUS
      <4> QED  BY <4>2, <4>3
    <3>8. \A e \in Shows(f) : e.item \in Edible => e \in Screen
      BY <3>1, <3>4, <3>5 DEF Shows, Edible
    <3> QED  BY <3>6, <3>7, <3>8
  <2>6. ASSUME clean, bcast = "ended" \/ (bcast = "runs" /\ pipe = << >>)
        PROVE  /\ Shows(f) = Screen
               /\ Cardinality(DOMAIN f) = Cardinality(Screen)
               /\ IF state.game_over THEN v.status # "Running" /\ v.winner = Winner(state)
                                     ELSE v.status = "Running" /\ v.winner = 0
    <3>1. Mirrored(v, state) /\ Tells(v, state)
      BY <2>1, <2>4, <2>6 DEF MirrorOpen, Faithful
    <3>2. f = Figures(state)
      BY <2>2, <3>1 DEF Mirrored
    <3>3. DOMAIN f = Ids(state)
      BY <3>2 DEF Figures
    <3>4. {f[id] : id \in DOMAIN f} = Screen /\ Cardinality(DOMAIN f) = Cardinality(Screen)
      BY <1>1, <3>2, <3>3, ScreenIs
    <3> QED  BY <3>1, <3>4 DEF Tells, Shows
  <2> QED  BY <2>1, <2>2, <2>3, <2>5, <2>6 DEF Walls
<1> QED  BY <1>1, AlwaysMirror, PTL

=============================================================================

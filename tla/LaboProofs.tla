------------------------------ MODULE LaboProofs ------------------------------
(***************************************************************************)
(* Theorems about Labo, for input files of any length: the types, and that *)
(* the keys of a player keep their order on the way from the file, through *)
(* the pipe and the forwarder, to the server.                              *)
(***************************************************************************)
EXTENDS Labo, SequenceTheorems, TLAPS

USE DEF Player, Other

-----------------------------------------------------------------------------
(* Sequences within sequences.                                             *)

LEMMA Itself == ASSUME NEW S, NEW s \in Seq(S) PROVE Within(s, s)
<1> DEFINE at == [i \in DOMAIN s |-> i]
<1>1. at \in [DOMAIN s -> DOMAIN s]
  OBVIOUS
<1>2. /\ \A i \in DOMAIN s : s[i] = s[at[i]]
      /\ \A i, j \in DOMAIN s : i < j => at[i] < at[j]
  OBVIOUS
<1> QED  BY <1>1, <1>2 DEF Within

\* What is left when something is cut out is still within.
LEMMA Thin ==
  ASSUME NEW S, NEW a \in Seq(S), NEW b \in Seq(S), NEW c \in Seq(S), NEW f,
         Within(a \o (b \o c), f)
  PROVE  Within(a \o c, f)
<1> DEFINE old == a \o (b \o c)
           new == a \o c
           la == Len(a)
           lb == Len(b)
           lc == Len(c)
<1>1. la \in Nat /\ lb \in Nat /\ lc \in Nat
  BY LenProperties
<1>2. /\ b \o c \in Seq(S) /\ Len(b \o c) = lb + lc
      /\ \A i \in 1 .. lb + lc : (b \o c)[i] = IF i <= lb THEN b[i] ELSE c[i - lb]
  BY ConcatProperties
<1>3. /\ old \in Seq(S) /\ DOMAIN old = 1 .. la + (lb + lc)
      /\ \A i \in 1 .. la + (lb + lc) : old[i] = IF i <= la THEN a[i] ELSE (b \o c)[i - la]
  BY <1>2, ConcatProperties, LenProperties
<1>4. /\ new \in Seq(S) /\ DOMAIN new = 1 .. la + lc
      /\ \A i \in 1 .. la + lc : new[i] = IF i <= la THEN a[i] ELSE c[i - la]
  BY ConcatProperties, LenProperties
<1>5. PICK at \in [DOMAIN old -> DOMAIN f] :
        /\ \A i \in DOMAIN old : old[i] = f[at[i]]
        /\ \A i, j \in DOMAIN old : i < j => at[i] < at[j]
  BY DEF Within
<1> HIDE DEF old, new, la, lb, lc
<1> DEFINE shift(i) == IF i <= la THEN i ELSE i + lb
           to == [i \in DOMAIN new |-> at[shift(i)]]
<1>6. ASSUME NEW i \in DOMAIN new PROVE shift(i) \in DOMAIN old /\ new[i] = old[shift(i)]
  <2>1. i \in 1 .. la + lc /\ i \in Nat
    BY <1>4
  <2>2. CASE i <= la
    <3>1. i \in 1 .. la + (lb + lc)
      BY <1>1, <2>1, <2>2
    <3>2. old[i] = a[i] /\ new[i] = a[i]
      BY <1>3, <1>4, <2>1, <2>2, <3>1
    <3> QED  BY <1>3, <2>2, <3>1, <3>2
  <2>3. CASE ~(i <= la)
    <3> DEFINE k == i + lb
               m == k - la
    <3>1. /\ k \in 1 .. la + (lb + lc) /\ ~(k <= la)
          /\ m \in 1 .. lb + lc /\ ~(m <= lb) /\ m - lb = i - la
      BY <1>1, <2>1, <2>3
    <3> HIDE DEF k
    <3>2. old[k] = (b \o c)[m]
      BY <1>3, <3>1
    <3> HIDE DEF m
    <3>3. (b \o c)[m] = c[m - lb]
      BY <1>2, <3>1
    <3>4. new[i] = c[i - la]
      BY <1>4, <2>1, <2>3
    <3>5. shift(i) = k
      BY <2>3 DEF k
    <3> QED  BY <1>3, <3>1, <3>2, <3>3, <3>4, <3>5
  <2> QED  BY <2>2, <2>3
<1>7. ASSUME NEW i \in DOMAIN new, NEW j \in DOMAIN new, i < j PROVE shift(i) < shift(j)
  BY <1>1, <1>4, <1>7
<1>8. to \in [DOMAIN new -> DOMAIN f]
  BY <1>5, <1>6
<1>9. \A i \in DOMAIN new : new[i] = f[to[i]]
  BY <1>5, <1>6
<1>10. \A i, j \in DOMAIN new : i < j => to[i] < to[j]
  BY <1>5, <1>6, <1>7
<1> HIDE DEF to
<1> QED  BY <1>8, <1>9, <1>10 DEF Within, new

LEMMA HeadFirst ==
  ASSUME NEW S, NEW s \in Seq(S), s # << >>
  PROVE  Head(s) \in S /\ Tail(s) \in Seq(S) /\ s = <<Head(s)>> \o Tail(s)
<1>1. Len(s) \in Nat \ {0}
  BY EmptySeq
<1>2. SubSeq(s, 1, Len(s)) = <<s[1]>> \o SubSeq(s, 2, Len(s))
  <2>1. SubSeq(s, 1, Len(s)) = <<s[1]>> \o SubSeq(s, 1 + 1, Len(s))
    BY <1>1, SubSeqRecursiveFirst
  <2> QED  BY <2>1
<1>3. Head(s) = s[1] /\ Tail(s) = SubSeq(s, 2, Len(s)) /\ SubSeq(s, 1, Len(s)) = s
  BY TailIsSubSeq, SubSeqFull
<1> QED  BY <1>2, <1>3, HeadTailProperties

\* A read takes the first key, and the rest of the buffer is lost.
LEMMA Buffered ==
  ASSUME NEW S, NEW s \in Seq(S), s # << >>
  PROVE  /\ SubSeq(s, BUFFER + 1, Len(s)) \in Seq(S)
         /\ \E lost \in Seq(S) :
              s = <<Head(s)>> \o (lost \o SubSeq(s, BUFFER + 1, Len(s)))
<1> DEFINE n == Len(s)
           rest == SubSeq(s, BUFFER + 1, n)
<1>1. n \in Nat \ {0} /\ \A i \in 1 .. n : s[i] \in S
  BY EmptySeq, ElementOfSeq
<1>2. rest \in Seq(S)
  BY <1>1, SubSeqProperties DEF BUFFER
<1>3. s = <<Head(s)>> \o Tail(s) /\ Tail(s) = SubSeq(s, 2, n) /\ Tail(s) \in Seq(S)
  BY HeadFirst, TailIsSubSeq
<1>4. CASE n <= BUFFER
  <2>1. rest = << >>
    BY <1>1, <1>4, SubSeqEmpty DEF BUFFER
  <2>2. Tail(s) \o rest = Tail(s)
    BY <1>3, <2>1, ConcatEmptySeq
  <2> QED  BY <1>2, <1>3, <2>2
<1>5. CASE ~(n <= BUFFER)
  <2>1. SubSeq(s, 2, BUFFER) \o SubSeq(s, BUFFER + 1, n) = SubSeq(s, 2, n)
    BY <1>1, <1>5, ConcatAdjacentSubSeq DEF BUFFER
  <2>2. SubSeq(s, 2, BUFFER) \in Seq(S)
    BY <1>1, <1>5, SubSeqProperties DEF BUFFER
  <2> QED  BY <1>2, <1>3, <2>1, <2>2
<1> QED  BY <1>4, <1>5

-----------------------------------------------------------------------------
(* Types.                                                                  *)

Typed == /\ TypeOK
         /\ DOMAIN left = Player /\ DOMAIN pipe = Player
         /\ DOMAIN sent = Player /\ DOMAIN key = Player

LEMMA TypedInit == Init => Typed
BY InputAssumption DEF Init, Typed, TypeOK

LEMMA TypedNext == Typed /\ [Next]_vars => Typed'
<1> SUFFICES ASSUME Typed, [Next]_vars PROVE Typed'
  OBVIOUS
<1> USE DEF Typed, TypeOK
<1>1. CASE UNCHANGED vars
  BY <1>1 DEF vars, clients
<1>2. CASE PasLabo
  <2>1. CASE ForkServer \/ ForkClient \/ SendSigint \/ Close \/ KillClients \/ WaitServer
    BY <2>1 DEF ForkServer, ForkClient, SendSigint, Close, KillClients, WaitServer, clients
  <2>2. CASE Feed
    <3>1. left[who] # << >> => /\ Append(pipe[who], Head(left[who])) \in Seq(Keys(who))
                               /\ Tail(left[who]) \in Seq(Keys(who))
      BY HeadFirst, AppendProperties
    <3> QED  BY <2>2, <3>1 DEF Feed, clients
  <2> QED  BY <1>2, <2>1, <2>2 DEF PasLabo
<1>3. ASSUME NEW p \in Player, Client(p) \/ CloseWindow(p) PROVE Typed'
  <2>1. CASE ForkForwarder(p) \/ ConnectFails(p) \/ CloseWindow(p) \/ EndOfKeys(p)
    BY <2>1 DEF ForkForwarder, ConnectFails, CloseWindow, EndOfKeys
  <2>2. CASE Connect(p)
    BY <2>2, AppendProperties DEF Connect
  <2>3. CASE Forward(p)
    <3>1. /\ SubSeq(pipe[p], BUFFER + 1, Len(pipe[p])) \in Seq(Keys(p))
          /\ <<Head(pipe[p])>> \in Seq(Keys(p))
      BY <2>3, Buffered, HeadFirst DEF Forward
    <3> QED  BY <2>3, <3>1 DEF Forward
  <2>4. CASE SendKey(p)
    <3>1. sent[p] \o key[p] \in Seq(Keys(p)) /\ << >> \in Seq(Keys(p))
      BY ConcatProperties
    <3> QED  BY <2>4, <3>1 DEF SendKey
  <2>5. CASE SendKeyFails(p)
    <3>1. << >> \in Seq(Keys(p))
      OBVIOUS
    <3> QED  BY <2>5, <3>1 DEF SendKeyFails
  <2> QED  BY <1>3, <2>1, <2>2, <2>3, <2>4, <2>5 DEF Client
<1>4. CASE Listen \/ Play \/ Alarm \/ GameOver \/ PlayerLeft
  BY <1>4 DEF Listen, Play, Alarm, GameOver, PlayerLeft, clients
<1> QED  BY <1>1, <1>2, <1>3, <1>4 DEF Next

LEMMA AlwaysTyped == FairSpec => []Typed
BY TypedInit, TypedNext, PTL DEF FairSpec

-----------------------------------------------------------------------------
(* The order of the keys.                                                  *)

\* InOrder, with the parts of the line grouped from the right.
Ordered == \A p \in Player : Within(sent[p] \o (key[p] \o (pipe[p] \o left[p])), Input[p])

\* pas_labo moves a key from the file to the pipe.
LEMMA LineFeed ==
  ASSUME NEW S, NEW a \in Seq(S), NEW b \in Seq(S), b # << >>
  PROVE  Append(a, Head(b)) \o Tail(b) = a \o b
<1>1. Head(b) \in S /\ Tail(b) \in Seq(S) /\ b = <<Head(b)>> \o Tail(b)
  BY HeadFirst
<1>2. Append(a, Head(b)) = a \o <<Head(b)>> /\ <<Head(b)>> \in Seq(S)
  BY <1>1, AppendIsConcat
<1>3. (a \o <<Head(b)>>) \o Tail(b) = a \o (<<Head(b)>> \o Tail(b))
  BY <1>1, <1>2, ConcatAssociative
<1> QED  BY <1>1, <1>2, <1>3

\* The key that was to be sent is lost.
LEMMA LineLoses ==
  ASSUME NEW S, NEW s \in Seq(S), NEW k \in Seq(S), NEW q \in Seq(S), NEW l \in Seq(S), NEW f,
         Within(s \o (k \o (q \o l)), f)
  PROVE  Within(s \o (q \o l), f)
<1>1. PICK ql \in Seq(S) : ql = q \o l
  BY ConcatProperties
<1>2. Within(s \o (k \o ql), f)
  BY <1>1
<1>3. Within(s \o ql, f)
  BY <1>2, Thin
<1> QED  BY <1>1, <1>3

LEMMA ThinInside ==
  ASSUME NEW S, NEW a \in Seq(S), NEW b \in Seq(S), NEW c \in Seq(S), NEW d \in Seq(S), NEW f,
         Within(a \o (b \o (c \o d)), f)
  PROVE  Within(a \o (b \o d), f)
<1>1. a \o (b \o (c \o d)) = (a \o b) \o (c \o d)
  OBVIOUS
<1>2. PICK ab \in Seq(S) : ab = a \o b
  BY ConcatProperties
<1>3. Within(ab \o (c \o d), f)
  BY <1>1, <1>2
<1>4. Within(ab \o d, f)
  BY <1>3, Thin
<1>5. (a \o b) \o d = a \o (b \o d)
  OBVIOUS
<1> QED  BY <1>2, <1>4, <1>5

\* A read takes one key and loses the rest of the buffer.
LEMMA LineReads ==
  ASSUME NEW S, NEW s \in Seq(S), NEW q \in Seq(S), NEW l \in Seq(S), NEW f,
         NEW h \in Seq(S), NEW m \in Seq(S), NEW r \in Seq(S),
         q = h \o (m \o r), Within(s \o (q \o l), f)
  PROVE  Within(s \o (h \o (r \o l)), f)
<1>1. (h \o (m \o r)) \o l = h \o (m \o (r \o l))
  OBVIOUS
<1>2. PICK rl \in Seq(S) : rl = r \o l
  BY ConcatProperties
<1>3. Within(s \o (h \o (m \o rl)), f)
  BY <1>1, <1>2
<1>4. Within(s \o (h \o rl), f)
  BY <1>3, ThinInside
<1> QED  BY <1>2, <1>4

LEMMA First == ASSUME NEW S, NEW q \in Seq(S), q # << >> PROVE <<Head(q)>> \in Seq(S)
<1>1. Head(q) \in S
  BY HeadFirst
<1> QED  BY <1>1

LEMMA LineForward ==
  ASSUME NEW S, NEW s \in Seq(S), NEW k \in Seq(S), NEW q \in Seq(S), NEW l \in Seq(S), NEW f,
         q # << >>, Within(s \o (k \o (q \o l)), f)
  PROVE  Within(s \o (<<Head(q)>> \o (SubSeq(q, BUFFER + 1, Len(q)) \o l)), f)
<1>1. PICK r \in Seq(S) : r = SubSeq(q, BUFFER + 1, Len(q))
  BY Buffered
<1>2. PICK h \in Seq(S) : h = <<Head(q)>>
  BY First
<1>3. PICK m \in Seq(S) : q = h \o (m \o r)
  BY <1>1, <1>2, Buffered
<1>4. Within(s \o (q \o l), f)
  BY LineLoses
<1>5. Within(s \o (h \o (r \o l)), f)
  BY <1>3, <1>4, LineReads
<1> QED  BY <1>1, <1>2, <1>5

LEMMA Regroup ==
  ASSUME NEW S, NEW a \in Seq(S), NEW b \in Seq(S), NEW c \in Seq(S), NEW d \in Seq(S), NEW f,
         Within(a \o (b \o (c \o d)), f)
  PROVE  Within(a \o b \o c \o d, f)
<1>1. a \o b \o c \o d = a \o (b \o (c \o d))
  OBVIOUS
<1> QED  BY <1>1

\* The forwarder has sent its key.
LEMMA LineSend ==
  ASSUME NEW S, NEW s \in Seq(S), NEW k \in Seq(S), NEW q \in Seq(S), NEW l \in Seq(S), NEW f,
         Within(s \o (k \o (q \o l)), f)
  PROVE  Within((s \o k) \o (<< >> \o (q \o l)), f)
<1>1. PICK ql \in Seq(S) : ql = q \o l
  BY ConcatProperties
<1>2. s \o (k \o ql) = (s \o k) \o ql /\ << >> \o ql = ql
  OBVIOUS
<1> QED  BY <1>1, <1>2

LEMMA OrderedInit == Init => Ordered
<1> SUFFICES ASSUME Init, NEW p \in Player
             PROVE  Within(sent[p] \o (key[p] \o (pipe[p] \o left[p])), Input[p])
  BY DEF Ordered
<1>1. Input[p] \in Seq(Keys(p))
  BY InputAssumption
<1>2. << >> \o (<< >> \o (<< >> \o Input[p])) = Input[p]
  BY <1>1, ConcatEmptySeq
<1>3. sent[p] = << >> /\ key[p] = << >> /\ pipe[p] = << >> /\ left[p] = Input[p]
  BY DEF Init
<1> QED  BY <1>1, <1>2, <1>3, Itself

LEMMA OrderedNext == Typed /\ Ordered /\ [Next]_vars => Ordered'
<1> SUFFICES ASSUME Typed, Ordered, [Next]_vars, NEW p \in Player
             PROVE  Within(sent'[p] \o (key'[p] \o (pipe'[p] \o left'[p])), Input[p])
  BY DEF Ordered
<1>1. /\ sent[p] \in Seq(Keys(p)) /\ key[p] \in Seq(Keys(p))
      /\ pipe[p] \in Seq(Keys(p)) /\ left[p] \in Seq(Keys(p))
      /\ DOMAIN sent = Player /\ DOMAIN key = Player
      /\ DOMAIN pipe = Player /\ DOMAIN left = Player
  BY DEF Typed, TypeOK
<1>2. Within(sent[p] \o (key[p] \o (pipe[p] \o left[p])), Input[p])
  BY DEF Ordered
<1> DEFINE Same == sent'[p] = sent[p] /\ key'[p] = key[p] /\ pipe'[p] = pipe[p] /\ left'[p] = left[p]
<1>3. CASE Same
  BY <1>2, <1>3
<1>4. CASE Feed /\ who = p /\ left[p] # << >>
  <2>1. /\ pipe'[p] = Append(pipe[p], Head(left[p])) /\ left'[p] = Tail(left[p])
        /\ sent'[p] = sent[p] /\ key'[p] = key[p]
    BY <1>1, <1>4 DEF Feed, clients
  <2>2. Append(pipe[p], Head(left[p])) \o Tail(left[p]) = pipe[p] \o left[p]
    BY <1>1, <1>4, LineFeed
  <2> QED  BY <1>2, <2>1, <2>2
<1>5. CASE Forward(p)
  <2>1. /\ pipe[p] # << >>
        /\ key'[p] = <<Head(pipe[p])>>
        /\ pipe'[p] = SubSeq(pipe[p], BUFFER + 1, Len(pipe[p]))
        /\ sent'[p] = sent[p] /\ left'[p] = left[p]
    BY <1>1, <1>5 DEF Forward
  <2>2. Within(sent[p] \o (<<Head(pipe[p])>>
                             \o (SubSeq(pipe[p], BUFFER + 1, Len(pipe[p])) \o left[p])), Input[p])
    BY <1>1, <1>2, <2>1, LineForward
  <2> QED  BY <2>1, <2>2
<1>6. CASE SendKey(p)
  <2>1. /\ sent'[p] = sent[p] \o key[p] /\ key'[p] = << >>
        /\ pipe'[p] = pipe[p] /\ left'[p] = left[p]
    BY <1>1, <1>6 DEF SendKey
  <2>2. Within((sent[p] \o key[p]) \o (<< >> \o (pipe[p] \o left[p])), Input[p])
    BY <1>1, <1>2, LineSend
  <2> QED  BY <2>1, <2>2
<1>7. CASE SendKeyFails(p)
  <2>1. /\ sent'[p] = sent[p] /\ key'[p] = << >>
        /\ pipe'[p] = pipe[p] /\ left'[p] = left[p]
    BY <1>1, <1>7 DEF SendKeyFails
  <2>2. Within(sent[p] \o (pipe[p] \o left[p]), Input[p])
    BY <1>1, <1>2, LineLoses
  <2>3. << >> \o (pipe[p] \o left[p]) = pipe[p] \o left[p]
    BY <1>1, ConcatProperties, ConcatEmptySeq
  <2> QED  BY <2>1, <2>2, <2>3
<1>8. Same \/ (Feed /\ who = p /\ left[p] # << >>) \/ Forward(p) \/ SendKey(p) \/ SendKeyFails(p)
  <2>1. CASE UNCHANGED vars
    BY <2>1 DEF vars, clients
  <2>2. CASE PasLabo
    BY <1>1, <2>2 DEF PasLabo, ForkServer, ForkClient, SendSigint, Feed, Close, KillClients,
                      WaitServer, clients
  <2>3. ASSUME NEW q \in Player, Client(q) \/ CloseWindow(q)
        PROVE  Same \/ Forward(p) \/ SendKey(p) \/ SendKeyFails(p)
    BY <1>1, <2>3 DEF Client, ForkForwarder, Connect, ConnectFails, CloseWindow, EndOfKeys,
                      Forward, SendKey, SendKeyFails
  <2>4. CASE Listen \/ Play \/ Alarm \/ GameOver \/ PlayerLeft
    BY <2>4 DEF Listen, Play, Alarm, GameOver, PlayerLeft, clients
  <2> QED  BY <2>1, <2>2, <2>3, <2>4 DEF Next
<1> QED  BY <1>3, <1>4, <1>5, <1>6, <1>7, <1>8

-----------------------------------------------------------------------------

\* Every variable holds a value of its type, whatever the files.
THEOREM LaboTypeCorrect == FairSpec => []TypeOK
<1>1. Typed => TypeOK
  BY DEF Typed
<1> QED  BY <1>1, AlwaysTyped, PTL

\* Whoever is killed and whatever is lost on the way, what reaches the server are keys of
\* the player's own file, in the order of the file and none of them twice.
THEOREM KeysStayInOrder == FairSpec => []InOrder
<1>1. Typed /\ Ordered => InOrder
  <2> SUFFICES ASSUME Typed, Ordered, NEW p \in Player
               PROVE  Within(sent[p] \o key[p] \o pipe[p] \o left[p], Input[p])
    BY DEF InOrder
  <2>1. /\ sent[p] \in Seq(Keys(p)) /\ key[p] \in Seq(Keys(p))
        /\ pipe[p] \in Seq(Keys(p)) /\ left[p] \in Seq(Keys(p))
    BY DEF Typed, TypeOK
  <2> QED  BY <2>1, Regroup DEF Ordered
<1> QED  BY <1>1, AlwaysTyped, OrderedInit, OrderedNext, PTL DEF FairSpec

===============================================================================

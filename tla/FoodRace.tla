------------------------------ MODULE FoodRace ------------------------------
(***************************************************************************)
(* What game.c promises, without map, walls or moves: a set of prizes, two *)
(* players who take them one at a time, and an end that comes with the     *)
(* last prize or earlier, when the players bump into each other.           *)
(***************************************************************************)
EXTENDS Naturals

VARIABLES prizes,            \* the prizes left, each with its value
          points,            \* what each player has won
          over               \* nobody may take a prize any more

race == <<prizes, points, over>>

NoPoints == [p \in {1, 2} |-> 0]

Init == /\ DOMAIN prizes = {}
        /\ points = NoPoints
        /\ over = FALSE

\* A new race, with any prizes worth something; with none it is over at once.
Start == /\ \A c \in DOMAIN prizes' : prizes'[c] > 0
         /\ points' = NoPoints
         /\ over' = (DOMAIN prizes' = {})

\* Exactly one prize changes hands; the last one ends the race.
Take(p, c) == /\ ~over
              /\ prizes' = [d \in DOMAIN prizes \ {c} |-> prizes[d]]
              /\ points' = [points EXCEPT ![p] = @ + prizes[c]]
              /\ over' = (DOMAIN prizes' = {})

Bump == ~over /\ over' = TRUE /\ UNCHANGED <<prizes, points>>

\* The table is cleared for the next race.
Clear == DOMAIN prizes' = {} /\ points' = NoPoints /\ over' = TRUE

Next == \/ Start
        \/ \E p \in {1, 2} : \E c \in DOMAIN prizes : Take(p, c)
        \/ Bump
        \/ Clear

Spec == Init /\ [][Next]_race

=============================================================================

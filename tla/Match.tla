------------------------------- MODULE Match -------------------------------
(***************************************************************************)
(* What a duel promises, seen from its score alone: both players start     *)
(* with START_CARD_NUMBER cards, a lost round costs a card, a player with  *)
(* at least EQUALITY_CARD_NUMBER cards and two more than the opponent has  *)
(* lost, and the duel is decided once.  Game implements it.                *)
(***************************************************************************)
EXTENDS Integers

CONSTANTS START_CARD_NUMBER, EQUALITY_CARD_NUMBER, TIE_CARD_NUMBER

VARIABLES score, outcome

Player == {0, 1}
Opponent(p) == 1 - p

Lost(n, p) == n[p] >= EQUALITY_CARD_NUMBER /\ n[p] >= n[Opponent(p)] + 2

Drawn(n) == \A p \in Player : n[p] = TIE_CARD_NUMBER

Outcome == {"playing", "first lost", "second lost", "draw", "crashed"}

LostBy(p) == IF p = 0 THEN "first lost" ELSE "second lost"

Init ==
    /\ score = [p \in Player |-> START_CARD_NUMBER]
    /\ outcome = "playing"

\* p loses a round, and with it perhaps the duel.
LoseRound(p) ==
    /\ outcome = "playing"
    /\ score[p] < TIE_CARD_NUMBER
    /\ score' = [score EXCEPT ![p] = @ + 1]
    /\ outcome' = IF Drawn(score') THEN "draw"
                  ELSE IF Lost(score', p) THEN LostBy(p)
                  ELSE "playing"

\* p concedes or does not come back.
Leave(p) ==
    /\ outcome = "playing"
    /\ outcome' = LostBy(p)
    /\ UNCHANGED score

\* By agreement, or because nobody plays at all.
Draw ==
    /\ outcome = "playing"
    /\ outcome' = "draw"
    /\ UNCHANGED score

\* The server does not survive a round lost with TIE_CARD_NUMBER cards.
Crash(p) ==
    /\ outcome = "playing"
    /\ score[p] = TIE_CARD_NUMBER
    /\ score' = [score EXCEPT ![p] = @ + 1]
    /\ outcome' = "crashed"

Next ==
    \/ \E p \in Player : LoseRound(p) \/ Leave(p) \/ Crash(p)
    \/ Draw

Spec == Init /\ [][Next]_<<score, outcome>>

=============================================================================

------------------------------- MODULE Ratings -------------------------------
(***************************************************************************)
(* The ratings: update_ratings (src/CardBluffServer/ratings.cpp), which a    *)
(* game thread calls at the end of its game (Game::finish, game.cpp), with    *)
(* the statements of database.cpp one by one, for other game threads use the  *)
(* same rows.                                                                *)
(*                                                                         *)
(* The formula of the ratings is abstract: RATING_K * loser_E + 0.5, with     *)
(* loser_E between 0 and 1, is some whole number from 0 to RATING_K.          *)
(*                                                                         *)
(* in_game belongs to a Client object and the rating to a row of the database: *)
(* two authorized clients of one nickname have one id (AuthorizedOnce of       *)
(* Lobby), so a row may be in two games, or be both sides of one.             *)
(***************************************************************************)
EXTENDS Integers

CONSTANTS Client, Row, Duel, None, RATING_K, DEFAULT_RATING

ASSUME ConstantsAssumption ==
    /\ None \notin Client
    /\ RATING_K \in Nat
    /\ DEFAULT_RATING \in Int

VARIABLES
    rating,               \* the rows
    id,                   \* of a client: his row
    in_game,              \* of a client
    thread,               \* where a game thread is
    players,              \* of a duel
    winner, loser,        \* arguments of update_ratings
    winner_r, loser_r, delta,
    rated,                \* update_ratings has returned 0
    stray,                \* history: the games finished a second time
    doubled               \* history: the rows two games, or two sides, had at once

vars == <<rating, id, in_game, thread, players, winner, loser, winner_r, loser_r, delta, rated,
          stray, doubled>>

Updating == {"get_winner", "get_loser", "set_winner", "set_loser"}

TypeOK ==
    /\ rating \in [Row -> Int]
    /\ id \in [Client -> Row]
    /\ in_game \in [Client -> BOOLEAN]
    /\ thread \in [Duel -> {"none", "running", "leave", "finished", "deleted"} \cup Updating]
    /\ players \in [Duel -> SUBSET Client]
    /\ winner \in [Duel -> Client \cup {None}]
    /\ loser \in [Duel -> Client \cup {None}]
    /\ winner_r \in [Duel -> Int]
    /\ loser_r \in [Duel -> Int]
    /\ delta \in [Duel -> 0 .. RATING_K]
    /\ rated \in [Duel -> BOOLEAN]
    /\ stray \subseteq Duel
    /\ doubled \subseteq Row

Init ==
    /\ rating = [r \in Row |-> DEFAULT_RATING]
    /\ id \in [Client -> Row]
    /\ in_game = [p \in Client |-> FALSE]
    /\ thread = [g \in Duel |-> "none"]
    /\ players = [g \in Duel |-> {}]
    /\ winner = [g \in Duel |-> None]
    /\ loser = [g \in Duel |-> None]
    /\ winner_r = [g \in Duel |-> 0]
    /\ loser_r = [g \in Duel |-> 0]
    /\ delta = [g \in Duel |-> 0]
    /\ rated = [g \in Duel |-> FALSE]
    /\ stray = {}
    /\ doubled = {}

-----------------------------------------------------------------------------
Goto(g, place) == thread' = [thread EXCEPT ![g] = place]

winner_id(g) == id[winner[g]]
loser_id(g) == id[loser[g]]

\* The rows that two clients in a game share.
SharedRows ==
    {r \in Row : \E p, q \in Client : p # q /\ in_game[p] /\ in_game[q] /\ id[p] = r /\ id[q] = r}

\* The matchmaker pairs two clients who are in no game, whatever their rows are.
enter_game(g, p, q) ==
    /\ thread[g] = "none"
    /\ p # q
    /\ ~in_game[p] /\ ~in_game[q]
    /\ players' = [players EXCEPT ![g] = {p, q}]
    /\ in_game' = [x \in Client |-> in_game[x] \/ x \in {p, q}]
    /\ Goto(g, "running")
    /\ UNCHANGED <<rating, id, winner, loser, winner_r, loser_r, delta, rated, stray>>
    /\ doubled' = doubled \cup SharedRows'

\* The result decides whose rows update_ratings is called for; a tie is not rated.
Result(g) ==
    \/ /\ \E p, q \in players[g] :
             /\ p # q
             /\ winner' = [winner EXCEPT ![g] = p]
             /\ loser' = [loser EXCEPT ![g] = q]
       /\ Goto(g, "get_winner")
    \/ Goto(g, "leave") /\ UNCHANGED <<winner, loser>>

\* Mutant: the players are free for another game before the ratings are updated.
finishFreeingFirst(g) ==
    /\ thread[g] = "running"
    /\ Result(g)
    /\ in_game' = [p \in Client |-> in_game[p] /\ p \notin players[g]]
    /\ UNCHANGED <<rating, id, players, winner_r, loser_r, delta, rated, stray, doubled>>

finish(g) ==
    /\ thread[g] = "running"
    /\ Result(g)
    /\ UNCHANGED <<rating, id, in_game, players, winner_r, loser_r, delta, rated, stray, doubled>>

\* One command more after a missed deadline (AtMostOneStrayFinish of Game): the
\* players may be in their next games, so that their rows are used twice.
FinishAgain(g) ==
    /\ thread[g] = "finished"
    /\ g \notin stray
    /\ stray' = stray \cup {g}
    /\ doubled' = doubled \cup {id[p] : p \in players[g]}
    /\ Result(g)
    /\ UNCHANGED <<rating, id, in_game, players, winner_r, loser_r, delta, rated>>

-----------------------------------------------------------------------------
(* update_ratings.                                                         *)

\* A statement fails: the rest is left out.
Fails(g) ==
    /\ thread[g] \in Updating
    /\ Goto(g, "leave")
    /\ UNCHANGED <<rating, id, in_game, players, winner, loser, winner_r, loser_r, delta, rated, stray, doubled>>

GetWinner(g) ==
    /\ thread[g] = "get_winner"
    /\ winner_r' = [winner_r EXCEPT ![g] = rating[winner_id(g)]]
    /\ Goto(g, "get_loser")
    /\ UNCHANGED <<rating, id, in_game, players, winner, loser, loser_r, delta, rated, stray, doubled>>

\* Mutant: the formula is rounded up.
RoundedUp == 1 .. RATING_K + 1

Delta == 0 .. RATING_K

GetLoser(g) ==
    /\ thread[g] = "get_loser"
    /\ \E d \in Delta :
          /\ delta' = [delta EXCEPT ![g] = d]
          /\ winner_r' = [winner_r EXCEPT ![g] = @ + d]
          /\ loser_r' = [loser_r EXCEPT ![g] = rating[loser_id(g)] - d]
    /\ Goto(g, "set_winner")
    /\ UNCHANGED <<rating, id, in_game, players, winner, loser, rated, stray, doubled>>

SetWinner(g) ==
    /\ thread[g] = "set_winner"
    /\ rating' = [rating EXCEPT ![winner_id(g)] = winner_r[g]]
    /\ Goto(g, "set_loser")
    /\ UNCHANGED <<id, in_game, players, winner, loser, winner_r, loser_r, delta, rated, stray, doubled>>

\* Mutant: the ids are swapped in the last statement.
SetLoserOfWinner(g) ==
    /\ thread[g] = "set_loser"
    /\ rating' = [rating EXCEPT ![winner_id(g)] = loser_r[g]]
    /\ rated' = [rated EXCEPT ![g] = TRUE]
    /\ Goto(g, "leave")
    /\ UNCHANGED <<id, in_game, players, winner, loser, winner_r, loser_r, delta, stray, doubled>>

SetLoser(g) ==
    /\ thread[g] = "set_loser"
    /\ rating' = [rating EXCEPT ![loser_id(g)] = loser_r[g]]
    /\ rated' = [rated EXCEPT ![g] = TRUE]
    /\ Goto(g, "leave")
    /\ UNCHANGED <<id, in_game, players, winner, loser, winner_r, loser_r, delta, stray, doubled>>

update_ratings(g) == GetWinner(g) \/ GetLoser(g) \/ SetWinner(g) \/ SetLoser(g) \/ Fails(g)

-----------------------------------------------------------------------------
\* The end of finish(): the players are told the ratings, and are free; its local
\* variables are no more.
Leave(g) ==
    /\ thread[g] = "leave"
    /\ in_game' = [p \in Client |-> in_game[p] /\ p \notin players[g]]
    /\ winner' = [winner EXCEPT ![g] = None]
    /\ loser' = [loser EXCEPT ![g] = None]
    /\ winner_r' = [winner_r EXCEPT ![g] = 0]
    /\ loser_r' = [loser_r EXCEPT ![g] = 0]
    /\ delta' = [delta EXCEPT ![g] = 0]
    /\ rated' = [rated EXCEPT ![g] = FALSE]
    /\ Goto(g, "finished")
    /\ UNCHANGED <<rating, id, players, stray, doubled>>

DeleteGame(g) ==
    /\ thread[g] = "finished"
    /\ Goto(g, "deleted")
    /\ UNCHANGED <<rating, id, in_game, players, winner, loser, winner_r, loser_r, delta, rated, stray, doubled>>

Next ==
    \E g \in Duel :
        \/ \E p, q \in Client : enter_game(g, p, q)
        \/ finish(g) \/ FinishAgain(g) \/ update_ratings(g) \/ Leave(g) \/ DeleteGame(g)

Spec == Init /\ [][Next]_vars

-----------------------------------------------------------------------------
(* What the ratings promise.                                               *)

\* The games that will take the points of a row with their next statement.
Owing(r) == {g \in Duel : thread[g] = "set_loser" /\ loser_id(g) = r}

OneOf(S) == CHOOSE x \in S : TRUE

\* What a row is about to lose is lost already.
Settled(r) == IF Owing(r) = {} THEN rating[r] ELSE loser_r[OneOf(Owing(r))]

Atomic == INSTANCE Transfer WITH rating <- [r \in Row \ doubled |-> Settled(r)]

\* The four statements of update_ratings are one transfer for the rows of which it
\* is true: a row that two games, or both sides of one, had at once (two clients of
\* one nickname, a game finished twice) may lose updates, but spoils no other row,
\* and the opponent of its player wins or loses exactly the points of his game.
ImplementsTransfer == Atomic!Spec

\* The rating that a player is told at the end is that of his row in the database,
\* unless the row was used twice at once; the row of his opponent does not matter.
ToldAsStored ==
    \A g \in Duel :
        thread[g] = "leave" /\ rated[g] =>
            /\ winner_id(g) \notin doubled => rating[winner_id(g)] = winner_r[g]
            /\ loser_id(g) \notin doubled => rating[loser_id(g)] = loser_r[g]

-----------------------------------------------------------------------------
(* The inductive invariant.                                                *)

Busy(g) == thread[g] \in {"running", "leave"} \cup Updating

\* The player of a row that was never used twice is in his game and in no other.
PlayersInGame ==
    \A g \in Duel : \A p \in players[g] : Busy(g) /\ id[p] \notin doubled =>
        /\ in_game[p]
        /\ \A h \in Duel \ {g} : Busy(h) => p \notin players[h]

TwoOfItsPlayers ==
    \A g \in Duel :
        /\ rated[g] => thread[g] = "leave"
        /\ thread[g] \in Updating \/ rated[g] =>
              winner[g] # loser[g] /\ winner[g] \in players[g] /\ loser[g] \in players[g]

\* What an update has read is what is stored, up to its own writes.
ReadIsCurrent ==
    \A g \in Duel :
        /\ thread[g] \in Updating /\ winner_id(g) \notin doubled =>
              /\ thread[g] = "get_loser" => winner_r[g] = rating[winner_id(g)]
              /\ thread[g] = "set_winner" => winner_r[g] = rating[winner_id(g)] + delta[g]
              /\ thread[g] = "set_loser" => winner_r[g] = rating[winner_id(g)]
        /\ thread[g] \in {"set_winner", "set_loser"} /\ loser_id(g) \notin doubled =>
              loser_r[g] = rating[loser_id(g)] - delta[g]

IInv ==
    /\ TypeOK /\ SharedRows \subseteq doubled
    /\ PlayersInGame /\ TwoOfItsPlayers /\ ReadIsCurrent /\ ToldAsStored

=============================================================================

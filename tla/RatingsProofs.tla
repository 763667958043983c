---------------------------- MODULE RatingsProofs ----------------------------
(***************************************************************************)
(* Ratings for every set of clients, rows and games, whatever rows the clients *)
(* share, and every formula: the four statements of update_ratings are one     *)
(* transfer of points for every row that is used once at a time.              *)
(***************************************************************************)
EXTENDS Ratings, TLAPS

\* Every step keeps the types.
LEMMA TypeStep == ASSUME TypeOK, TwoOfItsPlayers, [Next]_vars PROVE TypeOK'
<1> USE ConstantsAssumption DEF TypeOK, Updating, Goto
<1>1. ASSUME NEW g \in Duel, NEW p \in Client, NEW q \in Client, enter_game(g, p, q) PROVE TypeOK'
  <2>1. doubled' \subseteq Row
    BY <1>1 DEF enter_game, SharedRows
  <2>2. /\ players' \in [Duel -> SUBSET Client]
        /\ in_game' \in [Client -> BOOLEAN]
        /\ thread' \in [Duel -> {"none", "running", "leave", "finished", "deleted"} \cup Updating]
        /\ UNCHANGED <<rating, id, winner, loser, winner_r, loser_r, delta, rated, stray>>
    BY <1>1 DEF enter_game
  <2> QED
    BY <2>1, <2>2
<1>2. ASSUME NEW g \in Duel, finish(g) \/ FinishAgain(g) PROVE TypeOK'
  <2>1. /\ winner' \in [Duel -> Client \cup {None}]
        /\ loser' \in [Duel -> Client \cup {None}]
        /\ thread' \in [Duel -> {"none", "running", "leave", "finished", "deleted"} \cup Updating]
    BY <1>2 DEF finish, FinishAgain, Result
  <2>2. stray' \subseteq Duel /\ UNCHANGED <<rating, id, in_game, players, winner_r, loser_r, delta, rated>>
    BY <1>2 DEF finish, FinishAgain
  <2>3. doubled' \subseteq Row
    <3>1. \A p \in players[g] : id[p] \in Row
      OBVIOUS
    <3> QED
      BY <1>2, <3>1 DEF finish, FinishAgain
  <2> QED
    BY <2>1, <2>2, <2>3
<1>3. ASSUME NEW g \in Duel, update_ratings(g) PROVE TypeOK'
  <2>1. CASE GetWinner(g)
    <3>1. winner[g] \in Client /\ rating[winner_id(g)] \in Int
      BY <2>1 DEF GetWinner, TwoOfItsPlayers, winner_id
    <3> QED
      BY <2>1, <3>1 DEF GetWinner
  <2>2. CASE GetLoser(g)
    <3>1. loser[g] \in Client /\ rating[loser_id(g)] \in Int
      BY <2>2 DEF GetLoser, TwoOfItsPlayers, loser_id
    <3>2. PICK d \in 0 .. RATING_K :
            /\ delta' = [delta EXCEPT ![g] = d]
            /\ winner_r' = [winner_r EXCEPT ![g] = winner_r[g] + d]
            /\ loser_r' = [loser_r EXCEPT ![g] = rating[loser_id(g)] - d]
      BY <2>2 DEF GetLoser, Delta
    <3>3. winner_r[g] + d \in Int /\ rating[loser_id(g)] - d \in Int
      BY <3>1
    <3>4. delta' \in [Duel -> 0 .. RATING_K]
      BY <3>2
    <3>5. winner_r' \in [Duel -> Int] /\ loser_r' \in [Duel -> Int]
      BY <3>2, <3>3
    <3>6. /\ thread' = [thread EXCEPT ![g] = "set_winner"]
          /\ UNCHANGED <<rating, id, in_game, players, winner, loser, rated, stray, doubled>>
      BY <2>2 DEF GetLoser, Goto
    <3>7. thread' \in [Duel -> {"none", "running", "leave", "finished", "deleted"} \cup Updating]
      BY <3>6
    <3> QED
      BY <3>4, <3>5, <3>6, <3>7
  <2>3. CASE SetWinner(g) \/ SetLoser(g)
    <3>1. rating' \in [Row -> Int]
      BY <2>3 DEF SetWinner, SetLoser
    <3>2. rated' \in [Duel -> BOOLEAN]
      BY <2>3 DEF SetWinner, SetLoser
    <3>3. thread' \in [Duel -> {"none", "running", "leave", "finished", "deleted"} \cup Updating]
      BY <2>3 DEF SetWinner, SetLoser
    <3>4. UNCHANGED <<id, in_game, players, winner, loser, winner_r, loser_r, delta, stray, doubled>>
      BY <2>3 DEF SetWinner, SetLoser
    <3> QED
      BY <3>1, <3>2, <3>3, <3>4
  <2>4. CASE Fails(g)
    BY <2>4 DEF Fails
  <2> QED
    BY <1>3, <2>1, <2>2, <2>3, <2>4 DEF update_ratings
<1>4. ASSUME NEW g \in Duel, Leave(g) PROVE TypeOK'
  <2>1. in_game' \in [Client -> BOOLEAN]
    BY <1>4 DEF Leave
  <2>2. delta' \in [Duel -> 0 .. RATING_K] /\ rated' \in [Duel -> BOOLEAN]
    BY <1>4 DEF Leave
  <2> QED
    BY <1>4, <2>1, <2>2 DEF Leave
<1>5. ASSUME NEW g \in Duel, DeleteGame(g) PROVE TypeOK'
  BY <1>5 DEF DeleteGame
<1>6. CASE UNCHANGED vars
  BY <1>6 DEF vars
<1> QED
  BY <1>1, <1>2, <1>3, <1>4, <1>5, <1>6 DEF Next

-----------------------------------------------------------------------------
(* The inductive invariant.                                                *)

\* A row that was never used twice has one player in one game at a time.
LEMMA OnePlayer ==
    ASSUME TypeOK, SharedRows \subseteq doubled, PlayersInGame,
           NEW g \in Duel, NEW h \in Duel, Busy(g), Busy(h),
           NEW p \in players[g], NEW q \in players[h], id[p] = id[q], id[p] \notin doubled
    PROVE  g = h /\ p = q
<1>1. p \in Client /\ q \in Client /\ id[p] \in Row
  BY DEF TypeOK
<1>2. in_game[p] /\ in_game[q]
  BY DEF PlayersInGame
<1>3. p = q
  BY <1>1, <1>2 DEF SharedRows
<1>4. g = h
  BY <1>3 DEF PlayersInGame
<1> QED
  BY <1>3, <1>4

\* A game that updates the ratings goes on, and its winner and loser play it.
LEMMA Updates ==
    ASSUME TypeOK, TwoOfItsPlayers, NEW g \in Duel, thread[g] \in Updating \/ rated[g]
    PROVE  /\ Busy(g) /\ winner[g] # loser[g]
           /\ winner[g] \in players[g] /\ loser[g] \in players[g]
           /\ winner[g] \in Client /\ loser[g] \in Client
           /\ winner_id(g) \in Row /\ loser_id(g) \in Row
<1>1. winner[g] \in players[g] /\ loser[g] \in players[g] /\ winner[g] # loser[g]
  BY DEF TwoOfItsPlayers
<1>2. winner[g] \in Client /\ loser[g] \in Client
  BY <1>1 DEF TypeOK
<1>3. Busy(g)
  BY DEF Busy, TwoOfItsPlayers
<1> QED
  BY <1>1, <1>2, <1>3 DEF TypeOK, winner_id, loser_id

\* The two rows of a game differ, if one of them was never used twice.
LEMMA TwoRows ==
    ASSUME IInv, NEW g \in Duel, thread[g] \in Updating \/ rated[g],
           winner_id(g) \notin doubled \/ loser_id(g) \notin doubled
    PROVE  winner_id(g) # loser_id(g)
<1>1. /\ Busy(g) /\ winner[g] # loser[g]
      /\ winner[g] \in players[g] /\ loser[g] \in players[g]
  BY Updates DEF IInv
<1> QED
  BY <1>1, OnePlayer DEF IInv, winner_id, loser_id

\* The rows that one game writes are not those of another, unless used twice.
LEMMA OtherRows ==
    ASSUME IInv, NEW g \in Duel, NEW h \in Duel \ {g}, thread[g] \in Updating,
           thread[h] \in Updating \/ rated[h], NEW r \in {winner_id(h), loser_id(h)}, r \notin doubled
    PROVE  r # winner_id(g) /\ r # loser_id(g)
<1>1. /\ Busy(g) /\ winner[g] \in players[g] /\ loser[g] \in players[g]
      /\ Busy(h) /\ winner[h] \in players[h] /\ loser[h] \in players[h]
  BY Updates DEF IInv
<1> QED
  BY <1>1, OnePlayer DEF IInv, winner_id, loser_id

\* A step that leaves the players, their rows, and which games go on, alone.
LEMMA SamePlayers ==
    ASSUME SharedRows \subseteq doubled, PlayersInGame,
           UNCHANGED <<players, id, in_game, doubled>>,
           \A g \in Duel : Busy(g)' => Busy(g)
    PROVE  PlayersInGame' /\ SharedRows' \subseteq doubled'
BY DEF PlayersInGame, SharedRows

LEMMA PlayersInGameStep == ASSUME IInv, [Next]_vars PROVE PlayersInGame' /\ SharedRows' \subseteq doubled'
<1> USE DEF IInv, TypeOK, Updating
<1>1. ASSUME NEW g \in Duel, NEW p \in Client, NEW q \in Client, enter_game(g, p, q)
      PROVE  PlayersInGame' /\ SharedRows' \subseteq doubled'
  <2>1. SharedRows' \subseteq doubled' /\ doubled \subseteq doubled' /\ id' = id
    BY <1>1 DEF enter_game
  <2>2. /\ players'[g] = {p, q} /\ ~in_game[p] /\ ~in_game[q]
        /\ \A k \in Duel \ {g} : players'[k] = players[k] /\ (Busy(k)' <=> Busy(k))
    BY <1>1 DEF enter_game, Goto, Busy
  <2>3. \A x \in Client : in_game'[x] <=> in_game[x] \/ x \in {p, q}
    BY <1>1 DEF enter_game
  <2> SUFFICES ASSUME NEW h \in Duel, NEW x \in players'[h], Busy(h)', id[x] \notin doubled
               PROVE  /\ in_game'[x]
                      /\ \A k \in Duel \ {h} : Busy(k)' => x \notin players'[k]
    BY <2>1 DEF PlayersInGame
  <2>4. \A k \in Duel \ {g} : Busy(k) /\ x \in players[k] => in_game[x]
    BY DEF PlayersInGame
  <2>5. CASE h = g
    BY <2>2, <2>3, <2>4, <2>5
  <2>6. CASE h # g
    <3>1. x \in Client /\ in_game[x] /\ x \in players[h] /\ Busy(h)
      BY <2>2, <2>4, <2>6
    <3>2. x \notin {p, q}
      BY <2>2, <3>1
    <3>3. \A k \in Duel \ {h} : Busy(k) => x \notin players[k]
      BY <3>1 DEF PlayersInGame
    <3> QED
      BY <2>2, <2>3, <3>1, <3>2, <3>3
  <2> QED
    BY <2>5, <2>6
<1>2. ASSUME NEW g \in Duel, finish(g) PROVE PlayersInGame' /\ SharedRows' \subseteq doubled'
  <2>1. thread[g] = "running" /\ \A h \in Duel \ {g} : thread'[h] = thread[h]
    BY <1>2 DEF finish, Result, Goto
  <2>2. \A h \in Duel : Busy(h)' => Busy(h)
    BY <2>1 DEF Busy
  <2> QED
    BY <1>2, <2>2, SamePlayers DEF finish
<1>3. ASSUME NEW g \in Duel, FinishAgain(g) PROVE PlayersInGame' /\ SharedRows' \subseteq doubled'
  <2>1. /\ UNCHANGED <<players, id, in_game>>
        /\ doubled' = doubled \cup {id[p] : p \in players[g]}
        /\ \A h \in Duel \ {g} : thread'[h] = thread[h]
    BY <1>3 DEF FinishAgain, Result, Goto
  <2>2. SharedRows' \subseteq doubled'
    BY <2>1 DEF SharedRows
  <2> SUFFICES ASSUME NEW h \in Duel, NEW x \in players[h], Busy(h)', id[x] \notin doubled'
               PROVE  /\ in_game[x]
                      /\ \A k \in Duel \ {h} : Busy(k)' => x \notin players[k]
    BY <2>1, <2>2 DEF PlayersInGame
  <2>3. x \notin players[g] /\ id[x] \notin doubled
    BY <2>1
  <2>4. \A k \in Duel \ {g} : Busy(k)' => Busy(k)
    BY <2>1 DEF Busy
  <2> QED
    BY <2>3, <2>4 DEF PlayersInGame
<1>4. ASSUME NEW g \in Duel, update_ratings(g) PROVE PlayersInGame' /\ SharedRows' \subseteq doubled'
  <2>1. /\ thread[g] \in Updating /\ \A h \in Duel \ {g} : thread'[h] = thread[h]
        /\ UNCHANGED <<players, id, in_game, doubled>>
    BY <1>4 DEF update_ratings, GetWinner, GetLoser, SetWinner, SetLoser, Fails, Goto
  <2>2. \A h \in Duel : Busy(h)' => Busy(h)
    BY <2>1 DEF Busy
  <2> QED
    BY <2>1, <2>2, SamePlayers
<1>5. ASSUME NEW g \in Duel, Leave(g) PROVE PlayersInGame' /\ SharedRows' \subseteq doubled'
  <2>1. /\ thread[g] = "leave" /\ thread'[g] = "finished"
        /\ \A k \in Duel \ {g} : thread'[k] = thread[k]
        /\ UNCHANGED <<players, id, doubled>>
    BY <1>5 DEF Leave, Goto
  <2>2. \A x \in Client : in_game'[x] <=> in_game[x] /\ x \notin players[g]
    BY <1>5 DEF Leave
  <2>3. SharedRows' \subseteq doubled'
    BY <2>1, <2>2 DEF SharedRows
  <2> SUFFICES ASSUME NEW h \in Duel, NEW x \in players[h], Busy(h)', id[x] \notin doubled
               PROVE  /\ in_game'[x]
                      /\ \A k \in Duel \ {h} : Busy(k)' => x \notin players[k]
    BY <2>1, <2>3 DEF PlayersInGame
  <2>4. Busy(g) /\ h # g /\ \A k \in Duel : Busy(k)' => Busy(k)
    BY <2>1 DEF Busy
  <2>5. in_game[x] /\ x \in Client /\ \A k \in Duel \ {h} : Busy(k) => x \notin players[k]
    BY <2>4 DEF PlayersInGame
  <2> QED
    BY <2>2, <2>4, <2>5
<1>6. ASSUME NEW g \in Duel, DeleteGame(g) PROVE PlayersInGame' /\ SharedRows' \subseteq doubled'
  <2>1. \A h \in Duel : Busy(h)' => Busy(h)
    BY <1>6 DEF DeleteGame, Goto, Busy
  <2> QED
    BY <1>6, <2>1, SamePlayers DEF DeleteGame
<1>7. CASE UNCHANGED vars
  BY <1>7, SamePlayers DEF vars, Busy
<1> QED
  BY <1>1, <1>2, <1>3, <1>4, <1>5, <1>6, <1>7 DEF Next

LEMMA TwoOfItsPlayersStep == ASSUME IInv, [Next]_vars PROVE TwoOfItsPlayers'
<1> USE ConstantsAssumption DEF IInv, TypeOK, Updating, TwoOfItsPlayers, Goto
<1>1. ASSUME NEW g \in Duel, NEW p \in Client, NEW q \in Client, enter_game(g, p, q)
      PROVE  TwoOfItsPlayers'
  BY <1>1 DEF enter_game
<1>2. ASSUME NEW g \in Duel, finish(g) \/ FinishAgain(g) PROVE TwoOfItsPlayers'
  <2>1. /\ UNCHANGED <<players, rated>>
        /\ ~rated[g]
        /\ \A h \in Duel \ {g} : /\ thread'[h] = thread[h]
                                 /\ winner'[h] = winner[h] /\ loser'[h] = loser[h]
    BY <1>2 DEF finish, FinishAgain, Result
  <2>2. \/ /\ winner'[g] # loser'[g] /\ winner'[g] \in players[g] /\ loser'[g] \in players[g]
           /\ thread'[g] = "get_winner"
        \/ thread'[g] = "leave"
    BY <1>2 DEF finish, FinishAgain, Result
  <2> QED
    BY <2>1, <2>2
<1>3. ASSUME NEW g \in Duel, update_ratings(g) PROVE TwoOfItsPlayers'
  <2>1. CASE SetLoser(g)
    <3>1. /\ thread[g] = "set_loser" /\ thread'[g] = "leave" /\ UNCHANGED <<players, winner, loser>>
          /\ \A h \in Duel \ {g} : thread'[h] = thread[h] /\ rated'[h] = rated[h]
      BY <2>1 DEF SetLoser
    <3> QED
      BY <3>1
  <2>2. CASE GetWinner(g) \/ GetLoser(g) \/ SetWinner(g) \/ Fails(g)
    <3>1. /\ thread[g] \in Updating /\ thread'[g] \in Updating \cup {"leave"}
          /\ UNCHANGED <<players, winner, loser, rated>>
          /\ \A h \in Duel \ {g} : thread'[h] = thread[h]
      BY <2>2 DEF GetWinner, GetLoser, SetWinner, Fails
    <3>2. ~rated[g]
      BY <3>1
    <3> QED
      BY <3>1, <3>2
  <2> QED
    BY <1>3, <2>1, <2>2 DEF update_ratings
<1>4. ASSUME NEW g \in Duel, Leave(g) PROVE TwoOfItsPlayers'
  <2>1. /\ thread'[g] = "finished" /\ ~rated'[g] /\ UNCHANGED players
        /\ \A h \in Duel \ {g} : /\ thread'[h] = thread[h] /\ rated'[h] = rated[h]
                                 /\ winner'[h] = winner[h] /\ loser'[h] = loser[h]
    <3>1. rated' = [rated EXCEPT ![g] = FALSE]
      BY <1>4 DEF Leave
    <3>2. ~rated'[g]
      BY <3>1
    <3> QED
      BY <1>4, <3>2 DEF Leave
  <2> QED
    BY <2>1
<1>5. ASSUME NEW g \in Duel, DeleteGame(g) PROVE TwoOfItsPlayers'
  BY <1>5 DEF DeleteGame
<1>6. CASE UNCHANGED vars
  BY <1>6 DEF vars
<1> QED
  BY <1>1, <1>2, <1>3, <1>4, <1>5, <1>6 DEF Next

\* What an update has read stays current, and what a game will tell stays stored.
LEMMA RowsStep == ASSUME IInv, [Next]_vars PROVE ReadIsCurrent' /\ ToldAsStored'
<1> USE DEF IInv, TypeOK, Updating, Goto, ReadIsCurrent, ToldAsStored, winner_id, loser_id
<1>1. ASSUME NEW g \in Duel, NEW p \in Client, NEW q \in Client, enter_game(g, p, q)
      PROVE  ReadIsCurrent' /\ ToldAsStored'
  <2>1. /\ UNCHANGED <<rating, id, winner, loser, winner_r, loser_r, delta, rated>>
        /\ doubled \subseteq doubled'
        /\ thread'[g] = "running" /\ \A h \in Duel \ {g} : thread'[h] = thread[h]
    BY <1>1 DEF enter_game
  <2> QED
    BY <2>1
<1>2. ASSUME NEW g \in Duel, finish(g) \/ FinishAgain(g) PROVE ReadIsCurrent' /\ ToldAsStored'
  <2>1. /\ UNCHANGED <<rating, id, winner_r, loser_r, delta, rated>>
        /\ doubled \subseteq doubled'
        /\ ~rated[g] /\ thread'[g] \in {"get_winner", "leave"}
        /\ \A h \in Duel \ {g} : /\ thread'[h] = thread[h]
                                 /\ winner'[h] = winner[h] /\ loser'[h] = loser[h]
    BY <1>2 DEF finish, FinishAgain, Result, TwoOfItsPlayers
  <2> QED
    BY <2>1
<1>3. ASSUME NEW g \in Duel, GetWinner(g) PROVE ReadIsCurrent' /\ ToldAsStored'
  <2>1. /\ UNCHANGED <<rating, id, winner, loser, loser_r, delta, rated, doubled>>
        /\ thread'[g] = "get_loser" /\ winner_r'[g] = rating[winner_id(g)]
        /\ \A h \in Duel \ {g} : thread'[h] = thread[h] /\ winner_r'[h] = winner_r[h]
    BY <1>3 DEF GetWinner
  <2>2. ~rated[g]
    BY <1>3 DEF GetWinner, TwoOfItsPlayers
  <2> QED
    BY <2>1, <2>2
<1>4. ASSUME NEW g \in Duel, GetLoser(g) PROVE ReadIsCurrent' /\ ToldAsStored'
  <2>1. /\ UNCHANGED <<rating, id, winner, loser, rated, doubled>>
        /\ thread[g] = "get_loser" /\ thread'[g] = "set_winner"
        /\ \A h \in Duel \ {g} : /\ thread'[h] = thread[h] /\ winner_r'[h] = winner_r[h]
                                 /\ loser_r'[h] = loser_r[h] /\ delta'[h] = delta[h]
    BY <1>4 DEF GetLoser
  <2>2. winner_r'[g] = winner_r[g] + delta'[g] /\ loser_r'[g] = rating[loser_id(g)] - delta'[g]
    BY <1>4 DEF GetLoser
  <2>3. ~rated[g]
    BY <2>1 DEF TwoOfItsPlayers
  <2> QED
    BY <2>1, <2>2, <2>3
<1>5. ASSUME NEW g \in Duel, SetWinner(g) PROVE ReadIsCurrent' /\ ToldAsStored'
  <2>1. /\ UNCHANGED <<id, winner, loser, winner_r, loser_r, delta, rated, doubled>>
        /\ thread[g] = "set_winner" /\ thread'[g] = "set_loser" /\ ~rated[g]
        /\ \A h \in Duel \ {g} : thread'[h] = thread[h]
    BY <1>5 DEF SetWinner, TwoOfItsPlayers
  <2>2. winner_id(g) \in Row /\ loser_id(g) \in Row
    BY <2>1, Updates
  <2>3. /\ rating'[winner_id(g)] = winner_r[g]
        /\ \A r \in Row \ {winner_id(g)} : rating'[r] = rating[r]
    BY <1>5, <2>2 DEF SetWinner
  <2>4. loser_id(g) \notin doubled => rating'[loser_id(g)] = rating[loser_id(g)]
    BY <2>1, <2>2, <2>3, TwoRows
  <2>5. \A h \in Duel \ {g} : thread[h] \in Updating \/ rated[h] =>
            /\ winner_id(h) \notin doubled => rating'[winner_id(h)] = rating[winner_id(h)]
            /\ loser_id(h) \notin doubled => rating'[loser_id(h)] = rating[loser_id(h)]
    BY <2>1, <2>3, OtherRows, Updates
  <2>6. ReadIsCurrent'
    BY <2>1, <2>3, <2>4, <2>5
  <2>7. ToldAsStored'
    BY <2>1, <2>5
  <2> QED
    BY <2>6, <2>7
<1>6. ASSUME NEW g \in Duel, SetLoser(g) PROVE ReadIsCurrent' /\ ToldAsStored'
  <2>1. /\ UNCHANGED <<id, winner, loser, winner_r, loser_r, delta, doubled>>
        /\ thread[g] = "set_loser" /\ thread'[g] = "leave"
        /\ \A h \in Duel \ {g} : thread'[h] = thread[h] /\ (rated'[h] <=> rated[h])
    BY <1>6 DEF SetLoser
  <2>2. winner_id(g) \in Row /\ loser_id(g) \in Row
    BY <2>1, Updates
  <2>3. /\ rating'[loser_id(g)] = loser_r[g]
        /\ \A r \in Row \ {loser_id(g)} : rating'[r] = rating[r]
    BY <1>6, <2>2 DEF SetLoser
  <2>4. winner_id(g) \notin doubled => rating'[winner_id(g)] = winner_r[g]
    BY <2>1, <2>2, <2>3, TwoRows
  <2>5. \A h \in Duel \ {g} : thread[h] \in Updating \/ rated[h] =>
            /\ winner_id(h) \notin doubled => rating'[winner_id(h)] = rating[winner_id(h)]
            /\ loser_id(h) \notin doubled => rating'[loser_id(h)] = rating[loser_id(h)]
    BY <2>1, <2>3, OtherRows, Updates
  <2>6. ReadIsCurrent'
    BY <2>1, <2>5
  <2>7. ToldAsStored'
    BY <2>1, <2>3, <2>4, <2>5
  <2> QED
    BY <2>6, <2>7
<1>7. ASSUME NEW g \in Duel, Fails(g) PROVE ReadIsCurrent' /\ ToldAsStored'
  <2>1. ~rated[g]
    BY <1>7 DEF Fails, TwoOfItsPlayers
  <2> QED
    BY <1>7, <2>1 DEF Fails
<1>8. ASSUME NEW g \in Duel, Leave(g) PROVE ReadIsCurrent' /\ ToldAsStored'
  <2>1. /\ UNCHANGED <<rating, id, doubled>> /\ thread'[g] = "finished"
        /\ \A h \in Duel \ {g} : /\ thread'[h] = thread[h] /\ winner_r'[h] = winner_r[h]
                                 /\ loser_r'[h] = loser_r[h] /\ delta'[h] = delta[h]
                                 /\ winner'[h] = winner[h] /\ loser'[h] = loser[h]
    BY <1>8 DEF Leave
  <2>2. \A h \in Duel \ {g} : rated'[h] => rated[h]
    BY <1>8 DEF Leave
  <2> QED
    BY <2>1, <2>2
<1>9. ASSUME NEW g \in Duel, DeleteGame(g) PROVE ReadIsCurrent' /\ ToldAsStored'
  BY <1>9 DEF DeleteGame
<1>10. CASE UNCHANGED vars
  BY <1>10 DEF vars
<1> QED
  BY <1>1, <1>2, <1>3, <1>4, <1>5, <1>6, <1>7, <1>8, <1>9, <1>10 DEF Next, update_ratings

LEMMA InitCase == Init => IInv
<1> SUFFICES ASSUME Init PROVE IInv
  OBVIOUS
<1>1. TypeOK
  <2>1. rated \in [Duel -> BOOLEAN] /\ in_game \in [Client -> BOOLEAN]
    BY DEF Init
  <2>2. delta \in [Duel -> 0 .. RATING_K]
    BY ConstantsAssumption DEF Init
  <2> QED
    BY <2>1, <2>2, ConstantsAssumption DEF Init, TypeOK
<1>2. \A g \in Duel : thread[g] = "none" /\ ~rated[g]
  BY DEF Init
<1>3. PlayersInGame /\ TwoOfItsPlayers /\ ReadIsCurrent /\ ToldAsStored
  BY <1>2 DEF PlayersInGame, TwoOfItsPlayers, ReadIsCurrent, ToldAsStored, Busy, Updating
<1>4. SharedRows = {}
  BY DEF Init, SharedRows
<1> QED
  BY <1>1, <1>3, <1>4 DEF IInv

\* IInv is inductive: what an update has read of a row that was never used twice is
\* what is stored there, up to its own writes, whatever happens to other rows.
THEOREM IInvCorrect == Spec => []IInv
<1>1. IInv /\ [Next]_vars => IInv'
  <2> SUFFICES ASSUME IInv, [Next]_vars PROVE IInv'
    OBVIOUS
  <2>1. TypeOK'
    BY TypeStep DEF IInv
  <2> QED
    BY <2>1, PlayersInGameStep, TwoOfItsPlayersStep, RowsStep DEF IInv
<1> QED
  BY <1>1, InitCase, PTL DEF Spec

\* The types of the rows, of the variables of update_ratings and of the points given.
THEOREM TypeCorrect == Spec => []TypeOK
<1>1. IInv => TypeOK
  BY DEF IInv
<1> QED
  BY <1>1, IInvCorrect, PTL

\* The ratings that finish() tells the players are those of the database, for every
\* row that was never used twice at once.
THEOREM ToldCorrect == Spec => []ToldAsStored
<1>1. IInv => ToldAsStored
  BY DEF IInv
<1> QED
  BY <1>1, IInvCorrect, PTL

-----------------------------------------------------------------------------
(* Ratings implements Transfer.                                            *)

Counted == [r \in Row \ doubled |-> Settled(r)]

LEMMA AnyOf == ASSUME NEW x PROVE OneOf({x}) = x
BY DEF OneOf

\* A row that nobody is about to change, and one that g is about to change.
LEMMA SettledRow ==
    ASSUME NEW r \in Row
    PROVE  /\ Owing(r) = {} => Settled(r) = rating[r]
           /\ \A g \in Duel : Owing(r) = {g} => Settled(r) = loser_r[g]
BY AnyOf DEF Settled

LEMMA SettledRowNext ==
    ASSUME NEW r \in Row
    PROVE  /\ Owing(r)' = {} => Settled(r)' = rating'[r]
           /\ \A g \in Duel : Owing(r)' = {g} => Settled(r)' = loser_r'[g]
BY AnyOf DEF Settled

\* A step that leaves a row, and the games that owe it, alone.
LEMMA SettledSame ==
    ASSUME NEW r \in Row, rating'[r] = rating[r], Owing(r)' = Owing(r),
           \A h \in Owing(r) : loser_r'[h] = loser_r[h]
    PROVE  Settled(r)' = Settled(r)
<1>1. CASE Owing(r) = {}
  BY <1>1 DEF Settled
<1>2. CASE Owing(r) # {}
  <2>1. OneOf(Owing(r)) \in Owing(r)
    BY <1>2 DEF OneOf
  <2>2. loser_r'[OneOf(Owing(r))] = loser_r[OneOf(Owing(r))]
    BY <2>1
  <2>3. Settled(r)' = loser_r'[OneOf(Owing(r)')]
    BY <1>2 DEF Settled
  <2> QED
    BY <1>2, <2>2, <2>3 DEF Settled
<1> QED
  BY <1>1, <1>2

\* While an update writes, no other game owes its rows anything.
LEMMA OnlyOwn ==
    ASSUME IInv, NEW g \in Duel, thread[g] \in Updating,
           NEW r \in {winner_id(g), loser_id(g)}, r \notin doubled
    PROVE  Owing(r) = IF thread[g] = "set_loser" /\ loser_id(g) = r THEN {g} ELSE {}
<1>1. ASSUME NEW h \in Duel \ {g}, thread[h] = "set_loser" PROVE loser_id(h) # r
  <2>1. thread[h] \in Updating
    BY <1>1 DEF Updating
  <2> QED
    BY <2>1, OtherRows
<1> QED
  BY <1>1 DEF Owing

\* Steps that write no row, and fail in no update: what is owed stays, and rows are
\* excluded at most.
LEMMA QuietStep ==
    ASSUME IInv, [Next]_vars, NEW g \in Duel,
           \/ \E p, q \in Client : enter_game(g, p, q)
           \/ finish(g) \/ FinishAgain(g) \/ GetWinner(g) \/ GetLoser(g) \/ Leave(g) \/ DeleteGame(g)
           \/ Fails(g) /\ thread[g] # "set_loser"
    PROVE  doubled' \in SUBSET Row /\ Counted' = [r \in (Row \ doubled) \ doubled' |-> Counted[r]]
<1> USE DEF IInv, TypeOK, Updating, Goto
<1>1. /\ UNCHANGED <<rating, id>>
      /\ doubled \subseteq doubled'
      /\ thread[g] # "set_loser" /\ thread'[g] # "set_loser"
      /\ \A h \in Duel \ {g} : thread'[h] = thread[h] /\ loser'[h] = loser[h] /\ loser_r'[h] = loser_r[h]
  <2>1. CASE \E p, q \in Client : enter_game(g, p, q)
    BY <2>1 DEF enter_game
  <2>2. CASE finish(g) \/ FinishAgain(g)
    BY <2>2 DEF finish, FinishAgain, Result
  <2>3. CASE GetWinner(g) \/ GetLoser(g)
    BY <2>3 DEF GetWinner, GetLoser
  <2>4. CASE Leave(g) \/ DeleteGame(g)
    BY <2>4 DEF Leave, DeleteGame
  <2>5. CASE Fails(g) /\ thread[g] # "set_loser"
    BY <2>5 DEF Fails
  <2> QED
    BY <2>1, <2>2, <2>3, <2>4, <2>5
<1>2. ASSUME NEW r \in Row PROVE Settled(r)' = Settled(r)
  <2>1. Owing(r)' = Owing(r) /\ g \notin Owing(r)
    BY <1>1 DEF Owing, loser_id
  <2>2. \A h \in Owing(r) : loser_r'[h] = loser_r[h]
    BY <1>1, <2>1 DEF Owing
  <2> QED
    BY <1>1, <2>1, <2>2, SettledSame
<1>3. doubled' \in SUBSET Row
  BY TypeStep
<1>4. Row \ doubled' = (Row \ doubled) \ doubled'
  BY <1>1
<1> QED
  BY <1>2, <1>3, <1>4 DEF Counted

\* The first write is the transfer.
LEMMA SetWinnerGives ==
    ASSUME IInv, NEW g \in Duel, SetWinner(g)
    PROVE  \/ \E w, l \in Row : Atomic!Give(w, l)
           \/ Counted' = Counted
<1> USE DEF IInv, TypeOK, Updating, Goto
<1>1. /\ thread[g] = "set_winner" /\ thread'[g] = "set_loser"
      /\ UNCHANGED <<id, loser, loser_r, doubled>>
      /\ \A h \in Duel \ {g} : thread'[h] = thread[h]
  BY DEF SetWinner
<1>2. PICK w \in Row, l \in Row : w = winner_id(g) /\ l = loser_id(g)
  BY <1>1, Updates
<1>3. PICK d \in 0 .. RATING_K : d = delta[g]
  OBVIOUS
<1>4. rating'[w] = winner_r[g] /\ \A r \in Row \ {w} : rating'[r] = rating[r]
  BY <1>2 DEF SetWinner
<1>5. /\ w \notin doubled => rating'[w] = rating[w] + d
      /\ l \notin doubled => loser_r[g] = rating[l] - d
  BY <1>1, <1>2, <1>3, <1>4 DEF ReadIsCurrent
<1>6. w \notin doubled \/ l \notin doubled => w # l
  BY <1>1, <1>2, TwoRows
<1>7. loser_id(g)' = l /\ \A h \in Duel \ {g} : loser_id(h)' = loser_id(h)
  BY <1>1, <1>2 DEF loser_id
<1>8. ASSUME w \notin doubled PROVE Settled(w)' = Settled(w) + d
  <2>1. Owing(w) = {}
    BY <1>1, <1>2, <1>8, OnlyOwn
  <2>2. Owing(w)' = {}
    BY <1>1, <1>6, <1>7, <1>8, <2>1 DEF Owing
  <2> QED
    BY <1>5, <1>8, <2>1, <2>2, SettledRow, SettledRowNext
<1>9. ASSUME l \notin doubled PROVE Settled(l)' = Settled(l) - d
  <2>1. Owing(l) = {}
    BY <1>1, <1>2, <1>9, OnlyOwn
  <2>2. Owing(l)' = {g}
    BY <1>1, <1>7, <2>1 DEF Owing
  <2>3. Settled(l) = rating[l] /\ Settled(l)' = loser_r[g]
    BY <1>1, <2>1, <2>2, SettledRow, SettledRowNext
  <2> QED
    BY <1>5, <1>9, <2>3
<1>10. ASSUME NEW r \in Row \ {w, l} PROVE Settled(r)' = Settled(r)
  <2>1. Owing(r)' = Owing(r)
    BY <1>1, <1>2, <1>7 DEF Owing
  <2>2. rating'[r] = rating[r] /\ loser_r' = loser_r
    BY <1>1, <1>4
  <2> QED
    BY <2>1, <2>2, SettledSame
<1>11. CASE w \in doubled /\ l \in doubled
  <2>1. \A r \in Row \ doubled : Settled(r)' = Settled(r)
    BY <1>10, <1>11
  <2> QED
    BY <1>1, <2>1 DEF Counted
<1>12. CASE w \notin doubled \/ l \notin doubled
  <2>1. ASSUME NEW r \in Row \ doubled
        PROVE  Settled(r)' = Counted[r] + (IF r = w THEN d ELSE 0) - (IF r = l THEN d ELSE 0)
    <3>1. Counted[r] = Settled(r) /\ Settled(r) \in Int
      <4>1. Owing(r) # {} => OneOf(Owing(r)) \in Duel
        BY DEF OneOf, Owing
      <4> QED
        BY <4>1 DEF Counted, Settled
    <3>2. CASE r = w
      BY <1>6, <1>8, <1>12, <3>1, <3>2
    <3>3. CASE r = l
      BY <1>6, <1>9, <1>12, <3>1, <3>3
    <3>4. CASE r \notin {w, l}
      BY <1>10, <3>1, <3>4
    <3> QED
      BY <3>2, <3>3, <3>4
  <2>2. Counted' = [r \in DOMAIN Counted |->
                       Counted[r] + (IF r = w THEN d ELSE 0) - (IF r = l THEN d ELSE 0)]
    BY <1>1, <2>1 DEF Counted
  <2>3. Atomic!Give(w, l)
    BY <1>6, <1>12, <2>2 DEF Atomic!Give, Counted
  <2> QED
    BY <2>3
<1> QED
  BY <1>11, <1>12

\* The second one writes what was settled by the first.
LEMMA SetLoserSettles ==
    ASSUME IInv, NEW g \in Duel, SetLoser(g)
    PROVE  Counted' = Counted
<1> USE DEF IInv, TypeOK, Updating, Goto
<1>1. /\ thread[g] = "set_loser" /\ thread'[g] = "leave"
      /\ UNCHANGED <<id, loser, loser_r, doubled>>
      /\ \A h \in Duel \ {g} : thread'[h] = thread[h]
  BY DEF SetLoser
<1>2. PICK l \in Row : l = loser_id(g)
  BY <1>1, Updates
<1>3. rating'[l] = loser_r[g] /\ \A r \in Row \ {l} : rating'[r] = rating[r]
  BY <1>2 DEF SetLoser
<1>4. \A h \in Duel : loser_id(h)' = loser_id(h)
  BY <1>1 DEF loser_id
<1>5. ASSUME l \notin doubled PROVE Settled(l)' = Settled(l)
  <2>1. Owing(l) = {g}
    BY <1>1, <1>2, <1>5, OnlyOwn
  <2>2. Owing(l)' = {}
    BY <1>1, <1>4, <2>1 DEF Owing
  <2> QED
    BY <1>3, <2>1, <2>2, SettledRow, SettledRowNext
<1>6. ASSUME NEW r \in Row \ {l} PROVE Settled(r)' = Settled(r)
  <2>1. Owing(r)' = Owing(r)
    BY <1>1, <1>2, <1>4 DEF Owing
  <2>2. rating'[r] = rating[r] /\ loser_r' = loser_r
    BY <1>1, <1>3
  <2> QED
    BY <2>1, <2>2, SettledSame
<1> QED
  BY <1>1, <1>5, <1>6 DEF Counted

\* A failure between the two writes leaves the loser his points.
LEMMA FailureForgets ==
    ASSUME IInv, NEW g \in Duel, Fails(g), thread[g] = "set_loser"
    PROVE  \E l \in Row : Atomic!ForgetLoss(l)
<1> USE DEF IInv, TypeOK, Updating, Goto
<1>1. /\ thread'[g] = "leave" /\ UNCHANGED <<rating, id, loser, loser_r, doubled>>
      /\ \A h \in Duel \ {g} : thread'[h] = thread[h]
  BY DEF Fails
<1>2. PICK l \in Row : l = loser_id(g)
  BY Updates
<1>3. PICK d \in 0 .. RATING_K : d = delta[g]
  OBVIOUS
<1>4. \A h \in Duel : loser_id(h)' = loser_id(h)
  BY <1>1 DEF loser_id
<1>5. ASSUME l \notin doubled PROVE Settled(l)' = Settled(l) + d
  <2>1. loser_r[g] = rating[l] - d /\ rating[l] \in Int /\ d \in Int
    BY <1>2, <1>3, <1>5 DEF ReadIsCurrent
  <2>2. Owing(l) = {g}
    BY <1>2, <1>5, OnlyOwn
  <2>3. Owing(l)' = {}
    BY <1>1, <1>4, <2>2 DEF Owing
  <2>4. Settled(l) = loser_r[g] /\ Settled(l)' = rating[l]
    BY <1>1, <2>2, <2>3, SettledRow, SettledRowNext
  <2> QED
    BY <2>1, <2>4
<1>6. ASSUME NEW r \in Row \ {l} PROVE Settled(r)' = Settled(r)
  <2>1. Owing(r)' = Owing(r)
    BY <1>1, <1>2, <1>4 DEF Owing
  <2>2. rating' = rating /\ loser_r' = loser_r
    BY <1>1
  <2> QED
    BY <2>1, <2>2, SettledSame
<1>7. ASSUME NEW r \in Row \ doubled
      PROVE  Settled(r)' = Counted[r] + (IF r = l THEN d ELSE 0)
  <2>1. Counted[r] = Settled(r) /\ Settled(r) \in Int
    <3>1. Owing(r) # {} => OneOf(Owing(r)) \in Duel
      BY DEF OneOf, Owing
    <3> QED
      BY <3>1 DEF Counted, Settled
  <2> QED
    BY <1>5, <1>6, <2>1
<1>8. Counted' = [r \in DOMAIN Counted |-> Counted[r] + (IF r = l THEN d ELSE 0)]
  BY <1>1, <1>7 DEF Counted
<1>9. Atomic!ForgetLoss(l)
  BY <1>8 DEF Atomic!ForgetLoss, Counted
<1> QED
  BY <1>9

\* Every step is a transfer, a forgotten loss, the end of the promise for some rows,
\* or one that Transfer does not see.
LEMMA StepMaps == IInv /\ [Next]_vars => [Atomic!Next]_Counted
<1> SUFFICES ASSUME IInv, [Next]_vars
             PROVE  Atomic!Next \/ Counted' = Counted
  OBVIOUS
<1>1. CASE UNCHANGED vars
  <2>1. \A r \in Row : Settled(r)' = Settled(r)
    BY <1>1 DEF vars, Settled, Owing, loser_id
  <2> QED
    BY <1>1, <2>1 DEF vars, Counted
<1>2. ASSUME NEW g \in Duel,
             \/ \E p, q \in Client : enter_game(g, p, q)
             \/ finish(g) \/ FinishAgain(g) \/ update_ratings(g) \/ Leave(g) \/ DeleteGame(g)
      PROVE  Atomic!Next \/ Counted' = Counted
  <2>1. CASE SetWinner(g)
    BY <2>1, SetWinnerGives DEF Atomic!Next
  <2>2. CASE SetLoser(g)
    BY <2>2, SetLoserSettles
  <2>3. CASE Fails(g) /\ thread[g] = "set_loser"
    BY <2>3, FailureForgets DEF Atomic!Next
  <2>4. CASE \/ \E p, q \in Client : enter_game(g, p, q)
             \/ finish(g) \/ FinishAgain(g) \/ GetWinner(g) \/ GetLoser(g) \/ Leave(g) \/ DeleteGame(g)
             \/ Fails(g) /\ thread[g] # "set_loser"
    <3>1. doubled' \in SUBSET Row /\ Counted' = [r \in (Row \ doubled) \ doubled' |-> Counted[r]]
      BY <2>4, QuietStep
    <3>2. Atomic!Exclude(doubled')
      BY <3>1 DEF Atomic!Exclude, Counted
    <3> QED
      BY <3>1, <3>2 DEF Atomic!Next
  <2> QED
    BY <1>2, <2>1, <2>2, <2>3, <2>4 DEF update_ratings
<1> QED
  BY <1>1, <1>2 DEF Next

\* Each update of the ratings is one transfer of points, or, when the database
\* fails between its two writes, one without the loss, for every row that was never
\* used twice at once: it loses no update, even if its opponent's row does.
THEOREM Refinement == Spec => ImplementsTransfer
<1>1. Init => Atomic!Init
  <2> SUFFICES ASSUME Init PROVE Atomic!Init
    OBVIOUS
  <2>1. \A r \in Row : Owing(r) = {} /\ rating[r] = DEFAULT_RATING
    BY DEF Init, Owing
  <2>2. Row \ doubled = Row
    BY DEF Init
  <2> QED
    BY <2>1, <2>2 DEF Atomic!Init, Settled
<1>2. IInv /\ [Next]_vars => [Atomic!Next]_Counted
  BY StepMaps
<1> QED
  BY <1>1, <1>2, IInvCorrect, PTL DEF Spec, ImplementsTransfer, Atomic!Spec, Counted

=============================================================================

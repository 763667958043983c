------------------------ MODULE GameRefinementProofs ------------------------
(***************************************************************************)
(* Game implements Match, for every card limit, deadline, set of lines and *)
(* bound on the queue: the initial states are mapped to the initial state, *)
(* and every step to a step of Match or to none.                           *)
(***************************************************************************)
EXTENDS GameProofs

\* The three kinds of step: one that leaves the score and the verdict alone, a
\* call of finish() at an unchanged score, and a lost round.
LEMMA StepKinds ==
    ASSUME IInv, [Next]_vars
    PROVE  \/ /\ UNCHANGED <<card_number, results>>
              /\ thread' = "aborted" <=> thread = "aborted"
           \/ /\ \E res \in RoundResult : finish(res)
              /\ UNCHANGED card_number
              /\ thread # "aborted" /\ thread' # "aborted"
           \/ /\ \E p \in Player, next \in {"check", "process"} : player_loses_round(p, next)
              /\ thread # "aborted"
<1> DEFINE Same == /\ UNCHANGED <<card_number, results>>
                   /\ thread' = "aborted" <=> thread = "aborted"
           Finishes == /\ \E res \in RoundResult : finish(res)
                       /\ UNCHANGED card_number
                       /\ thread # "aborted" /\ thread' # "aborted"
           Loses == /\ \E p \in Player, next \in {"check", "process"} :
                          player_loses_round(p, next)
                    /\ thread # "aborted"
<1>0. /\ current_move \in Player /\ negate(current_move) \in Player
      /\ "TIE_IN_GAME" \in RoundResult
  BY DEF IInv, TypeOK, negate, Player, FIRST_PLAYER_MOVE, SECOND_PLAYER_MOVE, RoundResult
<1>1. ASSUME StartGame \/ BlockRight \/ MoveAccepted PROVE Same
  BY <1>1 DEF StartGame, BlockRight, MoveAccepted, MoverTakes, Takes
<1>2. ASSUME Concede \/ Disconnected PROVE Finishes
  BY <1>2, LostGameType DEF Concede, Disconnected, Takes
<1>3. ASSUME Tie PROVE Same \/ Finishes
  BY <1>0, <1>3 DEF Tie, Takes
<1>4. ASSUME \/ Query \/ NotYourMove \/ Chat \/ ForbiddenOnFirstMove \/ MoveRefused
             \/ Reconnected \/ EmptyQueue
      PROVE  Same
  BY <1>4 DEF Query, NotYourMove, Chat, ForbiddenOnFirstMove, MoveRefused, Reconnected,
              EmptyQueue, MoverTakes, Takes, OnlyReplies, history
<1>5. ASSUME Reveal PROVE Loses
  <2>1. thread = "process"
    BY <1>5 DEF Reveal, MoverTakes, Takes
  <2>2. CASE check_combination(current_combination)
    BY <1>0, <1>5, <2>1, <2>2 DEF Reveal
  <2>3. CASE ~check_combination(current_combination)
    BY <1>0, <1>5, <2>1, <2>3 DEF Reveal
  <2> QED
    BY <2>2, <2>3
<1>6. ASSUME BlockWrong PROVE Loses
  BY <1>0, <1>6 DEF BlockWrong, MoverTakes, Takes
<1>7. ASSUME DeadlineMissed PROVE Finishes \/ Loses
  BY <1>0, <1>7 DEF DeadlineMissed
<1>8. ASSUME DeadlineKept \/ Terminate \/ OpenDatabaseFails PROVE Same
  BY <1>8 DEF DeadlineKept, Terminate, OpenDatabaseFails, history
<1>9. ASSUME (\E p \in Player : Receive(p)) \/ Tick \/ UNCHANGED vars PROVE Same
  BY <1>9 DEF Receive, push_command, push_reconnect, push_disconnect, LoseConnection,
              RangeError, Push, Tick, vars, history
<1> HIDE DEF Same, Finishes, Loses
<1>10. Same \/ Finishes \/ Loses
  BY <1>1, <1>2, <1>3, <1>4, <1>5, <1>6, <1>7, <1>8, <1>9
     DEF Next, GameThread, Handle, Check
<1> QED
  BY <1>10 DEF Same, Finishes, Loses

\* What a call of finish() fixes: the verdict of the first one stands.
LEMMA FirstCallStands ==
    ASSUME IInv, NEW res \in RoundResult, finish(res)
    PROVE  /\ results' # <<>>
           /\ results # <<>> => results'[1] = results[1]
           /\ results = <<>> => results'[1] = [res |-> res, numbers |-> card_number']
<1> DEFINE call == [res |-> res, numbers |-> card_number']
<1>1. results' = Append(results, call)
  BY DEF finish
<1>2. results \in Seq(FinishCall)
  BY DEF IInv, TypeOK, FinishCall, CardNumbers
<1> HIDE DEF call
<1>3. /\ Len(results') = Len(results) + 1 /\ Len(results) \in Nat
      /\ \A i \in 1 .. Len(results) : results'[i] = results[i]
      /\ results'[Len(results) + 1] = call
  BY <1>1, <1>2
<1>4. results # <<>> => Len(results) >= 1
  BY <1>2, <1>3, EmptySeq
<1>5. results' # <<>>
  BY <1>3
<1>6. results # <<>> => results'[1] = results[1]
  BY <1>3, <1>4
<1>7. results = <<>> => results'[1] = call
  BY <1>3
<1> QED
  BY <1>5, <1>6, <1>7 DEF call

\* The initial states of Game are those of Match.
THEOREM InitMaps == Init => Rules!Init
BY DEF Init, Rules!Init, DecidedScore, Verdict, Player, Rules!Player,
       FIRST_PLAYER_MOVE, SECOND_PLAYER_MOVE

\* A first call of finish() that names the loser is a departure, one that names
\* nobody a draw.
LEMMA FinishMaps ==
    ASSUME IInv, NEW res \in RoundResult, finish(res), UNCHANGED card_number,
           thread # "aborted", results = <<>>
    PROVE  Rules!Next
<1>1. /\ results' # <<>>
      /\ results'[1] = [res |-> res, numbers |-> card_number']
  BY FirstCallStands
<1>2. /\ DecidedScore' = DecidedScore
      /\ Verdict = "playing"
      /\ Verdict' = OutcomeOf(res)
  BY <1>1 DEF DecidedScore, Verdict
<1>3. 0 \in Rules!Player /\ 1 \in Rules!Player
  BY DEF Rules!Player
<1>4. CASE res = "FIRST_PLAYER_LOST_GAME"
  <2>1. Rules!Leave(0)
    BY <1>2, <1>4 DEF Rules!Leave, Rules!LostBy, OutcomeOf
  <2> QED
    BY <1>3, <2>1 DEF Rules!Next
<1>5. CASE res = "SECOND_PLAYER_LOST_GAME"
  <2>1. OutcomeOf(res) = "second lost"
    BY <1>5 DEF OutcomeOf
  <2>2. Rules!LostBy(1) = "second lost"
    BY DEF Rules!LostBy
  <2>3. Rules!Leave(1)
    BY <1>2, <2>1, <2>2 DEF Rules!Leave
  <2> QED
    BY <1>3, <2>3 DEF Rules!Next
<1>6. CASE res = "TIE_IN_GAME"
  BY <1>2, <1>6 DEF Rules!Next, Rules!Draw, OutcomeOf
<1> QED
  BY <1>4, <1>5, <1>6 DEF RoundResult

\* The score after a lost round is decisive for game_result exactly when it is for
\* Match, and then against the player who lost the round.
LEMMA DecisiveScore ==
    ASSUME NEW m \in CardNumbers, NEW p \in Player, NEW n \in CardNumbers,
           n = [m EXCEPT ![p] = @ + 1],
           \A q \in Player : m[q] < EQUALITY_CARD_NUMBER \/ m[q] < m[negate(q)] + 2
    PROVE  /\ Rules!Drawn(n) => game_result(n) = "TIE_IN_GAME"
           /\ ~Rules!Drawn(n) /\ Rules!Lost(n, p) => game_result(n) = LostGame(p)
           /\ ~Rules!Drawn(n) /\ ~Rules!Lost(n, p) => game_result(n) = "CONTINUE"
<1>1. Player = {0, 1} /\ Rules!Player = {0, 1} /\ FIRST_PLAYER_MOVE = 0 /\ SECOND_PLAYER_MOVE = 1
  BY DEF Player, Rules!Player, FIRST_PLAYER_MOVE, SECOND_PLAYER_MOVE
<1>2. m[0] \in Int /\ m[1] \in Int /\ n[0] \in Int /\ n[1] \in Int
  BY <1>1, ConstantsAssumption DEF CardNumbers
<1>3. TieReached(n) <=> Rules!Drawn(n)
  BY <1>1 DEF TieReached, Rules!Drawn
<1>4. CASE p = 0
  <2>1. n[0] = m[0] + 1 /\ n[1] = m[1]
    BY <1>1, <1>4 DEF CardNumbers
  <2>2. m[1] < EQUALITY_CARD_NUMBER \/ m[1] < m[0] + 2
    BY <1>1 DEF negate
  <2>3. Rules!Lost(n, p) <=> n[0] >= EQUALITY_CARD_NUMBER /\ n[0] >= n[1] + 2
    BY <1>4 DEF Rules!Lost, Rules!Opponent
  <2>4. BelowEquality(n) \/ AlmostEqual(n) <=> ~Rules!Lost(n, p)
    BY <1>1, <1>2, <2>1, <2>2, <2>3, ConstantsAssumption DEF BelowEquality, AlmostEqual
  <2>5. Rules!Lost(n, p) => n[0] > n[1]
    BY <1>2, <2>3
  <2> QED
    BY <1>1, <1>3, <1>4, <2>4, <2>5 DEF game_result
<1>5. CASE p = 1
  <2>1. n[1] = m[1] + 1 /\ n[0] = m[0]
    BY <1>1, <1>5 DEF CardNumbers
  <2>2. m[0] < EQUALITY_CARD_NUMBER \/ m[0] < m[1] + 2
    BY <1>1 DEF negate
  <2>3. Rules!Lost(n, p) <=> n[1] >= EQUALITY_CARD_NUMBER /\ n[1] >= n[0] + 2
    BY <1>5 DEF Rules!Lost, Rules!Opponent
  <2>4. BelowEquality(n) \/ AlmostEqual(n) <=> ~Rules!Lost(n, p)
    BY <1>1, <1>2, <2>1, <2>2, <2>3, ConstantsAssumption DEF BelowEquality, AlmostEqual
  <2>5. Rules!Lost(n, p) => ~(n[0] > n[1])
    BY <1>2, <2>3
  <2> QED
    BY <1>1, <1>3, <1>5, <2>4, <2>5 DEF game_result
<1> QED
  BY <1>1, <1>4, <1>5

\* A lost round of Game is a lost round of Match, or its crash.
LEMMA LossMaps ==
    ASSUME IInv, NEW p \in Player, NEW next \in {"check", "process"},
           player_loses_round(p, next), thread # "aborted", results = <<>>
    PROVE  Rules!Next
<1> DEFINE n == [card_number EXCEPT ![p] = @ + 1]
<1>1. /\ card_number \in CardNumbers
      /\ \A q \in Player : card_number[q] <= TIE_CARD_NUMBER
      /\ \A q \in Player : \/ card_number[q] < EQUALITY_CARD_NUMBER
                           \/ card_number[q] < card_number[negate(q)] + 2
  BY DEF IInv, TypeOK, CardNumbers, UndecidedWhilePlaying, AtMostOneStrayFinish
<1>2. n \in CardNumbers
  BY <1>1, ConstantsAssumption DEF CardNumbers, Player, FIRST_PLAYER_MOVE, SECOND_PLAYER_MOVE
<1>3. card_number' = n
  BY DEF player_loses_round
<1>4. /\ Rules!Drawn(n) => game_result(n) = "TIE_IN_GAME"
      /\ ~Rules!Drawn(n) /\ Rules!Lost(n, p) => game_result(n) = LostGame(p)
      /\ ~Rules!Drawn(n) /\ ~Rules!Lost(n, p) => game_result(n) = "CONTINUE"
  BY <1>1, <1>2, DecisiveScore
<1>5. p \in Rules!Player
  BY DEF Player, Rules!Player, FIRST_PLAYER_MOVE, SECOND_PLAYER_MOVE
<1>6. DecidedScore = card_number /\ Verdict = "playing"
  BY DEF DecidedScore, Verdict
<1>7. \A q \in Player : card_number[q] \in Int /\ n[q] \in Int
  BY <1>1, <1>2, ConstantsAssumption DEF CardNumbers
<1>8. n[p] = card_number[p] + 1 /\ \A q \in Player \ {p} : n[q] = card_number[q]
  BY <1>1 DEF CardNumbers
<1>9. CASE ~game_result_asserts(n)
  <2>1. thread' = "aborted" /\ results' = <<>>
    BY <1>9 DEF player_loses_round
  <2>2. card_number[p] = TIE_CARD_NUMBER
    <3>1. \A q \in Player : START_CARD_NUMBER <= n[q]
      BY <1>2, ConstantsAssumption DEF CardNumbers
    <3>2. PICK q \in Player : ~(n[q] <= TIE_CARD_NUMBER)
      BY <1>9, <3>1 DEF game_result_asserts
    <3>3. q = p
      BY <1>1, <1>8, <3>2
    <3> QED
      BY <1>1, <1>7, <1>8, <3>2, <3>3, ConstantsAssumption
  <2>3. DecidedScore' = n /\ Verdict' = "crashed"
    BY <1>3, <2>1 DEF DecidedScore, Verdict
  <2>4. Rules!Crash(p)
    BY <1>6, <2>2, <2>3 DEF Rules!Crash
  <2> QED
    BY <1>5, <2>4 DEF Rules!Next
<1>10. CASE game_result_asserts(n)
  <2>1. card_number[p] < TIE_CARD_NUMBER
    BY <1>7, <1>8, <1>10, ConstantsAssumption DEF game_result_asserts
  <2>2. CASE game_result(n) = "CONTINUE"
    <3>1. thread' = next /\ results' = <<>>
      BY <1>10, <2>2 DEF player_loses_round
    <3>2. DecidedScore' = n /\ Verdict' = "playing"
      BY <1>3, <3>1 DEF DecidedScore, Verdict
    <3>3. ~Rules!Drawn(n) /\ ~Rules!Lost(n, p)
      BY <1>4, <2>2 DEF LostGame
    <3>4. Rules!LoseRound(p)
      BY <1>6, <2>1, <3>2, <3>3 DEF Rules!LoseRound
    <3> QED
      BY <1>5, <3>4 DEF Rules!Next
  <2>3. CASE game_result(n) # "CONTINUE"
    <3>1. finish(game_result(n))
      BY <1>10, <2>3 DEF player_loses_round
    <3>2. game_result(n) \in RoundResult
      BY <1>2, <2>3, GameResultType
    <3>3. /\ results' # <<>>
          /\ results'[1] = [res |-> game_result(n), numbers |-> n]
      BY <1>3, <3>1, <3>2, FirstCallStands
    <3>4. DecidedScore' = n /\ Verdict' = OutcomeOf(game_result(n))
      BY <3>3 DEF DecidedScore, Verdict
    <3>5. CASE Rules!Drawn(n)
      <4>1. Verdict' = "draw"
        BY <1>4, <3>4, <3>5 DEF OutcomeOf
      <4>2. Rules!LoseRound(p)
        BY <1>6, <2>1, <3>4, <3>5, <4>1 DEF Rules!LoseRound
      <4> QED
        BY <1>5, <4>2 DEF Rules!Next
    <3>6. CASE ~Rules!Drawn(n)
      <4>1. Rules!Lost(n, p) /\ game_result(n) = LostGame(p)
        BY <1>4, <2>3, <3>6
      <4>2. Verdict' = Rules!LostBy(p)
        BY <3>4, <4>1 DEF OutcomeOf, LostGame, Rules!LostBy, FIRST_PLAYER_MOVE
      <4>3. Rules!LoseRound(p)
        BY <1>6, <2>1, <3>4, <3>6, <4>1, <4>2 DEF Rules!LoseRound
      <4> QED
        BY <1>5, <4>3 DEF Rules!Next
    <3> QED
      BY <3>5, <3>6
  <2> QED
    BY <2>2, <2>3
<1> QED
  BY <1>9, <1>10

\* Every step of Game is a step of Match, or leaves its variables alone.
THEOREM StepMaps == IInv /\ [Next]_vars => [Rules!Next]_<<DecidedScore, Verdict>>
<1> SUFFICES ASSUME IInv, [Next]_vars
             PROVE  Rules!Next \/ UNCHANGED <<DecidedScore, Verdict>>
  OBVIOUS
<1>1. CASE /\ UNCHANGED <<card_number, results>>
           /\ thread' = "aborted" <=> thread = "aborted"
  BY <1>1 DEF DecidedScore, Verdict
<1>2. CASE /\ \E res \in RoundResult : finish(res)
           /\ UNCHANGED card_number
           /\ thread # "aborted" /\ thread' # "aborted"
  <2>1. PICK res \in RoundResult : finish(res)
    BY <1>2
  <2>2. CASE results = <<>>
    BY <1>2, <2>1, <2>2, FinishMaps
  <2>3. CASE results # <<>>
    <3>1. results' # <<>> /\ results'[1] = results[1]
      BY <2>1, <2>3, FirstCallStands
    <3> QED
      BY <2>3, <3>1 DEF DecidedScore, Verdict
  <2> QED
    BY <2>2, <2>3
<1>3. CASE /\ \E p \in Player, next \in {"check", "process"} : player_loses_round(p, next)
           /\ thread # "aborted"
  <2>1. PICK p \in Player, next \in {"check", "process"} : player_loses_round(p, next)
    BY <1>3
  <2>2. CASE results = <<>>
    BY <1>3, <2>1, <2>2, LossMaps
  <2>3. CASE results # <<>>
    <3>1. results' = results \/ \E res \in RoundResult : finish(res)
      <4>1. card_number \in CardNumbers
        BY RoundType
      <4>2. [card_number EXCEPT ![p] = @ + 1] \in CardNumbers
        BY <1>3, <4>1, ConstantsAssumption
           DEF IInv, CardNumbers, Player, FIRST_PLAYER_MOVE, SECOND_PLAYER_MOVE
      <4> QED
        BY <2>1, <4>2, GameResultType DEF player_loses_round
    <3>2. results' # <<>> /\ results'[1] = results[1]
      BY <2>3, <3>1, FirstCallStands
    <3> QED
      BY <2>3, <3>2 DEF DecidedScore, Verdict
  <2> QED
    BY <2>2, <2>3
<1> QED
  BY <1>1, <1>2, <1>3, StepKinds

\* Game implements Match.
THEOREM Refinement == Spec => ImplementsMatch
BY InitMaps, StepMaps, Invariance, PTL DEF Spec, ImplementsMatch, Rules!Spec

=============================================================================

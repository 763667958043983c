----------------------------- MODULE GameProofs -----------------------------
(***************************************************************************)
(* Proofs of the safety properties of Game, for every deck, card limit,    *)
(* deadline, set of lines and bound on the queue.                          *)
(***************************************************************************)
EXTENDS Game, SequenceTheorems, TLAPS

CardNumbers == [Player -> START_CARD_NUMBER .. TIE_CARD_NUMBER + 1]
FinishCall == [res : RoundResult, numbers : CardNumbers]

-----------------------------------------------------------------------------
(* Lemmas on the types.                                                    *)

\* An aged command is a command.
LEMMA AgedCommand ==
    ASSUME NEW c \in Command
    PROVE  [c EXCEPT !.age = Older(@)] \in Command
<1>1. c.age \in Time
  BY DEF Command
<1>2. Older(c.age) \in Time
  BY <1>1, ConstantsAssumption DEF Older, Time
<1> QED
  BY <1>2 DEF Command

\* The queue keeps its type when the clock ticks.
LEMMA AgedQueue ==
    ASSUME NEW q \in Seq(Command)
    PROVE  [i \in DOMAIN q |-> [q[i] EXCEPT !.age = Older(@)]] \in Seq(Command)
<1>1. DOMAIN q = 1 .. Len(q) /\ Len(q) \in Nat
  BY LenProperties
<1>2. \A i \in 1 .. Len(q) : [q[i] EXCEPT !.age = Older(@)] \in Command
  BY AgedCommand, ElementOfSeq
<1> QED
  BY <1>1, <1>2, IsASeq

\* The clock may read 0.
LEMMA ZeroTime == 0 \in Time
BY ConstantsAssumption DEF Time

\* A push keeps the type of the queue.
LEMMA PushType ==
    ASSUME TypeOK, NEW p \in Player, NEW type \in {"MOVE_COMMAND", "RECONNECT", "DISCONNECT"},
           NEW text \in KnownLines \cup {""}, NEW b \in Bid, Push(p, type, text, b)
    PROVE  command_queue' \in Seq(Command)
<1> DEFINE c == [sender |-> p, type |-> type, cmd |-> text, bid |-> b, age |-> 0]
<1>1. c \in Command
  <2>1. \A t \in Time : [sender |-> p, type |-> type, cmd |-> text, bid |-> b, age |-> t] \in Command
    BY Zenon DEF Command
  <2> QED
    BY ZeroTime, <2>1
<1>2. command_queue' = Append(command_queue, c)
  BY DEF Push
<1>3. command_queue \in Seq(Command)
  BY DEF TypeOK
<1> HIDE DEF c
<1> QED
  BY <1>1, <1>2, <1>3, AppendProperties

\* The command at the head of the queue is a command, and the rest a queue.
LEMMA HeadType ==
    ASSUME TypeOK, command_queue # <<>>
    PROVE  /\ Front \in Command
           /\ Tail(command_queue) \in Seq(Command)
<1>1. command_queue \in Seq(Command)
  BY DEF TypeOK
<1> QED
  BY <1>1, HeadTailProperties DEF Front

\* The sender of the command at the head is a player, its bid a bid.
LEMMA FrontType ==
    ASSUME TypeOK, command_queue # <<>>
    PROVE  sender \in Player /\ Front.bid \in Bid /\ Front.age \in Time
BY HeadType DEF sender, Command

\* start_round deals to the next first player, on a fresh clock.
LEMMA StartRoundType ==
    ASSUME TypeOK, start_round
    PROVE  /\ first_move' \in Player
           /\ current_move' \in Player
           /\ current_combination' \in Bid
           /\ union_of_cards' \in Deal
           /\ wants_tie' \in [Player -> BOOLEAN]
           /\ last_move' \in Bid
           /\ elapsed' \in Time
BY ConstantsAssumption
   DEF TypeOK, start_round, negate, Player, FIRST_PLAYER_MOVE, SECOND_PLAYER_MOVE,
       Bid, Time

\* finish() adds one call, and leaves no player in the game.
LEMMA FinishType ==
    ASSUME TypeOK, card_number' \in CardNumbers, NEW res \in RoundResult, finish(res)
    PROVE  /\ results' \in Seq(FinishCall)
           /\ Len(results') = Len(results) + 1
           /\ finished' = TRUE
           /\ in_game' \in [Player -> BOOLEAN]
<1> DEFINE call == [res |-> res, numbers |-> card_number']
<1>1. call \in FinishCall
  BY DEF FinishCall
<1>2. results' = Append(results, call)
  BY DEF finish
<1>3. results \in Seq(FinishCall)
  BY DEF TypeOK, FinishCall, CardNumbers
<1> HIDE DEF call
<1>4. results' \in Seq(FinishCall) /\ Len(results') = Len(results) + 1
  BY <1>1, <1>2, <1>3, AppendProperties
<1> QED
  BY <1>4 DEF finish

\* What game_result hands to finish() is a result.
LEMMA GameResultType ==
    ASSUME NEW n \in CardNumbers
    PROVE  game_result(n) \in RoundResult \cup {"CONTINUE"}
BY DEF game_result, LostGame, RoundResult

LEMMA LostGameType == \A p : LostGame(p) \in RoundResult
BY DEF LostGame, RoundResult

-----------------------------------------------------------------------------
(* The inductive invariant.                                                *)

\* Losing a round keeps the numbers typed and, unless an assertion fails, within
\* the limit and undecided; it calls finish() at most once.
LEMMA LoseRound ==
    ASSUME IInv, thread # "aborted", NEW p \in Player,
           NEW next \in {"check", "process"}, player_loses_round(p, next)
    PROVE  /\ card_number' \in CardNumbers
           /\ thread' \in {next, "aborted"}
           /\ thread' # "aborted" => \A q \in Player : card_number'[q] <= TIE_CARD_NUMBER
           /\ finished' \in BOOLEAN
           /\ in_game' \in [Player -> BOOLEAN]
           /\ results' \in Seq(FinishCall)
           /\ \/ UNCHANGED <<finished, results>>
              \/ finished' = TRUE /\ Len(results') = Len(results) + 1
           /\ ~finished' /\ thread' # "aborted" => game_result(card_number') = "CONTINUE"
           /\ \/ UNCHANGED <<round, elapsed>>
              \/ start_round
<1> DEFINE n == [card_number EXCEPT ![p] = @ + 1]
<1>1. n \in CardNumbers
  BY ConstantsAssumption DEF IInv, TypeOK, CardNumbers, Player, FIRST_PLAYER_MOVE, SECOND_PLAYER_MOVE
<1>2. card_number' = n
  BY DEF player_loses_round
<1>3. TypeOK /\ results \in Seq(FinishCall) /\ finished \in BOOLEAN /\ in_game \in [Player -> BOOLEAN]
  BY DEF IInv, TypeOK, FinishCall, CardNumbers
<1>4. CASE ~game_result_asserts(n)
  <2>1. /\ thread' = "aborted"
        /\ UNCHANGED <<round, elapsed, finished, in_game, results>>
    BY <1>4 DEF player_loses_round
  <2> QED
    BY <1>1, <1>2, <1>3, <2>1
<1>5. CASE game_result_asserts(n) /\ game_result(n) = "CONTINUE"
  <2>1. /\ start_round
        /\ thread' = next
        /\ UNCHANGED <<finished, in_game, results>>
    BY <1>5 DEF player_loses_round
  <2>2. \A q \in Player : n[q] <= TIE_CARD_NUMBER
    BY <1>5 DEF game_result_asserts
  <2> QED
    BY <1>1, <1>2, <1>3, <1>5, <2>1, <2>2
<1>6. CASE game_result_asserts(n) /\ game_result(n) # "CONTINUE"
  <2>1. /\ finish(game_result(n))
        /\ thread' = next
        /\ UNCHANGED <<round, elapsed>>
    BY <1>6 DEF player_loses_round
  <2>2. \A q \in Player : n[q] <= TIE_CARD_NUMBER
    BY <1>6 DEF game_result_asserts
  <2>3. game_result(n) \in RoundResult
    BY <1>1, <1>6, GameResultType
  <2>4. /\ results' \in Seq(FinishCall)
        /\ Len(results') = Len(results) + 1
        /\ finished' = TRUE
        /\ in_game' \in [Player -> BOOLEAN]
    BY <1>1, <1>2, <1>3, <2>1, <2>3, FinishType
  <2> QED
    BY <1>1, <1>2, <2>1, <2>2, <2>4
<1> QED
  BY <1>4, <1>5, <1>6

\* A score game_result continues from is undecided.
LEMMA ContinueUndecided ==
    ASSUME NEW n \in CardNumbers, game_result(n) = "CONTINUE"
    PROVE  /\ \E p \in Player : n[p] # TIE_CARD_NUMBER
           /\ \A p \in Player : \/ n[p] < EQUALITY_CARD_NUMBER
                                \/ n[p] < n[negate(p)] + 2
<1>1. ~TieReached(n) /\ (BelowEquality(n) \/ AlmostEqual(n))
  BY DEF game_result, LostGame
<1>2. \A p \in Player : n[p] \in Int
  BY ConstantsAssumption DEF CardNumbers
<1>3. Player = {0, 1} /\ negate(0) = 1 /\ negate(1) = 0
  BY DEF Player, FIRST_PLAYER_MOVE, SECOND_PLAYER_MOVE, negate
<1> QED
  BY <1>1, <1>2, <1>3, ConstantsAssumption DEF TieReached, BelowEquality, AlmostEqual

THEOREM InitInvariant == Init => IInv
<1> SUFFICES ASSUME Init PROVE IInv
  OBVIOUS
<1>0. Player = {0, 1}
  BY DEF Player, FIRST_PLAYER_MOVE, SECOND_PLAYER_MOVE
<1>1. TypeOK
  <2>1. union_of_cards \in Deal
    BY DEF Init, Deal, Bid
  <2>2. results \in Seq([res : RoundResult, numbers : CardNumbers])
    BY DEF Init
  <2>3. /\ card_number \in CardNumbers
        /\ elapsed \in Time
    BY ConstantsAssumption DEF Init, CardNumbers, Time
  <2>4. /\ current_combination \in Bid
        /\ last_move \in Bid
        /\ command_queue \in Seq(Command)
    BY DEF Init, Bid
  <2>5. /\ first_move \in Player
        /\ current_move \in Player
        /\ author \in Player
    BY <1>0 DEF Init, FIRST_PLAYER_MOVE
  <2>6. /\ wants_tie \in [Player -> BOOLEAN]
        /\ in_game \in [Player -> BOOLEAN]
        /\ session \in [Player -> {"up", "waiting_reconnect", "closed"}]
    BY DEF Init
  <2>7. /\ finished \in BOOLEAN
        /\ overdue \in BOOLEAN
        /\ thread = "start"
    BY DEF Init
  <2> QED
    BY <2>1, <2>2, <2>3, <2>4, <2>5, <2>6, <2>7 DEF TypeOK, CardNumbers
<1>2. Len(results) = 0
  BY DEF Init
<1>3. UndecidedWhilePlaying
  BY <1>0, ConstantsAssumption DEF Init, UndecidedWhilePlaying, negate
<1>4. LastMoveAttributed /\ AtMostOneStrayFinish
  BY <1>2 DEF Init, LastMoveAttributed, AtMostOneStrayFinish, NOTHING
<1> QED
  BY <1>0, <1>1, <1>2, <1>3, <1>4, ConstantsAssumption DEF IInv, Init

\* A step that leaves the game alone, and moves only the queue, the sessions, the
\* clock and the place of the game thread.
LEMMA QuietStep ==
    ASSUME IInv, thread # "aborted",
           UNCHANGED <<card_number, round, finished, in_game, history>>,
           elapsed' \in Time,
           command_queue' \in Seq(Command),
           overdue' \in BOOLEAN,
           session' \in [Player -> {"up", "waiting_reconnect", "closed"}],
           thread' \in {"start", "process", "check", "stopped", "dead"},
           thread' \in {"start", "process", "dead"} => Len(results) <= 1,
           thread' = "start" => ~finished
    PROVE  IInv'
<1>1. TypeOK'
  BY DEF IInv, TypeOK, round, history
<1>2. LastMoveAttributed'
  BY DEF IInv, LastMoveAttributed, round, history
<1>3. UndecidedWhilePlaying'
  BY DEF IInv, UndecidedWhilePlaying
<1>4. AtMostOneStrayFinish'
  BY DEF IInv, AtMostOneStrayFinish, history
<1> QED
  BY <1>1, <1>2, <1>3, <1>4 DEF IInv, history

\* A handler that only replies moves the thread to its check.
LEMMA ReplyStep ==
    ASSUME IInv, thread = "process", OnlyReplies, UNCHANGED session,
           command_queue' \in Seq(Command)
    PROVE  IInv'
<1>1. /\ UNCHANGED <<card_number, round, elapsed, finished, in_game, history>>
      /\ thread' = "check"
      /\ overdue' \in BOOLEAN
  BY DEF OnlyReplies, EvaluateDeadline
<1>2. /\ elapsed \in Time
      /\ session \in [Player -> {"up", "waiting_reconnect", "closed"}]
  BY DEF IInv, TypeOK
<1> QED
  BY <1>1, <1>2, QuietStep

\* A step that starts a round, with the numbers within the limit and undecided.
LEMMA RoundStep ==
    ASSUME IInv, start_round,
           card_number' \in CardNumbers,
           \A p \in Player : card_number'[p] <= TIE_CARD_NUMBER,
           finished' = FALSE => UndecidedWhilePlaying',
           UNCHANGED <<finished, in_game, results, author, session>>,
           command_queue' \in Seq(Command),
           overdue' \in BOOLEAN,
           thread' \in {"process", "check"},
           thread' = "process" => Len(results) <= 1
    PROVE  IInv'
<1>1. TypeOK
  BY DEF IInv
<1>2. TypeOK'
  BY <1>1, StartRoundType DEF TypeOK, CardNumbers
<1>3. LastMoveAttributed'
  BY DEF LastMoveAttributed, start_round
<1>4. AtMostOneStrayFinish'
  BY DEF IInv, AtMostOneStrayFinish
<1>5. UndecidedWhilePlaying'
  BY <1>2 DEF UndecidedWhilePlaying, TypeOK
<1> QED
  BY <1>2, <1>3, <1>4, <1>5 DEF IInv

\* A step that calls finish() once, from a place where at most one call was made.
LEMMA FinishStep ==
    ASSUME IInv, Len(results) <= 1,
           card_number' \in CardNumbers,
           \A p \in Player : card_number'[p] <= TIE_CARD_NUMBER,
           results' \in Seq(FinishCall),
           Len(results') = Len(results) + 1,
           finished' = TRUE,
           in_game' \in [Player -> BOOLEAN],
           wants_tie' \in [Player -> BOOLEAN],
           UNCHANGED <<first_move, union_of_cards, last_move, current_combination,
                       current_move, elapsed, author, session>>,
           command_queue' \in Seq(Command),
           overdue' \in BOOLEAN,
           thread' \in {"process", "check"},
           thread' = "process" => Len(results) = 0
    PROVE  IInv'
<1>0. results \in Seq(FinishCall) /\ Len(results) \in Nat
  BY LenProperties DEF IInv, TypeOK, FinishCall, CardNumbers
<1>1. TypeOK'
  BY DEF IInv, TypeOK, CardNumbers, FinishCall
<1>2. LastMoveAttributed'
  BY DEF IInv, LastMoveAttributed
<1>3. results' # <<>>
  BY <1>0, EmptySeq, LenProperties
<1>4. AtMostOneStrayFinish'
  BY <1>0, <1>3 DEF IInv, AtMostOneStrayFinish
<1>5. UndecidedWhilePlaying'
  BY DEF UndecidedWhilePlaying
<1> QED
  BY <1>0, <1>1, <1>2, <1>4, <1>5 DEF IInv

\* A lost round, counted by a handler or by the deadline.
LEMMA LoseStep ==
    ASSUME IInv, thread \in {"process", "check"}, NEW p \in Player,
           NEW next \in {"check", "process"}, player_loses_round(p, next),
           next = "process" => ~finished,
           thread = "check" => next = "process",
           UNCHANGED <<author, session>>,
           command_queue' \in Seq(Command),
           overdue' \in BOOLEAN
    PROVE  IInv'
<1>1. /\ card_number' \in CardNumbers
      /\ thread' \in {next, "aborted"}
      /\ thread' # "aborted" => \A q \in Player : card_number'[q] <= TIE_CARD_NUMBER
      /\ finished' \in BOOLEAN
      /\ in_game' \in [Player -> BOOLEAN]
      /\ results' \in Seq(FinishCall)
      /\ \/ UNCHANGED <<finished, results>>
         \/ finished' = TRUE /\ Len(results') = Len(results) + 1
      /\ ~finished' /\ thread' # "aborted" => game_result(card_number') = "CONTINUE"
      /\ \/ UNCHANGED <<round, elapsed>>
         \/ start_round
  BY LoseRound
<1>2. /\ TypeOK
      /\ results \in Seq(FinishCall) /\ Len(results) \in Nat
      /\ Len(results) <= 1
  <2>1. TypeOK /\ results \in Seq(FinishCall)
    BY DEF IInv, TypeOK, FinishCall, CardNumbers
  <2>2. Len(results) \in Nat
    BY <2>1, LenProperties
  <2>3. Len(results) <= 1
    <3>1. CASE thread = "process"
      BY <3>1 DEF IInv
    <3>2. CASE thread = "check"
      BY <3>2 DEF IInv, AtMostOneStrayFinish
    <3> QED
      BY <3>1, <3>2
  <2> QED
    BY <2>1, <2>2, <2>3
<1>3. TypeOK'
  <2>1. CASE UNCHANGED <<round, elapsed>>
    BY <2>1, <1>1, <1>2 DEF TypeOK, round, CardNumbers, FinishCall
  <2>2. CASE start_round
    BY <2>2, <1>1, <1>2, StartRoundType DEF TypeOK, CardNumbers, FinishCall
  <2> QED
    BY <1>1, <2>1, <2>2
<1>4. LastMoveAttributed'
  <2>1. CASE UNCHANGED <<round, elapsed>>
    BY <2>1 DEF IInv, LastMoveAttributed, round
  <2>2. CASE start_round
    BY <2>2 DEF LastMoveAttributed, start_round
  <2> QED
    BY <1>1, <2>1, <2>2
<1>5. UndecidedWhilePlaying'
  <2>1. SUFFICES ASSUME ~finished', thread' # "aborted"
                 PROVE  /\ \E q \in Player : card_number'[q] # TIE_CARD_NUMBER
                        /\ \A q \in Player : \/ card_number'[q] < EQUALITY_CARD_NUMBER
                                             \/ card_number'[q] < card_number'[negate(q)] + 2
    BY DEF UndecidedWhilePlaying
  <2> QED
    BY <1>1, <2>1, ContinueUndecided
<1>6. AtMostOneStrayFinish'
  <2>1. CASE UNCHANGED <<finished, results>>
    BY <2>1 DEF IInv, AtMostOneStrayFinish
  <2>2. CASE finished' = TRUE /\ Len(results') = Len(results) + 1
    <3>1. results' # <<>>
      BY <2>2, <1>2, EmptySeq, LenProperties
    <3> QED
      BY <2>2, <3>1, <1>2 DEF AtMostOneStrayFinish
  <2> QED
    BY <1>1, <2>1, <2>2
<1>7. thread' \in {"start", "process", "dead"} => Len(results') <= 1
  <2>1. CASE next = "process"
    <3>1. Len(results) = 0
      BY <2>1, <1>2, EmptySeq DEF IInv, AtMostOneStrayFinish
    <3>2. results' = results \/ Len(results') = Len(results) + 1
      BY <1>1
    <3>3. CASE results' = results
      BY <3>1, <3>3
    <3>4. CASE Len(results') = Len(results) + 1
      BY <3>1, <3>4
    <3> QED
      BY <3>2, <3>3, <3>4
  <2>2. CASE next = "check"
    BY <2>2, <1>1
  <2> QED
    BY <2>1, <2>2
<1>8. thread' # "start"
  BY <1>1
<1> QED
  BY <1>1, <1>3, <1>4, <1>5, <1>6, <1>7, <1>8 DEF IInv

-----------------------------------------------------------------------------
(* One step of the game thread, of a receive thread, or of the clock.      *)

\* What a handler of a typed command finds.
LEMMA Taken ==
    ASSUME IInv, NEW texts, Takes(texts)
    PROVE  /\ thread = "process"
           /\ sender \in Player /\ Front.bid \in Bid /\ Front.age \in Time
           /\ command_queue' \in Seq(Command)
           /\ UNCHANGED session
           /\ Len(results) <= 1
           /\ card_number \in CardNumbers
           /\ \A p \in Player : card_number[p] <= TIE_CARD_NUMBER
BY HeadType, FrontType DEF Takes, IInv, TypeOK, CardNumbers

\* The round keeps its type while nothing of it is assigned.
LEMMA RoundType ==
    ASSUME IInv
    PROVE  /\ card_number \in CardNumbers
           /\ wants_tie \in [Player -> BOOLEAN]
           /\ elapsed \in Time
           /\ overdue \in BOOLEAN
           /\ command_queue \in Seq(Command)
           /\ session \in [Player -> {"up", "waiting_reconnect", "closed"}]
BY DEF IInv, TypeOK, CardNumbers

LEMMA ConcedeStep == ASSUME IInv, Concede PROVE IInv'
<1>1. Takes({"/concede"}) /\ finish(LostGame(sender)) /\ UNCHANGED <<card_number, round, elapsed, author>>
      /\ thread' = "check" /\ overdue' \in BOOLEAN
  BY DEF Concede, EvaluateDeadline
<1>2. /\ thread = "process" /\ sender \in Player
      /\ command_queue' \in Seq(Command)
      /\ UNCHANGED session
      /\ Len(results) <= 1
      /\ card_number \in CardNumbers
      /\ \A p \in Player : card_number[p] <= TIE_CARD_NUMBER
  BY <1>1, Taken
<1>3. /\ results' \in Seq(FinishCall)
      /\ Len(results') = Len(results) + 1
      /\ finished' = TRUE
      /\ in_game' \in [Player -> BOOLEAN]
  BY <1>1, <1>2, FinishType, LostGameType DEF IInv
<1>4. wants_tie' \in [Player -> BOOLEAN]
  BY <1>1, RoundType DEF round
<1> QED
  BY <1>1, <1>2, <1>3, <1>4, FinishStep DEF round

LEMMA DisconnectedStep == ASSUME IInv, Disconnected PROVE IInv'
<1>1. /\ finish(LostGame(sender)) /\ UNCHANGED <<card_number, round, elapsed, author, session>>
      /\ thread = "process" /\ thread' = "check" /\ overdue' \in BOOLEAN
      /\ command_queue # <<>> /\ command_queue' = Tail(command_queue)
  BY DEF Disconnected, EvaluateDeadline
<1>2. /\ command_queue' \in Seq(Command)
      /\ Len(results) <= 1
      /\ card_number \in CardNumbers
      /\ \A p \in Player : card_number[p] <= TIE_CARD_NUMBER
  BY <1>1, HeadType DEF IInv, TypeOK, CardNumbers
<1>3. /\ results' \in Seq(FinishCall)
      /\ Len(results') = Len(results) + 1
      /\ finished' = TRUE
      /\ in_game' \in [Player -> BOOLEAN]
  BY <1>1, <1>2, FinishType, LostGameType DEF IInv
<1>4. wants_tie' \in [Player -> BOOLEAN]
  BY <1>1, RoundType DEF round
<1> QED
  BY <1>1, <1>2, <1>3, <1>4, FinishStep DEF round

LEMMA TieStep == ASSUME IInv, Tie PROVE IInv'
<1> DEFINE wishes == [wants_tie EXCEPT ![sender] = TRUE]
<1>1. /\ Takes({"/tie"})
      /\ UNCHANGED <<card_number, first_move, current_move, current_combination,
                     union_of_cards, last_move, elapsed, author>>
      /\ thread' = "check" /\ overdue' \in BOOLEAN
      /\ wants_tie' = wishes
  BY DEF Tie, EvaluateDeadline
<1>2. /\ thread = "process" /\ sender \in Player
      /\ command_queue' \in Seq(Command)
      /\ UNCHANGED session
      /\ Len(results) <= 1
      /\ card_number \in CardNumbers
      /\ \A p \in Player : card_number[p] <= TIE_CARD_NUMBER
  BY <1>1, Taken
<1>3. wants_tie' \in [Player -> BOOLEAN]
  BY <1>1, <1>2, RoundType
<1>4. CASE \A p \in Player : wishes[p]
  <2>1. finish("TIE_IN_GAME")
    BY <1>4 DEF Tie
  <2>2. /\ results' \in Seq(FinishCall)
        /\ Len(results') = Len(results) + 1
        /\ finished' = TRUE
        /\ in_game' \in [Player -> BOOLEAN]
    BY <1>1, <1>2, <2>1, FinishType DEF IInv, RoundResult
  <2> QED
    BY <1>1, <1>2, <1>3, <2>2, FinishStep
<1>5. CASE ~(\A p \in Player : wishes[p])
  <2>1. UNCHANGED <<results, finished, in_game>>
    BY <1>5 DEF Tie
  <2>2. TypeOK'
    BY <1>1, <1>2, <1>3, <2>1 DEF IInv, TypeOK
  <2> QED
    BY <1>1, <1>2, <2>1, <2>2
       DEF IInv, LastMoveAttributed, UndecidedWhilePlaying, AtMostOneStrayFinish
<1> QED
  BY <1>4, <1>5

LEMMA LosingStep == ASSUME IInv, Reveal \/ BlockWrong PROVE IInv'
<1>1. current_move \in Player /\ negate(current_move) \in Player
  BY DEF IInv, TypeOK, negate, Player, FIRST_PLAYER_MOVE, SECOND_PLAYER_MOVE
<1>2. \E p \in Player : player_loses_round(p, "check")
  <2>1. CASE Reveal
    <3>1. CASE check_combination(current_combination)
      BY <1>1, <2>1, <3>1 DEF Reveal
    <3>2. CASE ~check_combination(current_combination)
      BY <1>1, <2>1, <3>2 DEF Reveal
    <3> QED
      BY <3>1, <3>2
  <2>2. CASE BlockWrong
    BY <1>1, <2>2 DEF BlockWrong
  <2> QED
    BY <2>1, <2>2
<1>3. PICK p \in Player : player_loses_round(p, "check")
  BY <1>2
<1>4. /\ Takes({"/r"}) \/ Takes({"/b"})
      /\ overdue' \in BOOLEAN
      /\ UNCHANGED author
  BY DEF Reveal, BlockWrong, MoverTakes, EvaluateDeadline
<1>5. thread = "process" /\ command_queue' \in Seq(Command) /\ UNCHANGED session
  BY <1>4, Taken
<1> QED
  BY <1>3, <1>4, <1>5, LoseStep

LEMMA BlockRightStep == ASSUME IInv, BlockRight PROVE IInv'
<1>1. /\ Takes({"/b"})
      /\ start_round
      /\ thread' = "check"
      /\ overdue' \in BOOLEAN
      /\ UNCHANGED <<card_number, finished, in_game, results, author>>
  BY DEF BlockRight, MoverTakes, EvaluateDeadline
<1>2. /\ thread = "process"
      /\ command_queue' \in Seq(Command)
      /\ UNCHANGED session
      /\ card_number \in CardNumbers
      /\ \A p \in Player : card_number[p] <= TIE_CARD_NUMBER
  BY <1>1, Taken
<1>3. finished' = FALSE => UndecidedWhilePlaying'
  BY <1>1, <1>2 DEF IInv, UndecidedWhilePlaying
<1> QED
  BY <1>1, <1>2, <1>3, RoundStep

LEMMA StartGameStep == ASSUME IInv, StartGame PROVE IInv'
<1>1. /\ thread = "start" /\ thread' = "process"
      /\ start_round
      /\ UNCHANGED <<card_number, command_queue, finished, in_game, overdue, session,
                     results, author>>
  BY DEF StartGame
<1>2. /\ overdue' \in BOOLEAN
      /\ command_queue' \in Seq(Command)
      /\ card_number' \in CardNumbers
  BY <1>1, RoundType
<1>3. finished' = FALSE => UndecidedWhilePlaying'
  BY <1>1 DEF IInv, UndecidedWhilePlaying
<1>4. Len(results) <= 1 /\ \A p \in Player : card_number'[p] <= TIE_CARD_NUMBER
  BY <1>1 DEF IInv
<1> QED
  BY <1>1, <1>2, <1>3, <1>4, RoundStep

LEMMA MoveAcceptedStep == ASSUME IInv, MoveAccepted PROVE IInv'
<1>1. /\ Takes({"/m"}) /\ (SameId \/ sender = current_move)
      /\ elapsed' = Front.age
      /\ last_move' = Front.bid /\ current_combination' = Front.bid
      /\ wants_tie' = [p \in Player |-> FALSE]
      /\ current_move' = negate(current_move)
      /\ author' = sender
      /\ thread' = "check"
      /\ overdue' \in BOOLEAN
      /\ UNCHANGED <<card_number, first_move, union_of_cards, finished, in_game, results>>
  BY DEF MoveAccepted, MoverTakes, makes_current_move, EvaluateDeadline
<1>2. /\ thread = "process" /\ sender \in Player /\ Front.bid \in Bid /\ Front.age \in Time
      /\ command_queue' \in Seq(Command)
      /\ UNCHANGED session
  BY <1>1, Taken
<1>3. current_move \in Player /\ negate(current_move) \in Player
      /\ negate(negate(current_move)) = current_move
  BY DEF IInv, TypeOK, negate, Player, FIRST_PLAYER_MOVE, SECOND_PLAYER_MOVE
<1>4. TypeOK'
  BY <1>1, <1>2, <1>3 DEF IInv, TypeOK
<1>5. LastMoveAttributed'
  BY <1>1, <1>3 DEF LastMoveAttributed
<1> QED
  BY <1>1, <1>2, <1>4, <1>5 DEF IInv, UndecidedWhilePlaying, AtMostOneStrayFinish

LEMMA DeadlineMissedStep == ASSUME IInv, DeadlineMissed PROVE IInv'
<1>1. /\ thread = "check" /\ ~finished
      /\ UNCHANGED <<command_queue, overdue, session, author>>
  BY DEF DeadlineMissed
<1>2. command_queue' \in Seq(Command) /\ overdue' \in BOOLEAN
  BY <1>1, RoundType
<1>3. CASE \A p \in Player : card_number[p] = START_CARD_NUMBER
  <2>1. /\ UNCHANGED <<card_number, round, elapsed>>
        /\ finish("TIE_IN_GAME")
        /\ thread' = "process"
    BY <1>3 DEF DeadlineMissed
  <2>2. /\ card_number' \in CardNumbers /\ wants_tie' \in [Player -> BOOLEAN]
        /\ \A p \in Player : card_number'[p] <= TIE_CARD_NUMBER
    BY <1>1, <2>1, RoundType DEF IInv, round
  <2>3. /\ results' \in Seq(FinishCall)
        /\ Len(results') = Len(results) + 1
        /\ finished' = TRUE
        /\ in_game' \in [Player -> BOOLEAN]
    BY <2>1, <2>2, FinishType DEF IInv, RoundResult
  <2>4. Len(results) = 0
    BY <1>1 DEF IInv, AtMostOneStrayFinish
  <2> QED
    BY <1>1, <1>2, <2>1, <2>2, <2>3, <2>4, FinishStep DEF round
<1>4. CASE ~(\A p \in Player : card_number[p] = START_CARD_NUMBER)
  <2>1. player_loses_round(current_move, "process")
    BY <1>4 DEF DeadlineMissed
  <2>2. current_move \in Player
    BY DEF IInv, TypeOK
  <2> QED
    BY <1>1, <1>2, <2>1, <2>2, LoseStep
<1> QED
  BY <1>3, <1>4

LEMMA TickStep == ASSUME IInv, Tick PROVE IInv'
<1>1. /\ Running
      /\ elapsed' = Older(elapsed)
      /\ command_queue' = [i \in DOMAIN command_queue |->
                              [command_queue[i] EXCEPT !.age = Older(@)]]
      /\ UNCHANGED <<card_number, round, finished, in_game, thread, overdue, session, history>>
  BY DEF Tick, history
<1>2. elapsed' \in Time
  BY <1>1, RoundType, ConstantsAssumption DEF Older, Time
<1>3. command_queue' \in Seq(Command)
  BY <1>1, RoundType, AgedQueue
<1>4. overdue' \in BOOLEAN /\ session' \in [Player -> {"up", "waiting_reconnect", "closed"}]
  BY <1>1, RoundType
<1> QED
  BY <1>1, <1>2, <1>3, <1>4, QuietStep DEF Running, IInv

LEMMA ReceiveStep == ASSUME IInv, NEW p \in Player, Receive(p) PROVE IInv'
<1>0. TypeOK
  BY DEF IInv
<1>1. /\ Running
      /\ UNCHANGED <<card_number, round, elapsed, finished, in_game, thread, overdue, history>>
  BY DEF Receive, push_command, push_reconnect, push_disconnect, LoseConnection,
         RangeError, Push
<1>2. command_queue' \in Seq(Command)
  <2>1. CASE push_command(p)
    <3>1. PICK text \in Lines, b \in Bid : Push(p, "MOVE_COMMAND", text, b)
      BY <2>1 DEF push_command, Bid
    <3>2. text \in KnownLines \cup {""}
      BY ConstantsAssumption
    <3> QED
      BY <1>0, <3>1, <3>2, PushType
  <2>2. CASE LoseConnection(p) \/ RangeError(p)
    BY <2>2, RoundType DEF LoseConnection, RangeError
  <2>3. CASE push_reconnect(p)
    BY <1>0, <2>3, PushType DEF push_reconnect, Bid
  <2>4. CASE push_disconnect(p)
    BY <1>0, <2>4, PushType DEF push_disconnect, Bid
  <2> QED
    BY <2>1, <2>2, <2>3, <2>4 DEF Receive
<1>3. session' \in [Player -> {"up", "waiting_reconnect", "closed"}]
  BY RoundType DEF Receive, push_command, push_reconnect, push_disconnect,
                   LoseConnection, RangeError
<1>4. elapsed' \in Time /\ overdue' \in BOOLEAN
  BY <1>1, RoundType
<1> QED
  BY <1>1, <1>2, <1>3, <1>4, QuietStep DEF Running, IInv

LEMMA RepliesStep ==
    ASSUME IInv,
           \/ Query \/ NotYourMove \/ Chat \/ ForbiddenOnFirstMove \/ MoveRefused
           \/ Reconnected \/ EmptyQueue
    PROVE  IInv'
<1>1. OnlyReplies /\ UNCHANGED session /\ thread = "process"
  BY DEF Query, NotYourMove, Chat, ForbiddenOnFirstMove, MoveRefused, Reconnected,
         EmptyQueue, MoverTakes, Takes
<1>2. \/ command_queue' = command_queue
      \/ command_queue # <<>> /\ command_queue' = Tail(command_queue)
  BY DEF Query, NotYourMove, Chat, ForbiddenOnFirstMove, MoveRefused, Reconnected,
         EmptyQueue, MoverTakes, Takes
<1>3. command_queue' \in Seq(Command)
  BY <1>2, HeadType, RoundType DEF IInv
<1> QED
  BY <1>1, <1>3, ReplyStep

LEMMA CheckStep == ASSUME IInv, DeadlineKept \/ Terminate \/ OpenDatabaseFails PROVE IInv'
<1>1. UNCHANGED <<card_number, round, elapsed, command_queue, finished, in_game,
                  overdue, session, history>>
  BY DEF DeadlineKept, Terminate, OpenDatabaseFails
<1>2. /\ elapsed' \in Time /\ overdue' \in BOOLEAN /\ command_queue' \in Seq(Command)
      /\ session' \in [Player -> {"up", "waiting_reconnect", "closed"}]
  BY <1>1, RoundType
<1>3. \/ thread = "check" /\ ~finished /\ thread' = "process"
      \/ thread = "check" /\ thread' = "stopped"
      \/ thread = "start" /\ thread' = "dead"
  BY DEF DeadlineKept, Terminate, OpenDatabaseFails
<1>4. ~finished => Len(results) = 0
  BY DEF IInv, AtMostOneStrayFinish
<1>5. thread' \in {"start", "process", "dead"} => Len(results) <= 1
  BY <1>3, <1>4 DEF IInv
<1> QED
  BY <1>1, <1>2, <1>3, <1>5, QuietStep

\* Every step keeps the invariant.
THEOREM StepInvariant == IInv /\ [Next]_vars => IInv'
<1> SUFFICES ASSUME IInv, [Next]_vars PROVE IInv'
  OBVIOUS
<1>1. CASE StartGame
  BY <1>1, StartGameStep
<1>2. CASE Concede
  BY <1>2, ConcedeStep
<1>3. CASE Tie
  BY <1>3, TieStep
<1>4. CASE \/ Query \/ NotYourMove \/ Chat \/ ForbiddenOnFirstMove \/ MoveRefused
           \/ Reconnected \/ EmptyQueue
  BY <1>4, RepliesStep
<1>5. CASE Reveal \/ BlockWrong
  BY <1>5, LosingStep
<1>6. CASE BlockRight
  BY <1>6, BlockRightStep
<1>7. CASE MoveAccepted
  BY <1>7, MoveAcceptedStep
<1>8. CASE Disconnected
  BY <1>8, DisconnectedStep
<1>9. CASE DeadlineMissed
  BY <1>9, DeadlineMissedStep
<1>10. CASE DeadlineKept \/ Terminate \/ OpenDatabaseFails
  BY <1>10, CheckStep
<1>11. CASE \E p \in Player : Receive(p)
  BY <1>11, ReceiveStep
<1>12. CASE Tick
  BY <1>12, TickStep
<1>13. CASE UNCHANGED vars
  BY <1>13 DEF vars, round, history, IInv, TypeOK, LastMoveAttributed,
               UndecidedWhilePlaying, AtMostOneStrayFinish
<1> QED
  BY <1>1, <1>2, <1>3, <1>4, <1>5, <1>6, <1>7, <1>8, <1>9, <1>10, <1>11, <1>12, <1>13
     DEF Next, GameThread, Handle, Check

-----------------------------------------------------------------------------
(* The theorems.                                                           *)

\* Every reachable state satisfies the inductive invariant.
THEOREM Invariance == Spec => []IInv
BY InitInvariant, StepInvariant, PTL DEF Spec

\* Every variable of the game keeps its type.
THEOREM TypeCorrect == Spec => []TypeOK
<1>1. IInv => TypeOK
  BY DEF IInv
<1> QED
  BY <1>1, Invariance, PTL

\* The deck holds the cards of every deal, in a running game and in the round a
\* stray command starts after its end.
THEOREM DeckIsEnough == Spec => []DeckSuffices
<1>1. IInv => DeckSuffices
  <2>1. \A p \in Player : TypeOK => card_number[p] \in Int
    BY ConstantsAssumption DEF TypeOK
  <2>2. 0 \in Player /\ 1 \in Player
    BY DEF Player, FIRST_PLAYER_MOVE, SECOND_PLAYER_MOVE
  <2> QED
    BY <2>1, <2>2, ConstantsAssumption DEF IInv, DeckSuffices
<1> QED
  BY <1>1, Invariance, PTL

\* No game goes on past a score that decides it.
THEOREM PlayingIsUndecided == Spec => []UndecidedWhilePlaying
<1>1. IInv => UndecidedWhilePlaying
  BY DEF IInv
<1> QED
  BY <1>1, Invariance, PTL

\* /lastmove shows the combination in force, and names who bid it.
THEOREM LastMoveIsAttributed == Spec => []LastMoveAttributed
<1>1. IInv => LastMoveAttributed
  BY DEF IInv
<1> QED
  BY <1>1, Invariance, PTL

\* finish() is called at most twice in a game.
THEOREM FinishedAtMostTwice == Spec => []AtMostOneStrayFinish
<1>1. IInv => AtMostOneStrayFinish
  BY DEF IInv
<1> QED
  BY <1>1, Invariance, PTL

=============================================================================

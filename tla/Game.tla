-------------------------------- MODULE Game --------------------------------
(***************************************************************************)
(* One duel of the CardBluff server: the Game object of                    *)
(* src/CardBluffServer/game.cpp, the game thread that runs process() on it *)
(* (main.cpp, game_thread) and the two receive threads that push commands  *)
(* into its queue (main.cpp, client_to_server).                            *)
(*                                                                         *)
(* process() is two steps here, because the receive threads and the clock  *)
(* run between them: the handling of one queued command (or of an empty    *)
(* queue), with the deadline evaluated from the `now' read at its start,   *)
(* and the check of that deadline.  The data abstracted away are the cards *)
(* and the combinations: a combination is its rank in the order of         *)
(* Hand::less_combination, and a deal says which ranks the union of both   *)
(* hands contains and which of them /b takes for the best one.  Module     *)
(* Combinations has the hands themselves.                                  *)
(***************************************************************************)
EXTENDS Integers, Sequences, FiniteSets

CONSTANTS
    START_CARD_NUMBER, EQUALITY_CARD_NUMBER, TIE_CARD_NUMBER, ALL_CARDS,
    MOVE_TIMEOUT,      \* in ticks of the clock
    MaxCombination,    \* combinations are 1 .. MaxCombination, 0 is NOTHING
    Lines,             \* the kinds of text the players type
    SameId,            \* both clients have the id of one row of the database
    MaxQueue,          \* bound: the command queue of the code has none
    Prompt             \* TRUE: the game thread outruns the clock

KnownLines == {"/concede", "/tie", "/tr", "/cards", "/lastmove",
               "/r", "/b", "/m", "chat"}

\* common.h: 5, 10, 26 and 52 cards, 60 seconds.
ASSUME ConstantsAssumption ==
    /\ START_CARD_NUMBER \in Nat \ {0}
    /\ EQUALITY_CARD_NUMBER \in Nat
    /\ TIE_CARD_NUMBER \in Nat
    /\ ALL_CARDS \in Nat
    /\ START_CARD_NUMBER < TIE_CARD_NUMBER
    /\ EQUALITY_CARD_NUMBER <= TIE_CARD_NUMBER
    /\ 2 * TIE_CARD_NUMBER <= ALL_CARDS
    /\ MOVE_TIMEOUT \in Nat \ {0}
    /\ MaxCombination \in Nat \ {0}
    /\ Lines \subseteq KnownLines
    /\ SameId \in BOOLEAN
    /\ MaxQueue \in Nat
    /\ Prompt \in BOOLEAN

FIRST_PLAYER_MOVE == 0
SECOND_PLAYER_MOVE == 1
Player == {FIRST_PLAYER_MOVE, SECOND_PLAYER_MOVE}

NOTHING == 0
Combination == 1 .. MaxCombination
Unparsed == 0         \* the text of a /m that parse_m_command refuses
Bid == Combination \cup {NOTHING}
Time == 0 .. MOVE_TIMEOUT

RoundResult == {"FIRST_PLAYER_LOST_GAME", "SECOND_PLAYER_LOST_GAME", "TIE_IN_GAME"}

Command == [sender : Player,
            type   : {"MOVE_COMMAND", "RECONNECT", "DISCONNECT"},
            cmd    : KnownLines \cup {""},
            bid    : Bid,
            age    : Time]      \* time since Command::t, the moment of the push

\* best = NOTHING: the best combination of the hand is not one /m can name.
Deal == {d \in [present : SUBSET Combination, best : Bid] :
            d.best \in d.present \cup {NOTHING}}

VARIABLES
    card_number,          \* Game::card_number
    first_move,
    current_move,
    current_combination,
    union_of_cards,
    wants_tie,            \* first_player_wants_tie, second_player_wants_tie
    last_move,            \* the bid whose text it is, NOTHING for L""
    elapsed,              \* now - move_start_time, capped at MOVE_TIMEOUT
    command_queue,
    finished,
    in_game,              \* Client::in_game, and with it Client::state = IN_GAME
    thread,               \* where the game thread is
    overdue,              \* get_remaining_move_time(now) <= 0.0
    session,              \* where the receive thread of each player is
    results,              \* history: the calls of finish()
    author                \* history: who made the last accepted bid

round == <<first_move, union_of_cards, last_move, current_combination,
           current_move, wants_tie>>
history == <<results, author>>
vars == <<card_number, round, elapsed, command_queue, finished, in_game,
          thread, overdue, session, history>>

TypeOK ==
    /\ card_number \in [Player -> START_CARD_NUMBER .. TIE_CARD_NUMBER + 1]
    /\ first_move \in Player
    /\ current_move \in Player
    /\ current_combination \in Bid
    /\ union_of_cards \in Deal
    /\ wants_tie \in [Player -> BOOLEAN]
    /\ last_move \in Bid
    /\ elapsed \in Time
    /\ command_queue \in Seq(Command)
    /\ finished \in BOOLEAN
    /\ in_game \in [Player -> BOOLEAN]
    /\ thread \in {"start", "process", "check", "stopped", "aborted", "dead"}
    /\ overdue \in BOOLEAN
    /\ session \in [Player -> {"up", "waiting_reconnect", "closed"}]
    /\ results \in Seq([res : RoundResult,
                        numbers : [Player -> START_CARD_NUMBER .. TIE_CARD_NUMBER + 1]])
    /\ author \in Player

-----------------------------------------------------------------------------
(* The rules of a round and of the game.                                   *)

negate(p) == 1 - p

\* The ids of the clients are compared, not the clients.
makes_current_move(p) == SameId \/ p = current_move

check_combination(c) == c \in union_of_cards.present

is_best_combination(c) == check_combination(c) /\ c = union_of_cards.best

\* Mutant: a bid may repeat the current combination.
less_or_equal_combination(c, d) == c <= d

less_combination(c, d) == c < d

\* Mutant: no upper bound is asserted.
game_result_asserts_lower_bound(n) == \A p \in Player : START_CARD_NUMBER <= n[p]

\* The assertions at the head of game_result.
game_result_asserts(n) ==
    \A p \in Player : START_CARD_NUMBER <= n[p] /\ n[p] <= TIE_CARD_NUMBER

TieReached(n) == \A p \in Player : n[p] = TIE_CARD_NUMBER

BelowEquality(n) == \A p \in Player : n[p] < EQUALITY_CARD_NUMBER

AlmostEqual(n) ==
    \/ n[0] = n[1]
    \/ n[0] + 1 = n[1]
    \/ n[0] = n[1] + 1

LostGame(p) == IF p = FIRST_PLAYER_MOVE THEN "FIRST_PLAYER_LOST_GAME"
                                        ELSE "SECOND_PLAYER_LOST_GAME"

\* Mutant: the player with fewer cards loses.
game_result_swapped(n) ==
    IF TieReached(n) THEN "TIE_IN_GAME"
    ELSE IF BelowEquality(n) \/ AlmostEqual(n) THEN "CONTINUE"
    ELSE LostGame(IF n[0] < n[1] THEN FIRST_PLAYER_MOVE ELSE SECOND_PLAYER_MOVE)

\* "CONTINUE" is the 3 of the code, "TIE_IN_GAME" its 2.
game_result(n) ==
    IF TieReached(n) THEN "TIE_IN_GAME"
    ELSE IF BelowEquality(n) \/ AlmostEqual(n) THEN "CONTINUE"
    ELSE LostGame(IF n[0] > n[1] THEN FIRST_PLAYER_MOVE ELSE SECOND_PLAYER_MOVE)

\* Mutant: last_move and move_start_time survive into the next round.
start_round_without_reset ==
    /\ current_combination' = NOTHING
    /\ wants_tie' = [p \in Player |-> FALSE]
    /\ first_move' = negate(first_move)
    /\ current_move' = negate(first_move)
    /\ union_of_cards' \in Deal
    /\ UNCHANGED <<last_move, elapsed>>

start_round ==
    /\ current_combination' = NOTHING
    /\ last_move' = NOTHING
    /\ wants_tie' = [p \in Player |-> FALSE]
    /\ first_move' = negate(first_move)
    /\ current_move' = negate(first_move)
    /\ union_of_cards' \in Deal
    /\ elapsed' = 0

finish(res) ==
    /\ results' = Append(results, [res |-> res, numbers |-> card_number'])
    /\ finished' = TRUE
    /\ in_game' = [p \in Player |-> FALSE]

\* Mutant: game_result looks at the numbers before the card is added.
player_loses_round_late(p, next) ==
    /\ card_number' = [card_number EXCEPT ![p] = @ + 1]
    /\ \/ /\ ~game_result_asserts(card_number)
          /\ thread' = "aborted"
          /\ UNCHANGED <<round, elapsed, finished, in_game, results>>
       \/ /\ game_result_asserts(card_number)
          /\ game_result(card_number) = "CONTINUE"
          /\ start_round
          /\ thread' = next
          /\ UNCHANGED <<finished, in_game, results>>
       \/ /\ game_result_asserts(card_number)
          /\ game_result(card_number) # "CONTINUE"
          /\ finish(game_result(card_number))
          /\ thread' = next
          /\ UNCHANGED <<round, elapsed>>

\* The thread goes on at `next', unless an assertion of game_result fails:
\* no build of the server defines NDEBUG, so that ends the whole process.
player_loses_round(p, next) ==
    LET n == [card_number EXCEPT ![p] = @ + 1] IN
    /\ card_number' = n
    /\ \/ /\ ~game_result_asserts(n)
          /\ thread' = "aborted"
          /\ UNCHANGED <<round, elapsed, finished, in_game, results>>
       \/ /\ game_result_asserts(n)
          /\ game_result(n) = "CONTINUE"
          /\ start_round
          /\ thread' = next
          /\ UNCHANGED <<finished, in_game, results>>
       \/ /\ game_result_asserts(n)
          /\ game_result(n) # "CONTINUE"
          /\ finish(game_result(n))
          /\ thread' = next
          /\ UNCHANGED <<round, elapsed>>

-----------------------------------------------------------------------------
(* The constructor, and the start of the game thread.                      *)

Init ==
    /\ card_number = [p \in Player |-> START_CARD_NUMBER]
    /\ first_move \in Player
    /\ current_move = first_move             \* uninitialised, and not read
    /\ current_combination = NOTHING
    /\ union_of_cards = [present |-> {}, best |-> NOTHING]
    /\ wants_tie = [p \in Player |-> FALSE]  \* uninitialised, and not read
    /\ last_move = NOTHING
    /\ elapsed = 0
    /\ command_queue = <<>>
    /\ finished = FALSE
    /\ in_game = [p \in Player |-> TRUE]
    /\ thread = "start"
    /\ overdue = FALSE
    /\ session = [p \in Player |-> "up"]
    /\ results = <<>>
    /\ author = FIRST_PLAYER_MOVE

StartGame ==
    /\ thread = "start"
    /\ start_round
    /\ thread' = "process"
    /\ UNCHANGED <<card_number, command_queue, finished, in_game, overdue,
                   session, results, author>>

\* game_thread returns, and leaves both players in the game.
OpenDatabaseFails ==
    /\ thread = "start"
    /\ thread' = "dead"
    /\ UNCHANGED <<card_number, round, elapsed, command_queue, finished,
                   in_game, overdue, session, history>>

-----------------------------------------------------------------------------
(* process(), first half: the command at the head of the queue.            *)

Front == Head(command_queue)
sender == Front.sender

\* Takes a command of one of these texts, with `now' read in the same
\* critical section; the deadline is evaluated after the handler, on that now.
Takes(texts) ==
    /\ thread = "process"
    /\ command_queue # <<>>
    /\ Front.type = "MOVE_COMMAND"
    /\ Front.cmd \in texts
    /\ command_queue' = Tail(command_queue)
    /\ UNCHANGED session

MoverTakes(texts) == Takes(texts) /\ makes_current_move(sender)

\* Mutant: the deadline is only looked at when the queue is empty.
EvaluateDeadlineWhenIdle == overdue' = (command_queue = <<>> /\ elapsed' = MOVE_TIMEOUT)

EvaluateDeadline == overdue' = (elapsed' = MOVE_TIMEOUT)

Concede ==
    /\ Takes({"/concede"})
    /\ UNCHANGED card_number
    /\ finish(LostGame(sender))
    /\ thread' = "check"
    /\ UNCHANGED <<round, elapsed, author>>
    /\ EvaluateDeadline

Tie ==
    /\ Takes({"/tie"})
    /\ UNCHANGED card_number
    /\ LET wishes == [wants_tie EXCEPT ![sender] = TRUE] IN
       /\ wants_tie' = wishes
       /\ IF \A p \in Player : wishes[p]
          THEN finish("TIE_IN_GAME")
          ELSE UNCHANGED <<results, finished, in_game>>
    /\ thread' = "check"
    /\ UNCHANGED <<first_move, current_move, current_combination, union_of_cards,
                   last_move, elapsed, author>>
    /\ EvaluateDeadline

\* Answers and refusals: nothing changes but the messages sent.
OnlyReplies ==
    /\ thread' = "check"
    /\ UNCHANGED <<card_number, round, elapsed, finished, in_game, history>>
    /\ EvaluateDeadline

Query == Takes({"/tr", "/cards", "/lastmove"}) /\ OnlyReplies

NotYourMove ==
    /\ Takes({"/r", "/b", "/m", "chat"})
    /\ ~makes_current_move(sender)
    /\ OnlyReplies

Chat == MoverTakes({"chat"}) /\ OnlyReplies

ForbiddenOnFirstMove ==
    /\ MoverTakes({"/r", "/b"})
    /\ current_combination = NOTHING
    /\ OnlyReplies

Reveal ==
    /\ MoverTakes({"/r"})
    /\ current_combination # NOTHING
    /\ player_loses_round(IF check_combination(current_combination)
                          THEN current_move ELSE negate(current_move), "check")
    /\ EvaluateDeadline
    /\ UNCHANGED author

BlockWrong ==
    /\ MoverTakes({"/b"})
    /\ current_combination # NOTHING
    /\ ~is_best_combination(current_combination)
    /\ player_loses_round(current_move, "check")
    /\ EvaluateDeadline
    /\ UNCHANGED author

\* tie_in_round
BlockRight ==
    /\ MoverTakes({"/b"})
    /\ current_combination # NOTHING
    /\ is_best_combination(current_combination)
    /\ start_round
    /\ thread' = "check"
    /\ EvaluateDeadline
    /\ UNCHANGED <<card_number, finished, in_game, results, author>>

MoveRefused ==
    /\ MoverTakes({"/m"})
    /\ Front.bid = Unparsed \/ ~less_combination(current_combination, Front.bid)
    /\ OnlyReplies

MoveAccepted ==
    /\ MoverTakes({"/m"})
    /\ Front.bid # Unparsed
    /\ less_combination(current_combination, Front.bid)
    /\ elapsed' = Front.age
    /\ last_move' = Front.bid
    /\ wants_tie' = [p \in Player |-> FALSE]
    /\ current_combination' = Front.bid
    /\ current_move' = negate(current_move)
    /\ author' = sender
    /\ thread' = "check"
    /\ EvaluateDeadline
    /\ UNCHANGED <<card_number, first_move, union_of_cards, finished, in_game, results>>

Reconnected ==
    /\ thread = "process"
    /\ command_queue # <<>>
    /\ Front.type = "RECONNECT"
    /\ command_queue' = Tail(command_queue)
    /\ OnlyReplies
    /\ UNCHANGED session

Disconnected ==
    /\ thread = "process"
    /\ command_queue # <<>>
    /\ Front.type = "DISCONNECT"
    /\ command_queue' = Tail(command_queue)
    /\ UNCHANGED card_number
    /\ finish(LostGame(sender))
    /\ thread' = "check"
    /\ UNCHANGED <<round, elapsed, session, author>>
    /\ EvaluateDeadline

\* Sleep(10) on an empty queue.
EmptyQueue ==
    /\ thread = "process"
    /\ command_queue = <<>>
    /\ OnlyReplies
    /\ UNCHANGED <<command_queue, session>>

-----------------------------------------------------------------------------
(* process(), second half: the deadline.  A game that finishes here does   *)
(* not terminate the loop: process() runs once more.                       *)

DeadlineKept ==
    /\ thread = "check"
    /\ ~finished
    /\ ~overdue
    /\ thread' = "process"
    /\ UNCHANGED <<card_number, round, elapsed, command_queue, finished, in_game,
                   overdue, session, history>>

\* Mutant: a missed deadline only starts another round.
DeadlineMissedForFree ==
    /\ thread = "check"
    /\ ~finished
    /\ overdue
    /\ start_round
    /\ thread' = "process"
    /\ UNCHANGED <<card_number, command_queue, finished, in_game, overdue,
                   session, history>>

DeadlineMissed ==
    /\ thread = "check"
    /\ ~finished
    /\ overdue
    /\ IF \A p \in Player : card_number[p] = START_CARD_NUMBER
       THEN /\ UNCHANGED card_number
            /\ finish("TIE_IN_GAME")
            /\ thread' = "process"
            /\ UNCHANGED <<round, elapsed>>
       ELSE player_loses_round(current_move, "process")
    /\ UNCHANGED <<command_queue, overdue, session, author>>

\* Mutant: the thread first empties the queue.
TerminateWhenIdle ==
    /\ thread = "check"
    /\ finished
    /\ thread' = IF command_queue = <<>> THEN "stopped" ELSE "process"
    /\ UNCHANGED <<card_number, round, elapsed, command_queue, finished, in_game,
                   overdue, session, history>>

Terminate ==
    /\ thread = "check"
    /\ finished
    /\ thread' = "stopped"
    /\ UNCHANGED <<card_number, round, elapsed, command_queue, finished, in_game,
                   overdue, session, history>>

-----------------------------------------------------------------------------
(* The receive threads and the clock.                                      *)

Running == thread \in {"start", "process", "check"}

Push(p, type, text, b) ==
    /\ Running
    /\ Len(command_queue) < MaxQueue
    /\ command_queue' = Append(command_queue,
            [sender |-> p, type |-> type, cmd |-> text, bid |-> b, age |-> 0])
    /\ UNCHANGED <<card_number, round, elapsed, finished, in_game, thread,
                   overdue, history>>

\* The receive thread may have read the client's state before the game
\* finished, so a push is possible until the thread has stopped.
push_command(p) ==
    /\ session[p] = "up"
    /\ \E text \in Lines :
         \E b \in (IF text = "/m" THEN Bid ELSE {NOTHING}) :
            Push(p, "MOVE_COMMAND", text, b)
    /\ UNCHANGED session

LoseConnection(p) ==
    /\ Running
    /\ session[p] = "up"
    /\ session' = [session EXCEPT ![p] = "waiting_reconnect"]
    /\ UNCHANGED <<card_number, round, elapsed, command_queue, finished, in_game,
                   thread, overdue, history>>

push_reconnect(p) ==
    /\ session[p] = "waiting_reconnect"
    /\ Push(p, "RECONNECT", "", NOTHING)
    /\ session' = [session EXCEPT ![p] = "up"]

\* RECONNECT_TIMEOUT ended
push_disconnect(p) ==
    /\ session[p] = "waiting_reconnect"
    /\ Push(p, "DISCONNECT", "", NOTHING)
    /\ session' = [session EXCEPT ![p] = "closed"]

\* Data that is not UTF-8: the thread leaves without a word to the game.
RangeError(p) ==
    /\ Running
    /\ session[p] = "up"
    /\ session' = [session EXCEPT ![p] = "closed"]
    /\ UNCHANGED <<card_number, round, elapsed, command_queue, finished, in_game,
                   thread, overdue, history>>

\* Mutant: the cap on the clock is off by one.
OlderUncapped(t) == IF t <= MOVE_TIMEOUT THEN t + 1 ELSE t

Older(t) == IF t < MOVE_TIMEOUT THEN t + 1 ELSE t

Tick ==
    /\ Running
    /\ Prompt => thread = "process" /\ command_queue = <<>> /\ elapsed < MOVE_TIMEOUT
    /\ elapsed' = Older(elapsed)
    /\ command_queue' = [i \in DOMAIN command_queue |->
                            [command_queue[i] EXCEPT !.age = Older(@)]]
    /\ UNCHANGED <<card_number, round, finished, in_game, thread, overdue,
                   session, results, author>>

-----------------------------------------------------------------------------
Handle ==
    \/ Concede \/ Tie \/ Query \/ NotYourMove \/ Chat \/ ForbiddenOnFirstMove
    \/ Reveal \/ BlockWrong \/ BlockRight \/ MoveRefused \/ MoveAccepted
    \/ Reconnected \/ Disconnected \/ EmptyQueue

Check == DeadlineKept \/ DeadlineMissed \/ Terminate

GameThread == StartGame \/ Handle \/ Check

Receive(p) ==
    \/ push_command(p)
    \/ LoseConnection(p)
    \/ push_reconnect(p)
    \/ push_disconnect(p)
    \/ RangeError(p)

Next ==
    \/ GameThread
    \/ OpenDatabaseFails
    \/ \E p \in Player : Receive(p)
    \/ Tick

Spec == Init /\ [][Next]_vars

\* process() is called for ever and Sleep returns: the thread runs; time passes.
FairSpec == Spec /\ WF_vars(GameThread) /\ WF_vars(Tick)

-----------------------------------------------------------------------------
(* What the game promises.                                                 *)

\* The deck is large enough for every deal, so generate_cards never copies
\* past its end: the cap on the card numbers is what game_result asserts.
DeckSuffices ==
    thread # "aborted" => card_number[0] + card_number[1] <= ALL_CARDS

\* A game that is still being played is one the rules leave undecided,
\* whatever lost rounds, ties, deadlines and stray commands led to it: nobody has
\* EQUALITY_CARD_NUMBER cards and two more than the opponent.
UndecidedWhilePlaying ==
    ~finished /\ thread # "aborted" =>
        /\ \E p \in Player : card_number[p] # TIE_CARD_NUMBER
        /\ \A p \in Player : \/ card_number[p] < EQUALITY_CARD_NUMBER
                             \/ card_number[p] < card_number[negate(p)] + 2

\* /lastmove names the right author: the last bid of the round was made by the
\* player who is not on move (get_currently_not_moving_player), and it is the
\* combination now to be revealed or beaten.  Two clients of one id may each bid
\* for the other; they have one nickname, so the author's name is right even then.
LastMoveAttributed ==
    /\ last_move = current_combination
    /\ last_move # NOTHING => SameId \/ author = negate(current_move)

\* After the call of finish() at most one more command of the queue is handled,
\* so finish(), and with it the rating update, runs at most twice for a game.
AtMostOneStrayFinish ==
    /\ Len(results) <= 2
    /\ finished <=> results # <<>>

\* The inductive invariant behind these (GameProofs): the numbers stay under the
\* asserted limit, and the calls of finish() are bound to the game thread's place
\* in its loop: only between the deadline's finish and the next check can a
\* second one come.
IInv ==
    /\ TypeOK
    /\ thread # "aborted" => \A p \in Player : card_number[p] <= TIE_CARD_NUMBER
    /\ thread \in {"start", "process", "dead"} => Len(results) <= 1
    /\ thread = "start" => ~finished
    /\ UndecidedWhilePlaying
    /\ LastMoveAttributed
    /\ AtMostOneStrayFinish

\* game.cpp:259-262, the assertions of game_result.
AssertionsHold == thread # "aborted"

\* game.h:78, about finish(): the client that finishes the game always loses it.
\* Who has lost the game does not change once finish() has been called.  The code does
\* not keep this one: with "/concede" among the Lines of Game_assert.cfg TLC finds the
\* second finish() within seconds.
LoserStands ==
    [][results # <<>> => results' = results]_vars

\* Every round ends, by a reveal, a block, a deadline or the end of the game,
\* however many bids and other lines the players send.
RoundEnds ==
    \A p \in Player : first_move = p /\ Running ~> first_move # p \/ ~Running

\* A game that does not end is tied in rounds for ever: every other round costs
\* a card, and the cards are limited.
GameEndsUnlessTied == []<><<BlockRight>>_vars \/ <>~Running

\* When the receive thread of a player has left, the game thread ends, which is
\* what client_to_server_cleanup waits for (main.cpp:231-233).  Not so if both have
\* one id: the other can then move for both of them, bidding and blocking for ever.
DepartureEndsGame ==
    ~SameId => \A p \in Player : session[p] = "closed" ~> ~Running

-----------------------------------------------------------------------------
(* The abstract specification: what the first call of finish() decided is   *)
(* final, and until then the score is the number of cards.                  *)

DecidedScore == IF results = <<>> THEN card_number ELSE results[1].numbers

OutcomeOf(res) ==
    CASE res = "FIRST_PLAYER_LOST_GAME" -> "first lost"
      [] res = "SECOND_PLAYER_LOST_GAME" -> "second lost"
      [] OTHER -> "draw"

Verdict ==
    IF results # <<>> THEN OutcomeOf(results[1].res)
    ELSE IF thread = "aborted" THEN "crashed" ELSE "playing"

Rules == INSTANCE Match WITH score <- DecidedScore, outcome <- Verdict

\* The duel is decided by the rules of Match and by nothing else: every lost
\* round costs its loser one card, the game ends at the first decisive score, a
\* departure or a draw, against the right player, and it is rated from there.
ImplementsMatch == Rules!Spec

=============================================================================

# CardBluff server: TLA+ specifications and proofs

CardBluff is a card game for two players over TCP. Each player holds cards the
opponent does not see; on a turn a player bids a poker-like combination that is
higher than the last bid (`/m`), or has the last bid revealed (`/r`), or claims
that it is the best one in both hands (`/b`). The loser of a round gets one more
card, and the duel is decided by the numbers of cards. The server
(`src/CardBluffServer`) is a Win32 program in C++ with two threads per connection
and one per duel; `src/CardBluffClient` and `src/CardBluffClientWeb` are front
ends.

This directory specifies the server's own logic and the dialogue of both front ends
with it. `Game`, `Combinations`, `Lobby`, `SendQueue`, `Login` and `Ratings` follow the
code; `Match`, `Delivery` and `Transfer` are abstract specifications that `Game`,
`SendQueue` and `Ratings` implement; modules whose names begin with `MC` prepare a
specification for TLC; those that end in `Proofs` hold proofs for TLAPS.

## 1. Inventory

### 1.1 Game: one duel (`game.cpp`, `game.h`, `common.h`)

- State: the numbers of cards, the two hands, who opens the round and who is on
  move, the current combination, the wish of each player for a tie, the text of
  the last move, `move_start_time`, a queue of commands, `finished`.
- Operations: `process()` (one command, then the deadline), `make_move` with one
  branch per command, `start_round`, `generate_cards`, `player_loses_round`,
  `tie_in_round`, `game_result`, `finish`, and `push_command`, `push_reconnect`,
  `push_disconnect`, which other threads call.
- Interacts with the receive threads of both players (the queue under a mutex),
  with `Client` (messages, `in_game`, the state), `Hand` and `update_ratings`.
- Hard: a deadline that is evaluated after a command, from a time read before it;
  commands left in the queue when the game is finished; resets spread over three
  functions; limits of `common.h` that hold the deck and the assertions together.
- Correct if: no deal needs more cards than there are; the duel is decided once,
  by the rules, against the right player; a round and a game come to an end; a
  departed player does not keep the game thread running; a player has the whole
  of `MOVE_TIMEOUT`; `/lastmove` names the right player.

### 1.2 Hand: combinations (`combinations.cpp`, `combinations.h`)

- State: tables of a hand, filled by its constructor. Operations: one
  `find_best_...` and one `check_...` per combination, `find_best_combination`,
  `check_combination`, `is_best_combination`, `less_combination`,
  `parse_m_command`, `format_m_command`. Pure functions.
- Hard: ace-low straights, the order of suits and ranks, agreement between the
  search and the order of bids.
- Correct if: the announced combination is in the hand and can be bid, no true bid
  beats it, and `/b` judges by it.

### 1.3 Lobby (`main.cpp`, `client.cpp`, `util/unordered_set_mt.h`)

- State: the set `clients` and its mutex; of each client the nickname, the state of
  the login (`ClientState`), `authorized`, `waiting_reconnect`, `finding_duel`,
  `in_game`, `game`, `opponent`, the reconnect event; of each game its thread.
- Operations: `main` accepts; `client_to_server` logs a client in, takes its lines,
  waits for a reconnect, cleans up; `find_opponent` pairs two searching clients;
  `game_thread` runs a game and deletes it.
- Interaction: every setter of `Client` locks one variable for one assignment, so
  three threads write the state of a client; only the set is locked for longer.
- Hard: every race between `/fd`, `/cancel`, a lost connection, a cleanup, the
  matchmaker and `finish()`; objects deleted while another thread has a pointer.
- Correct if: nobody plays two duels at once; the client of a duel is in a game, that one; a
  client or game is not used after its delete; the cleanup ends; two searching
  clients meet; a returning player finds his session; a nickname is logged in once.

### 1.4 Client: send queue and send thread (`client.cpp`, `main.cpp:170-216`, `279-314`, `498-520`)

- State: of each client a queue of strings, the socket, `waiting_reconnect`, and two
  manual-reset events, `reconnect_event` and `terminate_event`.
- Operations: any thread appends (`push_string`); `server_to_client` sends each string
  as a frame of `SEND_BUFFER_SIZE` bytes, sleeps for one of the two events when that
  fails, and ends on `terminate_event`. A login under the nickname of a client that
  waits for a reconnect stops its own send thread, gives socket and queue
  (`copy_strings`) to the old client, wakes it and deletes itself.
- Hard: the threads of two clients and of a game share the events and the queues; the socket, the
  queue, the event and the mark change hands in separate statements; the timeout
  may end meanwhile.
- Correct if: no string is repeated, reordered or forgotten; no thread sleeps
  through a reconnect; the returning user is greeted.

### 1.5 Login and registration (`main.cpp:332-542`, `database.cpp`, the clients' main loops)

- State: of a receive thread the place in the dialogue, the nickname, the first
  password, the salt; the rows; of a front end its state, the salt, the last string.
- Operations: nickname, then a salted password hash, or a password twice for a new
  user; any other message ends the connection. The terminal client polls its socket
  and the keyboard in one loop, the web client reacts to callbacks.
- Hard: checks and what is done with their result are a dialogue apart; connections
  are reset or closed with strings under way; the terminal client processes the last
  string again when `recv` returns 0.
- Correct if: both sides agree on what comes next; nobody is authorized without
  the password of the row; a client that says it is authorized is; a user who waits is
  answered.

### 1.6 Ratings (`ratings.cpp`, `game.cpp:480-538`)

- State: the rating of each row, and the local variables of each update.
- Operation: read two rows, compute one `delta`, write two rows; each of the four
  statements may fail.
- Hard: game threads interleave, and one of two writes may fail; `in_game` belongs to a
  `Client` object, but two authorized clients of one nickname share a row, so a row can be
  in two games, or on both sides of one.
- Correct if: an update is one transfer, and the players are told what is stored, for every
  row that was not used twice at once.

### 1.7 Other parts

The rest of the database access (`db_get_top`), logger and utilities, the layout of
the two clients, and vendored code (SQLite, SHA-256, PDCurses, date).

## 2. Plan

The order in which the modules were written, the most important behaviour first:

1. `Game` with `Match`; the proofs of its invariants and of the refinement.
2. `Combinations`, which `Game` abstracts to the ranks of bids; the proof that search,
   checks and order agree.
3. `Lobby`, which sees of a game its start and its end, as `Game` sees of the
   lobby what its receive threads push; the proofs of its safety properties.
4. `SendQueue` with `Delivery`; the proofs that nobody sleeps through a reconnect and
   that no string is lost, repeated or overtaken.
5. `Login`, which composes both front ends with the receive threads and the rows; the
   proof that both sides keep step.
6. `Ratings` with `Transfer`; the proof of the refinement.

What could follow: an abstract specification of a session that `Lobby` and `Login` both
implement. Every safety property that a run shows is also a theorem; what is left to TLC
alone is liveness (section 5).

The modules that have theorems, and those they extend, have no RECURSIVE operator.

## 3. Modules and their correspondence to the code

### 3.1 Game

An action is what a thread does between two points at which another one may
interfere. `process()` is two steps:

| code | actions |
| --- | --- |
| `Game::Game`, `main.cpp:74-86` | `Init`, `StartGame`, `OpenDatabaseFails` |
| `process`, the command and `now` (`game.cpp:67-110`) with `make_move` | `Concede`, `Tie`, `Query`, `NotYourMove`, `Chat`, `ForbiddenOnFirstMove`, `Reveal`, `BlockWrong`, `BlockRight`, `MoveRefused`, `MoveAccepted`, `Reconnected`, `Disconnected`, `EmptyQueue` |
| `process`, the deadline and `*_terminate` (`game.cpp:118-137`) | `DeadlineKept`, `DeadlineMissed`, `Terminate` |
| receive threads | `push_command`, `LoseConnection`, `push_reconnect`, `push_disconnect`, `RangeError` |
| the clock | `Tick` |

`EvaluateDeadline` belongs to every action of the first half: the code computes the
remaining time after the handler, from the `now` that it read before it.

Abstractions. A combination is its place in the order of `less_combination`, `0` is
NOTHING (and the text `parse_m_command` refuses). A deal is not two hands but what
the game asks of their union: which ranks `check_combination` confirms, and which
one, if any, `is_best_combination` accepts; any such pair may be dealt. Times are
kept as ages, capped at `MOVE_TIMEOUT`. Messages are left out. A failed assertion
ends the process (`thread = "aborted"`; no project file defines NDEBUG).
`makes_current_move` compares the ids of the clients (`game.cpp:722-724`), which are equal if
both belong to one row: `SameId` says whether, for a whole duel. `results`
and `author` are history variables that nothing reads.

A receive thread reads the state of its client, and only later pushes; the state
may be obsolete by then, so pushes are possible until the game thread has stopped,
also into a finished game.

### 3.2 Match

A duel seen from its score: `LoseRound`, `Leave`, `Draw`, `Crash`. `Game` implements
it under `score <- DecidedScore`, `outcome <- Verdict`: until `finish()` is called
the score is the number of cards, afterwards it is the score of the first call.

### 3.3 Combinations

Ranks are `0 .. RANKS - 1` and suits `0 .. SUITS - 1`, as in the enumerations of
`combinations.h`. `Hand(cards)` is the record of the tables that the constructor
fills. Each `find_best_...`/`check_...` has an operator; the four functions for
equal ranks are one operator with the number as its parameter, for they differ in
nothing else. `ParseError` gives the error that `parse_m_command` returns for a list of
a type, ranks and a suit, `ParsedCombination` the sorted vector it stores.

### 3.4 Lobby

| code | actions |
| --- | --- |
| `main`, `accept` | `accept` |
| `client_to_server`, login | `NicknameReceived`, `LoginFails`, `PasswordAccepted`, `HandOver`, `Unmark` |
| `client_to_server`, lines | `LineReceived` (the state is read once, `main.cpp:330`), `FindDuel`, `NowWaitsOpponent`, `Cancel`, `NowWaitsEnterGame`, `GameLine`, `OtherLine` |
| `client_to_server`, connection | `ConnectionLost`, `Reconnected`, `ReconnectTimeout`, `RangeError` |
| `client_to_server_cleanup` | `Cleanup`, `WaitForHandle`, `WaitForThread`, `Erase` |
| `find_opponent`, `Client::enter_game` | `StartScan`, `Examine`, `EndScan`, `enter_game`, `ConstructGame`, `OpponentInGame`, `CreateThread`, `SetHandle` |
| `game_thread`, end of `finish` | `OpenDatabase`, `OpenDatabaseFails`, `finish`, `FinishAgain`, `ResetStates`, `DeleteGame` |

The receive thread's place in the code is `receive[c]`: while it handles a line it
is the state that it read at `main.cpp:330`, which other threads may have changed.
The matchmaker holds the mutex of `clients` from `StartScan` to `EndScan` or
`OpponentInGame` (`Unlocked`).

Abstractions. A client whose object is deleted is never used again; a step that
follows a pointer to a deleted or missing object sets `undefined`, and nothing is
said of what comes after. A registration and a password are one step each. The
send thread is left out: cleanup and hand-over stop it, and it always stops. A
returned client's `get_in_game` and its push (`main.cpp:302-303`, `309-310`) are in
`Game`. `FinishAgain` happens at most once for a game, as `Game` shows.

### 3.5 SendQueue and Delivery

| code | actions |
| --- | --- |
| `Client::push_string` by other threads | `push_string` |
| `server_to_client`, `send_from_queue` | `TerminateSeen`, `Send`, `SendFails`, `Wakes` |
| login of a client | `NicknameAccepted`, `LoginFails`, `PasswordAccepted` |
| bytes that are no UTF-8 (`main.cpp:321-328`) | `RangeError` |
| hand-over (`main.cpp:498-520`), a statement per action | `TerminateSender`, `set_socket`, `CopyString`, `SetReconnect`, `Unmark` |
| loss (`main.cpp:287-314`) | `RecvFails`, `ResetReconnect`, `MarkWaiting`, `Reconnected`, `ReconnectTimeout` |
| `client_to_server_cleanup` | `Cleanup` |
| user, network | `Break` |

All clients have one nickname, since clients of different nicknames share nothing
here. `link` is a connection, named after the client it was made for, `socket[c]` the
one that `c` uses. `send` may succeed on a connection whose loss is not yet noticed;
once it fails, so does `recv`. A string is a pair of client and number, and one
frame. `pushed`, `sent`, `discarded` and `contended` are history variables.

`Delivery` knows only which strings were pushed, which connection accepted them in which
order, and which died with their client; a string delivered must be the oldest
pending one of the client it was pushed to. The queues, the threads and the
hand-over are hidden; the mapping is the identity on the three history variables.

### 3.6 Login

| code | actions |
| --- | --- |
| terminal client, a turn of `while(!quit)` | `Turn` (`Recv`, then `Switch` with `Input` and `Send`), `Key`, `Connect` |
| web client, callbacks | `connect`, `socketCheckConnectionHandler`, `serverMessageHandler`, `inputHandler`, `socketCloseHandler` |
| `main`, `accept` | `Connects` |
| `client_to_server`, dialogue | `NicknameRefused`, `NicknameAccepted`, `FirstPassword`, `SecondPassword`, `LoginPassword`, `SetAuthorized`, `FindWaiting`, `WrongMessage` |
| `client_to_server`, rest | `HandOver`, `Line`, `Loss`, `ReconnectTimeout`, `Cleanup` |
| network | `Break` |

A connection is `up`, `closed` (by the server, what it has sent can be read) or `broken`
(reset). `up` and `down` are the strings under way. A hash is the pair of password
and salt, so two hashes are equal exactly if both are; that SHA-256 has no collisions
and salts do not repeat is assumed. What the terminal client finds in its receive
buffer before the first `recv` is uninitialised memory in the code, taken to be empty here.
`auth_ok!` is pushed before `set_authorized(true)` (`main.cpp:428-430`, `493-496`) while another
thread sends, so `SecondPassword` and `LoginPassword` end with the push, `SetAuthorized` is a step
of its own, and so is the look for an old client, `FindWaiting`. A line that a client sends in
between waits, for the thread that sets the flag is the one that will read the line.
The hand-over is one step: its order is the subject of `SendQueue`. The failures of
the database are disjuncts of the actions that call it.

### 3.7 Ratings and Transfer

`finish` chooses whose rows are updated; `GetWinner`, `GetLoser`, `SetWinner`, `SetLoser`
are the statements of `update_ratings`, `Fails` the failure of any; `Leave` is the end of
`finish()`, `FinishAgain` the second finish that `Game` allows. The formula is some
number from 0 to `RATING_K`. `enter_game` takes two clients that are in no game, as the
matchmaker does, and does not look at their rows: `id` gives each client a row, any two may
have the same, and `update_ratings` reads `winner_id` and `loser_id` off it. The history variable
`doubled` collects the rows that two clients in a game shared (in two games, or in one), and
those of a game finished twice, whose players may be in their next games by then.

`Ratings` implements `Transfer` under `rating <- Settled`, for the rows that are not `doubled`:
between the two writes the loser counts as having paid (`loser_r` of the game that owes). So
both points move at `SetWinner`, `SetLoser` stutters, and a `Fails` between the writes is the step
`ForgetLoss`. A row that becomes doubled leaves the promise (`Exclude`) and nothing else changes
in that step; the row of its opponent stays, and must win or lose exactly the points of the game.

## 4. Runs

| run | instance | shows |
| --- | --- | --- |
| rules | `Game`, 2 to 4 cards, all kinds of command that change anything, both clients of one id | types; the duel is decided by `Match` alone; at most one finish too many; the deck suffices; no decided game is played on |
| prompt | `MCGamePrompt`, queue of two, two combinations, two ticks | if the game thread is faster than the clock, nobody misses a deadline before he had all of `MOVE_TIMEOUT`; the last move is attributed to its author |
| liveness | `Game` with fairness, two ids | every round ends; every game ends unless rounds are tied for ever; a departure ends the game thread |
| combinations | `MCCombinations`, see below | the search for the best combination agrees with the order of bids; `/b` accepts a true bid, two pairs aside, exactly if no other one beats it, in every deal |
| rematch | `MCLobby`, 2 clients, 2 duels | nobody is in two unfinished duels; who plays one is `in_game` with it as his `game`, where his reconnect and disconnect are pushed; the matchmaker never holds a deleted client |
| lobby_liveness | `MCLobby` with fairness, 2 clients, 1 duel | cleanup ends; two searching clients meet |
| queue | `SendQueue` with fairness, 2 clients, 4 strings each | `Delivery` is implemented; nobody sleeps through a reconnect; no string stays in a queue for ever; a returning user is greeted |
| login | `Login` with fairness, one user of each front end, 1 nickname, 2 passwords, 2 connections | both sides keep step; acceptance needs the password, and what the client believes is so or about to be; who waits is let in or told of the end |
| ratings | `MCRatings`, 4 clients, 3 rows, 2 games | `Transfer` is implemented; what is told is stored |
| assert, twopairs, cleanup | one property each | section 6 |

Every property of a passing run has a mutant in `PROJECT.json`, a plausible slip in one
definition that makes TLC find the property violated; the mutated forms stand before
the definitions, marked "Mutant".

### Bounds and why they are enough

- The game depends on its four card numbers by comparisons only. With 2, 3, 4
  and 8 the start, equality and tie limits are distinct, `BelowEquality`,
  `AlmostEqual`, a decision with two cards more, the tie and the assertion are all
  reached; the theorems of section 5 have them for every value.
- `MaxCombination` (code: some thousands): with 1 there is a bid, and one that
  cannot be beaten; with 2 a bid beaten by another. Nothing looks at more than an order.
- `MaxQueue` (code: unbounded): with 1 a command can wait while a deadline is missed
  and the game is finished, which is all that `rules` depends on; the prompt run has 2, so that
  a command of the last turn and one of the next wait together. There no command ever gets
  older in the queue, for the clock rests while one waits: the run is about the resets of
  `move_start_time`, not about bids that wait (`cmd.t`, `game.cpp:443`).
- `MOVE_TIMEOUT` is 60 seconds in the code and 1 or 2 ticks here; all that is ever
  asked is whether the time is over. In the prompt run 2 separates a clock that was
  started late from one that was not started.
- `SameId`: with one id on both sides every player's `/r`, `/b` and `/m` count, and a command
  that only answers is still there (a refused bid), so `rules` has everything that two ids allow
  and more; `liveness` and `prompt` have two ids, for `DepartureEndsGame` and `LastMoveAttributed`
  ask for them. With one id TLC finds the first violated: the player who stays bids and
  blocks for both, for ever. The theorems have both values.
- `Lines`: `/cards`, `/tr`, `/lastmove` and chat are equal in `Query`, `NotYourMove`
  and `Chat` (they only answer), so one run has them (liveness, where it matters
  that they cannot hold a round up).
- Combinations: equal ranks need all four suits, straights and flushes many ranks
  and few suits. So every deal of at most six cards from the five highest ranks,
  and every deal of any size from two suits of seven ranks, which has two or more
  straights per suit, the ace-low one, and both beside flushes. The theorems have every
  deal of every deck of six ranks or more.
- `Client`, `Duel`, `Nickname`: the matchmaker looks at pairs, so two clients and two
  duels show a client in a second duel; a return needs a third connection. With
  one nickname any of the waiting clients may get the returning connection; that
  is the subject of `SendQueue`, and section 5 has the safety properties of `Lobby` for any
  number of clients. When all
  duels are used up the matchmaker rests; `SearchersMeet` says so.
- `SendQueue`: one client that is lost and one that returns; `Greeting` is 2, the two
  strings pushed before a hand-over, so their order can go wrong, and `MaxStrings` 4 leaves two
  pushes of other threads to each client before, during and after. A third client
  is where two hand-overs to one old client overlap (`contended`); with two it
  cannot happen, and `WokenCorrect` and `DeliveryCorrect` cover any number of clients.
- `Login`: `MaxConnections = 2` is one connection of each front end, or two of one:
  two registrations of one nickname at a time, a refused nickname, a return after a
  loss. The second password makes every comparison fail once. Two connections that
  return to one client at a time (`contended`) need a third; the theorems have any number.
- `Ratings`: two games of four clients, any of whom may share one of three rows: a row in
  both games, on both sides of one, and rows that are never doubled beside them. `RATING_K = 1`
  has a transfer of nothing and of one, which tells a lost update from none; the theorems
  have every value. Each game may be finished a second time once.
- `CHECK_DEADLOCK FALSE`: a game ends, a client leaves, undefined behaviour stops the
  model, and the bounds leave nothing to do in the end.

### Fairness

- `Game`: weak fairness of `GameThread` (the thread calls `process()` in a loop,
  which sleeps at most 10 ms and waits only for the queue's mutex, which nobody
  holds for long) and of `Tick` (time passes). None for the players: nothing is
  assumed of what or whether they type. None for the order of the two: the thread
  may be arbitrarily slow.
- `Lobby`: weak fairness of what a receive thread does without waiting for a message,
  a timeout or the set's mutex (`Proceeds`), of the matchmaker, and of a game
  thread's start and end (`Winds`). Strong fairness of `Erase` alone: the mutex is
  taken and given back again and again, the matchmaker sleeps 100 ms between two
  walks, and Windows serves the threads that wait for a mutex in order of arrival, as a rule. That an awaited
  game finishes is assumed (`Awaited`); this is `DepartureEndsGame` of `Game`, and
  a thread that waits in `WaitForThread` has pushed a disconnect, or its player is
  gone without one (a conversion error, or paired while he left) and the missed
  deadlines end the game.

- `SendQueue`: weak fairness of the send thread (a loop that sleeps 10 ms at most, or
  waits for an event) and of what a receive thread does without its user, the end of
  the reconnect timeout included. None for pushes, logins and losses.
- `Login`: weak fairness of the terminal client's turns (its loop does not wait), of the
  web client's callbacks and of each receive thread. None for what a user enters, for
  new connections and for the network; so `Answered` is about users who do not stay at a prompt
  for ever (`[]<>~AtPrompt`), which includes the stale prompt that a terminal client shows when it
  processes a string twice after the connection has ended.

## 5. Proofs

`GameProofs` and `GameRefinementProofs` hold for every value of the constants that
satisfies `ConstantsAssumption`: `START < TIE`, `EQUALITY <= TIE`, `2 * TIE <= ALL_CARDS`, a
positive deadline, any set of lines, any bound on the queue. `common.h` has 5, 10,
26, 52, and the assumption is all that the code needs of them.

- The inductive invariant `IInv` is `TypeOK`, what is to be shown, and three facts
  that make it inductive: while the process lives no number of cards exceeds
  `TIE_CARD_NUMBER` (otherwise the type of `card_number` is not preserved by another
  lost round); before a finish can come, at most one has come (`thread \in
  {"start", "process", "dead"} => Len(results) <= 1`: only `DeadlineMissed` returns to
  "process" with a finished game, and the check that follows terminates); and a game
  that has not begun is not finished. `AtMostOneStrayFinish` alone is not inductive,
  since nothing in it prevents a third call in "process".
- `InitInvariant`, `StepInvariant` (a lemma per action; the lost round, the new
  round, the finish and the mere reply are lemmas that those cite) give
  `Invariance`, and from it `TypeCorrect`, `DeckIsEnough`, `PlayingIsUndecided`,
  `LastMoveIsAttributed`, `FinishedAtMostTwice`.
- `Refinement`: `Spec => ImplementsMatch`. `StepKinds` reduces a step to three kinds,
  a step that leaves score and verdict alone, a finish at an unchanged score, and a lost
  round; `FinishMaps` and `LossMaps` map the last two. `LossMaps` needs
  `UndecidedWhilePlaying`: only because the old score was undecided is it the player who has
  just lost the round who loses the duel, which `game_result` does not look at.

- `FullMoveTimeCorrect` (`GamePromptProofs`) has the hypothesis `Prompt`, a game thread faster
  than the clock; without it the code itself takes away what the command waited.
  `ClockInv` is inductive: with `Prompt` time passes on an empty queue only, so every
  command is taken at age 0, `move_start_time` never lies before the prompt, and the
  code's `elapsed` is the time on move. The history variable only watches (lemma `ClockRefines`),
  so `TypeOK` may be used.

`LobbyProofs` assumes that `None` is no client, duel or nickname, `SendQueueProofs` that
`None` is no client and a login pushes some string, `LoginProofs` that `None` is no
nickname, password or connection and that nobody uses both front ends, `RatingsProofs` that
`RATING_K` is a natural number and the first rating an integer, `CombinationsProofs` that
there are six ranks or more (so that the ace-low straight and another one differ) and a
suit. Each is an ASSUME of the module, and TLC evaluates it in the module's runs.

- **Combinations.** For every deal of every such deck: the announced combination is in the hand
  and can be bid (`BestIsInHandAlways`), no true bid beats it but a full house of one rank
  (`NothingBeatsBestAlways`), `/b` accepts a true bid, two pairs aside, exactly if no other one
  beats it, where that full house is neither accepted nor counted (`BlockIsJudgedRightAlways`;
  `FullHouseApart` sets it apart from what the search finds), and `less_combination` is a strict order in which
  two bids tie exactly if they differ in nothing but the suit (`LessIsStrictOrder`): `/m`, which
  asks for more than the current combination, cannot return to a bid of the round. None
  of this needs induction. The ranks of a table, listed in decreasing order, are known from
  their set alone: an element is told from the others by how many lie above it (`Ranked`,
  `DecreasingLists`), so five neighbours of the list that span five ranks are a straight
  (`FiveInARow`, `HeadsAre`). On that rest a lemma per search (`NumberFound` to
  `StraightFlushFound`: what is found passes its check, and nothing that passes is better),
  `WeakerIs` (the order, type by type), `AcceptedAre` and `BidsAre` (the texts `parse_m_command`
  accepts), and `BestIs`, which joins them. The specification adds only that cards are dealt.

- **Lobby.** `IInv` is `TypeOK`, `FoundClientsExist`, `OneDuelAtATime` and what makes
  them inductive: while the matchmaker walks, whom it has found is free and in the set
  (`FoundAreFree`, `Remembered`); the game being built has no thread yet
  (`GameIsFresh`); a handle that is not set belongs to the one game that is being
  started (`HandlesAreSet`); a player whom no second finish has disturbed is in the duel
  he plays (`UndisturbedAreInTheirDuel`), which is `PlayersAreInTheirDuel` made local to
  a player, for one game finished twice must not spoil the others; and a game that was
  finished twice is not unfinished (`TwiceIsOver`). A pairing keeps `OneDuelAtATime`
  because a player of an unfinished duel has `in_game` and `IsFree` looks at it; only
  `finish()` clears it.
- **SendQueue.** `WokenWhenConnected` needs that whoever can be found waits without having
  been woken (`FoundSleep`), that a thread on its way to wait has lost its connection and
  reset its event (`LossIsMarked`), and that a client is handed over to by one
  other (`OneHandOver`). All three are conditional on `~contended`: with two
  overlapping hand-overs a wake-up can be lost.

  `DeliveryCorrect`, that `Delivery` is implemented, needs no such condition. `QueueInv` says
  where a string is until it is sent or discarded: in one queue (`PendingIsQueued`,
  `QueuedIsPending`), ordered with the others of its client (`QueuesInOrder`). If that queue
  is not its client's own, the client is handing over or has done so, its send
  thread is joined (`JoinedBeforeCopy`), and whatever it still holds is younger
  (`Copied`). So whichever thread sends, the front of its queue is the oldest pending
  string of its client (`FrontIsNext`), which is the guard of `Delivery`.
- **Login.** `IInv` says for each state of a front end what its thread waits for and
  what is under way in both directions (`ClientsInStep`, `InStep`), and for each thread in the
  dialogue that at most one string is under way to it, the one it waits for, with the password
  typed last (`Requests`). From the second follows `ExpectedOnly`; it makes
  `AuthorizedByPassword` inductive, for the hash that a thread compares is of what was
  typed. `AuthorizedByServer` needs in addition who has a socket after a hand-over
  (`Sockets`, `Waiting`, `HandOvers`, `Owned`): a connection that is up and out of its dialogue
  has one accepted client, or was rejected. Accepted is who was sent `auth_ok!`: he is authorized,
  or is by the next statement of his thread (`Accepted`, `Authorizing`). `HandOvers` and `Owned` are conditional on
  `~contended`, as the property is.
- **Ratings.** Nothing keeps games from sharing a row, so `IInv` is about the rows that are not
  `doubled`: two clients in a game do not share one (`SharedRows \subseteq doubled`), its player
  is in his game and in no other (`PlayersInGame`), so what an update has read of it is what is
  stored, up to its own writes (`ReadIsCurrent`), whatever happens to the opponent's row.
  `Refinement` maps each statement: `Owing` of such a row has one game at most, so `Settled`
  moves at `SetWinner` for both players and nowhere else.

Only model-checked: liveness, which is out of reach of the prover: `RoundEnds`,
`GameEndsUnlessTied`, `DepartureEndsGame`, `CleanupEnds`, `SearchersMeet`, `StringsSettle`,
`ReturnIsGreeted`, `Answered`.

## 6. Where the code and its text disagree

Runs that TLC is expected to find violated:

- **assert** (`AssertionsHold`). A duel at 26 : 25 goes on (`game.cpp:266-268`); if the
  first loses the next round too, `player_loses_round` makes that 27 and the assertion of
  `game_result` (`game.cpp:259`) ends the server.
- **twopairs** (`BlockRecognisesTwoPairs`). `find_best_two_pairs` puts the higher pair
  first, `parse_m_command` the lower one; `/b` never accepts two pairs.
- **cleanup** (`GameThreadIsAwaited`). The cleanup looks at the state before it leaves
  the set; a client that is still searching may be paired after that and is deleted
  in a running game.

Seen in the same way, without a run of their own; each is an INVARIANT away from being
reproduced:

- `LoserStands` of `Game`, in `Game_assert.cfg` with "/concede" among the `Lines`: a deadline
  that finishes the game leaves `_terminate` false; `process()` takes one more queued command,
  and a `/concede` in it rates the game again, for the other player (`game.h:78-79` says that
  this client always loses). `AtMostOneStrayFinish` shows that it is one at most, and
  `ImplementsTransfer` that ratings lose updates by this and by shared rows only.
- `AuthorizedOnce` of `MCLobby`, in `MCLobby_cleanup.cfg`: two connections pass the check of
  the nickname (`main.cpp:337`) before either is authorized. `AuthorizedByPassword` shows
  that each has the password all the same. They share a row: they may be in two games
  at once or in one with each other, where each may move for the other (`SameId`), and the updates
  of their row may be lost (`doubled` of `Ratings`).
- `WaitingCanBeFound` and `LinesReachTheGame`, there too: a returned client whose second loss
  is forgotten; a player whose `/fd` or `/cancel` overwrote IN_GAME.
- A bid of a full house with twice the same rank, the exception in `NothingBeatsBest`.
- A terminal client whose nickname is refused waits in NICKNAME_SENT: it does not look at
  the end of a connection, and no string was sent (`Forgotten` of `Login`, the exception
  of `Answered`).
- The steps that set `undefined` in `Lobby`, `SendQueue` and `Login`: a client deleted by its
  timeout while a login hands over to it, a line that follows the pointer to no game.
- `contended`: two logins that find the same waiting client.

## 7. What is not modelled

- Short sends and receives: `send_from_queue` pops a string when `send` took any part
  of its frame, and no side counts bytes. A model could only show that everything
  after the first short send is arbitrary.
- A line of the terminal client that `send` refuses with WSAEWOULDBLOCK: it is dropped,
  since `should_send` is declared anew in each turn.
- `/top` (`db_get_top`) reads and prints; `db_set_password` and the `find_every_...` functions
  of `Hand` have no caller.
- Logger, console, conversions of text, colours, the input line and the windows of the
  terminal client, the page of the web client: layout and input. The proxy between
  WebSocket and TCP is not in the repository.
- Random choices (cards, salts, the player who opens) are nondeterministic. Closing
  handles, allocation failure and failure to create a thread are left out.
- Vendored code: SQLite (`shell.c`, `sqlite3.h`), PDCurses with its demos, date, SHA-256.
  It is nine tenths of the lines of the repository and none of its logic, so the share
  of all lines that the modules cover is small by nature; of `game.cpp`,
  `combinations.cpp`, `ratings.cpp`, the handlers of `main.cpp` and the queue of
  `client.cpp` little but messages is left out.

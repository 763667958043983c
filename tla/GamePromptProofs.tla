-------------------------- MODULE GamePromptProofs --------------------------
(***************************************************************************)
(* The deadline of a game thread that outruns the clock, for every deck,    *)
(* card limit, deadline, set of lines and bound on the queue: nobody misses *)
(* it before he had all of MOVE_TIMEOUT.                                    *)
(***************************************************************************)
EXTENDS GameProofs, MCGamePrompt

\* The game with its history variable is the game.
LEMMA ClockStep == ASSUME [ClockNext]_<<vars, on_move>> PROVE [Next]_vars
BY DEF ClockNext, Next

\* A new round, and an accepted bid, change the turn; otherwise the clock runs on.
LEMMA NewRoundTurns ==
    ASSUME TypeOK, start_round
    PROVE  TurnChanges /\ elapsed' = 0
BY DEF start_round, TurnChanges, TypeOK, negate, Player, FIRST_PLAYER_MOVE, SECOND_PLAYER_MOVE

LEMMA LostRoundTurns ==
    ASSUME TypeOK, NEW p \in Player, NEW next, player_loses_round(p, next)
    PROVE  elapsed' = IF TurnChanges THEN 0 ELSE elapsed
BY NewRoundTurns DEF player_loses_round, round, TurnChanges

\* What is taken out of a queue of fresh commands is fresh, and so is the rest.
LEMMA FreshQueue ==
    ASSUME TypeOK, command_queue # <<>>, \A i \in 1 .. Len(command_queue) : command_queue[i].age = 0
    PROVE  /\ Front.age = 0
           /\ \A i \in 1 .. Len(Tail(command_queue)) : Tail(command_queue)[i].age = 0
<1> DEFINE q == command_queue
           r == Tail(q)
<1>1. q \in Seq(Command)
  BY DEF TypeOK
<1>2. /\ Head(q) = q[1]
      /\ Len(q) \in Nat \ {0}
      /\ Len(r) = Len(q) - 1
      /\ \A i \in 1 .. Len(r) : r[i] = q[i + 1]
  BY <1>1, HeadTailProperties, EmptySeq
<1>3. 1 \in 1 .. Len(q) /\ \A i \in 1 .. Len(r) : i + 1 \in 1 .. Len(q)
  BY <1>2
<1> QED
  BY <1>2, <1>3 DEF Front

\* A command is pushed fresh.
LEMMA FreshPush ==
    ASSUME TypeOK, NEW p, NEW type, NEW text, NEW b, Push(p, type, text, b),
           \A i \in 1 .. Len(command_queue) : command_queue[i].age = 0
    PROVE  \A i \in 1 .. Len(command_queue') : command_queue'[i].age = 0
<1> DEFINE q == command_queue
           c == [sender |-> p, type |-> type, cmd |-> text, bid |-> b, age |-> 0]
<1>1. q \in Seq(Command) /\ command_queue' = Append(q, c) /\ c.age = 0
  BY DEF TypeOK, Push
<1>2. Len(q) \in Nat
  BY <1>1, LenProperties
<1> HIDE DEF c
<1>3. /\ Len(Append(q, c)) = Len(q) + 1
      /\ \A i \in 1 .. Len(q) : Append(q, c)[i] = q[i]
      /\ Append(q, c)[Len(q) + 1] = c
  BY <1>1
<1>4. \A i \in 1 .. Len(q) + 1 : i \in 1 .. Len(q) \/ i = Len(q) + 1
  BY <1>2
<1> QED
  BY <1>1, <1>3, <1>4

-----------------------------------------------------------------------------
(* The inductive step.                                                     *)

Fresh == \A i \in 1 .. Len(command_queue) : command_queue[i].age = 0

\* The handlers and the start of the game: a command is taken out, and the deadline
\* is evaluated on the clock that they leave.
LEMMA HandlerTurns ==
    ASSUME TypeOK, Fresh, StartGame \/ Handle
    PROVE  /\ elapsed' = IF TurnChanges THEN 0 ELSE elapsed
           /\ Fresh'
           /\ thread' = "check" /\ overdue' => elapsed' = MOVE_TIMEOUT
<1>1. /\ \/ command_queue' = command_queue
         \/ command_queue # <<>> /\ command_queue' = Tail(command_queue)
      /\ StartGame \/ EvaluateDeadline
  BY DEF StartGame, Handle, Concede, Tie, Query, NotYourMove, Chat, ForbiddenOnFirstMove,
         Reveal, BlockWrong, BlockRight, MoveRefused, MoveAccepted, Reconnected, Disconnected,
         EmptyQueue, MoverTakes, Takes, OnlyReplies
<1>2. Fresh'
  BY <1>1, FreshQueue DEF Fresh
<1>3. thread' = "check" /\ overdue' => elapsed' = MOVE_TIMEOUT
  BY <1>1 DEF StartGame, EvaluateDeadline
<1>4. elapsed' = IF TurnChanges THEN 0 ELSE elapsed
  <2>1. CASE StartGame \/ BlockRight
    BY <2>1, NewRoundTurns DEF StartGame, BlockRight
  <2>2. CASE Reveal
    <3>1. PICK p \in Player : player_loses_round(p, "check")
      <4>1. current_move \in Player /\ negate(current_move) \in Player
        BY DEF TypeOK, negate, Player, FIRST_PLAYER_MOVE, SECOND_PLAYER_MOVE
      <4> QED
        BY <2>2, <4>1 DEF Reveal
    <3> QED
      BY <3>1, LostRoundTurns
  <2>3. CASE BlockWrong
    BY <2>3, LostRoundTurns DEF BlockWrong, TypeOK
  <2>4. CASE MoveAccepted
    <3>1. elapsed' = Front.age /\ command_queue # <<>> /\ current_move' = negate(current_move)
      BY <2>4 DEF MoveAccepted, MoverTakes, Takes
    <3>2. elapsed' = 0
      BY <3>1, FreshQueue DEF Fresh
    <3>3. TurnChanges
      BY <3>1 DEF TurnChanges, TypeOK, negate, Player, FIRST_PLAYER_MOVE, SECOND_PLAYER_MOVE
    <3> QED
      BY <3>2, <3>3
  <2>5. CASE \/ Concede \/ Tie \/ Query \/ NotYourMove \/ Chat \/ ForbiddenOnFirstMove
             \/ MoveRefused \/ Reconnected \/ Disconnected \/ EmptyQueue
    <3>1. UNCHANGED <<first_move, current_move, elapsed>>
      BY <2>5 DEF Concede, Tie, Query, NotYourMove, Chat, ForbiddenOnFirstMove, MoveRefused,
                  Reconnected, Disconnected, EmptyQueue, OnlyReplies, round
    <3> QED
      BY <3>1 DEF TurnChanges
  <2> QED
    BY <2>1, <2>2, <2>3, <2>4, <2>5 DEF Handle
<1> QED
  BY <1>2, <1>3, <1>4

LEMMA ClockKept ==
    ASSUME Prompt, TypeOK, ClockInv, [ClockNext]_<<vars, on_move>>
    PROVE  ClockInv'
<1>1. Fresh
  BY DEF ClockInv, Fresh
<1>2. ASSUME elapsed' = IF TurnChanges THEN 0 ELSE elapsed,
             on_move' = IF TurnChanges THEN 0 ELSE on_move
      PROVE  on_move' = elapsed'
  BY <1>2 DEF ClockInv
<1>3. CASE Tick /\ on_move' = Older(on_move)
  <2>1. /\ command_queue = <<>> /\ thread = "process" /\ thread' = thread
        /\ elapsed' = Older(elapsed)
        /\ DOMAIN command_queue' = DOMAIN command_queue
    BY <1>3 DEF Tick
  <2>2. command_queue' = <<>>
    <3>1. DOMAIN command_queue = {}
      BY <2>1
    <3> QED
      BY <1>3, <3>1 DEF Tick
  <2> QED
    BY <1>3, <2>1, <2>2 DEF ClockInv
<1>4. CASE /\ GameThread \/ OpenDatabaseFails \/ \E p \in Player : Receive(p)
           /\ on_move' = IF TurnChanges THEN 0 ELSE on_move
  <2>1. CASE StartGame \/ Handle
    BY <1>1, <1>2, <1>4, <2>1, HandlerTurns DEF ClockInv, Fresh
  <2>2. CASE DeadlineKept \/ Terminate \/ OpenDatabaseFails
    <3>1. /\ UNCHANGED <<first_move, current_move, elapsed, command_queue>>
          /\ thread' # "check"
      BY <2>2 DEF DeadlineKept, Terminate, OpenDatabaseFails, round
    <3> QED
      BY <1>4, <3>1 DEF TurnChanges, ClockInv
  <2>3. CASE DeadlineMissed
    <3>1. elapsed' = IF TurnChanges THEN 0 ELSE elapsed
      BY <2>3, LostRoundTurns DEF DeadlineMissed, round, TurnChanges, TypeOK
    <3>2. command_queue' = command_queue
      BY <2>3 DEF DeadlineMissed
    <3>3. thread' # "check"
      BY <2>3 DEF DeadlineMissed, player_loses_round
    <3> QED
      BY <1>2, <1>4, <3>1, <3>2, <3>3 DEF ClockInv
  <2>4. CASE \E p \in Player : Receive(p)
    <3>1. PICK p \in Player : Receive(p)
      BY <2>4
    <3>2. UNCHANGED <<first_move, current_move, elapsed, thread, overdue>>
      BY <3>1 DEF Receive, push_command, push_reconnect, push_disconnect, LoseConnection,
                  RangeError, Push, round
    <3>3. Fresh'
      <4>1. CASE LoseConnection(p) \/ RangeError(p)
        BY <1>1, <4>1 DEF LoseConnection, RangeError, Fresh
      <4>2. CASE push_command(p) \/ push_reconnect(p) \/ push_disconnect(p)
        <5>1. PICK type, text, b : Push(p, type, text, b)
          BY <4>2 DEF push_command, push_reconnect, push_disconnect
        <5> QED
          BY <1>1, <5>1, FreshPush DEF Fresh
      <4> QED
        BY <3>1, <4>1, <4>2 DEF Receive
    <3> QED
      BY <1>4, <3>2, <3>3 DEF ClockInv, Fresh, TurnChanges
  <2> QED
    BY <1>4, <2>1, <2>2, <2>3, <2>4 DEF GameThread, Check
<1>5. CASE UNCHANGED <<vars, on_move>>
  <2>1. UNCHANGED <<elapsed, command_queue, thread, overdue, on_move>>
    BY <1>5 DEF vars
  <2> QED
    BY <2>1 DEF ClockInv
<1> QED
  BY <1>3, <1>4, <1>5 DEF ClockNext

-----------------------------------------------------------------------------
(* The theorem.                                                            *)

\* The history variable only watches: the invariants of Game hold here.
LEMMA ClockRefines == ClockSpec => Spec
<1>1. ClockInit => Init
  BY DEF ClockInit
<1>2. [ClockNext]_<<vars, on_move>> => [Next]_vars
  BY ClockStep
<1> QED
  BY <1>1, <1>2, PTL DEF ClockSpec, Spec

\* If the game thread outruns the clock, nobody loses a round by a missed deadline
\* before he had the whole of MOVE_TIMEOUT for his move.
THEOREM FullMoveTimeCorrect == ASSUME Prompt PROVE ClockSpec => []FullMoveTime
<1>1. ClockInit => ClockInv
  <2> SUFFICES ASSUME ClockInit PROVE ClockInv
    OBVIOUS
  <2>1. on_move = 0 /\ elapsed = 0 /\ command_queue = <<>> /\ thread = "start"
    BY DEF ClockInit, Init
  <2> QED
    BY <2>1 DEF ClockInv
<1>2. TypeOK /\ ClockInv /\ [ClockNext]_<<vars, on_move>> => ClockInv'
  BY ClockKept
<1>3. ClockInv => FullMoveTime
  BY DEF ClockInv, FullMoveTime
<1> QED
  BY <1>1, <1>2, <1>3, ClockRefines, TypeCorrect, PTL DEF ClockSpec

=============================================================================

---------------------------- MODULE MCGamePrompt ----------------------------
(***************************************************************************)
(* Game with a game thread that outruns the clock (Prompt = TRUE), and a   *)
(* history variable: how long the player on move has been on move.         *)
(***************************************************************************)
EXTENDS Game

VARIABLE on_move

ClockInit == Init /\ on_move = 0

TurnChanges == <<first_move, current_move>>' # <<first_move, current_move>>

ClockNext ==
    \/ /\ Tick
       /\ on_move' = Older(on_move)
    \/ /\ GameThread \/ OpenDatabaseFails \/ \E p \in Player : Receive(p)
       /\ on_move' = IF TurnChanges THEN 0 ELSE on_move

ClockSpec == ClockInit /\ [][ClockNext]_<<vars, on_move>>

\* Whoever is told that the move came too late has had the whole of MOVE_TIMEOUT
\* since the turn was prompted: move_start_time is never left over from an
\* earlier turn or round.
FullMoveTime ==
    thread = "check" /\ ~finished /\ overdue => on_move = MOVE_TIMEOUT

\* The inductive invariant behind it, for Prompt = TRUE: time passes on an empty queue
\* only, so the clock of the code runs as the turn does.
ClockInv ==
    /\ on_move = elapsed
    /\ \A i \in 1 .. Len(command_queue) : command_queue[i].age = 0
    /\ thread = "check" /\ overdue => elapsed = MOVE_TIMEOUT

=============================================================================

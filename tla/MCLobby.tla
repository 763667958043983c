------------------------------ MODULE MCLobby ------------------------------
(***************************************************************************)
(* Lobby for TLC.  Clients, nicknames and duels are interchangeable: every *)
(* CHOOSE of Lobby has one candidate, so the symmetry is sound.            *)
(***************************************************************************)
EXTENDS Lobby, TLC

Symmetry == Permutations(Client) \cup Permutations(Nickname) \cup Permutations(Duel)

-----------------------------------------------------------------------------
(* Three more promises that the code does not keep; as an INVARIANT of          *)
(* MCLobby_cleanup.cfg each is violated within seconds.                       *)

\* main.cpp:298: a receive thread that waits for a reconnect can be found by
\* find_nickname_waiting_reconnect, or has been.
WaitingCanBeFound ==
    \A c \in Client :
        receive[c] = "wait" /\ ~client[c].reconnect_event =>
            \/ client[c].waiting_reconnect
            \/ \E new \in Client : receive[new] \in {"handoff", "unmark"} /\ held[new] = c

\* main.cpp:612: the line of a client in a running game, read between two lines,
\* is a game command.
LinesReachTheGame ==
    \A g \in Duel : \A c \in duel[g].players :
        duel[g].thread = "running" /\ receive[c] = "recv" /\ ~duel[g].finished_twice
            => client[c].state = "IN_GAME"

\* main.cpp:338: nobody is authorized under a nickname that is already
\* authorized and not waiting for a reconnect.
AuthorizedOnce ==
    \A n \in Nickname : \A c, d \in find_nickname_authorized(n) :
        {receive[c], receive[d]} \cap {"handoff", "unmark", "leaving", "handle", "join", "erase"} = {}
            => c = d

=============================================================================

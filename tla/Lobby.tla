-------------------------------- MODULE Lobby --------------------------------
(***************************************************************************)
(* The threads of the server around the duels, src/CardBluffServer/main.cpp: *)
(* one receive thread per connection (client_to_server), the thread that    *)
(* pairs searching clients (find_duel_thread) and the game threads, seen    *)
(* from their start and end; what happens inside a duel is module Game.     *)
(*                                                                         *)
(* A step is what a thread does between two points where another one can    *)
(* see a difference: the setters of Client lock one variable at a time, and *)
(* only the set `clients' is locked for longer.  Objects are never reused   *)
(* after delete: a thread that still uses one has undefined behaviour, and  *)
(* the model stops there.                                                   *)
(***************************************************************************)
EXTENDS Naturals, FiniteSets

CONSTANTS
    Client,       \* Client objects, one for each accepted connection
    Nickname,
    Duel,         \* Game objects; bound: the matchmaker rests when all are used
    None

ASSUME NoneAssumption == None \notin Client \cup Nickname \cup Duel

Searchable == {"WAIT_ENTER_GAME", "WAIT_OPPONENT", "IN_GAME"}
ClientState == {"WAIT_NICKNAME", "WAIT_PASSWORD"} \cup Searchable

VARIABLES
    client,         \* the Client objects
    receive,        \* where the receive thread of a client is: a ClientState is
                    \* the case of the switch that it is in
    held,           \* the object the thread has got hold of: old_client, or the game
    duel,           \* the Game objects and their threads
    matchmaker,     \* where find_opponent is
    unexamined, client1, client2,
    undefined       \* an object was used after its delete

matchVars == <<matchmaker, unexamined, client1, client2>>
vars == <<client, receive, held, duel, matchVars, undefined>>

ClientObject == [nickname          : Nickname \cup {None},
                 state             : ClientState,
                 authorized        : BOOLEAN,
                 waiting_reconnect : BOOLEAN,
                 finding_duel      : BOOLEAN,
                 in_game           : BOOLEAN,
                 game              : Duel \cup {None},
                 reconnect_event   : BOOLEAN]

DuelObject == [thread         : {"none", "created", "opening", "running", "resetting",
                                 "finished", "deleted", "no_db"},
               players        : SUBSET Client,
               handle_ready   : BOOLEAN,     \* thread_handle_ready_event
               finished_twice : BOOLEAN]     \* history: finish() has run again

TypeOK ==
    /\ client \in [Client -> ClientObject]
    /\ receive \in [Client -> Searchable \cup {"none", "recv", "fd", "cancel", "handoff",
                                "unmark", "wait", "leaving", "handle", "join", "erase", "gone"}]
    /\ held \in [Client -> Client \cup Duel \cup {None}]
    /\ duel \in [Duel -> DuelObject]
    /\ matchmaker \in {"idle", "scan", "pair", "construct", "opponent", "spawn", "ready"}
    /\ unexamined \subseteq Client
    /\ client1 \in Client \cup {None}
    /\ client2 \in Client \cup {None}
    /\ undefined \in BOOLEAN

NewClient == [nickname |-> None, state |-> "WAIT_NICKNAME", authorized |-> FALSE,
              waiting_reconnect |-> FALSE, finding_duel |-> FALSE, in_game |-> FALSE,
              game |-> None, reconnect_event |-> FALSE]

Init ==
    /\ client = [c \in Client |-> NewClient]
    /\ receive = [c \in Client |-> "none"]
    /\ held = [c \in Client |-> None]
    /\ duel = [g \in Duel |-> [thread |-> "none", players |-> {},
                               handle_ready |-> FALSE, finished_twice |-> FALSE]]
    /\ matchmaker = "idle"
    /\ unexamined = {}
    /\ client1 = None
    /\ client2 = None
    /\ undefined = FALSE

-----------------------------------------------------------------------------
(* The set `clients' and its mutex.                                        *)

clients == {c \in Client : receive[c] \notin {"none", "gone"}}

Unlocked == matchmaker \notin {"scan", "pair", "construct", "opponent"}

find_nickname_authorized(n) ==
    {c \in clients : /\ client[c].nickname = n
                     /\ client[c].authorized
                     /\ ~client[c].waiting_reconnect}

find_nickname_waiting_reconnect(n) ==
    {c \in clients : client[c].nickname = n /\ client[c].waiting_reconnect}

\* Where a thread is, as long as nothing undefined has happened.
At(c, place) == ~undefined /\ receive[c] = place
Matchmaker(place) == ~undefined /\ matchmaker = place
Thread(g, place) == ~undefined /\ duel[g].thread = place

Goto(c, place) == receive' = [receive EXCEPT ![c] = place]

\* What is in a deleted object does not matter; it is wiped.
Wipe(objects, c) == [objects EXCEPT ![c] = NewClient]

\* An object is used after its delete.
GoesWrong == undefined' = TRUE /\ UNCHANGED <<client, receive, held, duel, matchVars>>

-----------------------------------------------------------------------------
(* The receive thread: login.                                              *)

accept(c) ==
    /\ At(c, "none")
    /\ Unlocked
    /\ Goto(c, "recv")
    /\ UNCHANGED <<client, held, duel, matchVars, undefined>>

NicknameReceived(c) ==
    /\ At(c, "recv")
    /\ client[c].state = "WAIT_NICKNAME"
    /\ Unlocked
    /\ \E n \in Nickname :
         IF find_nickname_authorized(n) # {}
         THEN Goto(c, "leaving") /\ UNCHANGED client
         ELSE /\ client' = [client EXCEPT ![c].nickname = n, ![c].state = "WAIT_PASSWORD"]
              /\ UNCHANGED receive
    /\ UNCHANGED <<held, duel, matchVars, undefined>>

\* Wrong message, wrong password, database error, or no longer connected.
LoginFails(c) ==
    /\ At(c, "recv")
    /\ ~client[c].authorized
    /\ Goto(c, "leaving")
    /\ UNCHANGED <<client, held, duel, matchVars, undefined>>

\* The right password, or a registration: nobody can be waiting under a nickname
\* that is not registered, and registering it twice fails (it is UNIQUE).  A client
\* that waits for a reconnect under this nickname gets the connection.
PasswordAccepted(c) ==
    /\ At(c, "recv")
    /\ client[c].state = "WAIT_PASSWORD"
    /\ Unlocked
    /\ LET waiting == find_nickname_waiting_reconnect(client[c].nickname) IN
       IF waiting # {}
       THEN /\ client' = [client EXCEPT ![c].authorized = TRUE]
            /\ \E old_client \in waiting : held' = [held EXCEPT ![c] = old_client]
            /\ Goto(c, "handoff")
       ELSE /\ client' = [client EXCEPT ![c].authorized = TRUE,
                                        ![c].state = "WAIT_ENTER_GAME"]
            /\ UNCHANGED <<held, receive>>
    /\ UNCHANGED <<duel, matchVars, undefined>>

\* set_socket, copy_strings and SetEvent on the old client.
HandOver(c) ==
    /\ At(c, "handoff")
    /\ IF receive[held[c]] = "gone" THEN GoesWrong
       ELSE /\ client' = [client EXCEPT ![held[c]].reconnect_event = TRUE]
            /\ Goto(c, "unmark")
            /\ UNCHANGED <<held, duel, matchVars, undefined>>

\* Only then is the old client marked as no longer waiting.
Unmark(c) ==
    /\ At(c, "unmark")
    /\ IF receive[held[c]] = "gone" THEN GoesWrong
       ELSE /\ client' = [client EXCEPT ![held[c]].waiting_reconnect = FALSE]
            /\ Goto(c, "erase")
            /\ UNCHANGED <<held, duel, matchVars, undefined>>

-----------------------------------------------------------------------------
(* The receive thread: lines of an authorized client.                      *)

\* Mutant: lines sent before the login are taken for commands.
LineReceivedEarly(c) ==
    /\ At(c, "recv")
    /\ Goto(c, client[c].state)
    /\ UNCHANGED <<client, held, duel, matchVars, undefined>>

LineReceived(c) ==
    /\ At(c, "recv")
    /\ client[c].state \in Searchable
    /\ Goto(c, client[c].state)
    /\ UNCHANGED <<client, held, duel, matchVars, undefined>>

FindDuel(c) ==
    /\ At(c, "WAIT_ENTER_GAME")
    /\ client' = [client EXCEPT ![c].finding_duel = TRUE]
    /\ Goto(c, "fd")
    /\ UNCHANGED <<held, duel, matchVars, undefined>>

NowWaitsOpponent(c) ==
    /\ At(c, "fd")
    /\ client' = [client EXCEPT ![c].state = "WAIT_OPPONENT"]
    /\ Goto(c, "recv")
    /\ UNCHANGED <<held, duel, matchVars, undefined>>

Cancel(c) ==
    /\ At(c, "WAIT_OPPONENT")
    /\ client' = [client EXCEPT ![c].finding_duel = FALSE]
    /\ Goto(c, "cancel")
    /\ UNCHANGED <<held, duel, matchVars, undefined>>

NowWaitsEnterGame(c) ==
    /\ At(c, "cancel")
    /\ client' = [client EXCEPT ![c].state = "WAIT_ENTER_GAME"]
    /\ Goto(c, "recv")
    /\ UNCHANGED <<held, duel, matchVars, undefined>>

\* Chat, or a command for the game: each follows a pointer of the client, which
\* is set after the state IN_GAME and never cleared.
GameLine(c) ==
    /\ At(c, "IN_GAME")
    /\ LET g == client[c].game IN
       \/ g = None /\ GoesWrong
       \/ g # None /\ duel[g].thread = "deleted" /\ GoesWrong
       \/ g # None /\ (\E opponent \in duel[g].players \ {c} : receive[opponent] = "gone")
                   /\ GoesWrong
       \/ g # None /\ Goto(c, "recv") /\ UNCHANGED <<client, held, duel, matchVars, undefined>>

\* Lines that are only answered.
OtherLine(c) ==
    /\ At(c, "WAIT_ENTER_GAME") \/ At(c, "WAIT_OPPONENT")
    /\ Goto(c, "recv")
    /\ UNCHANGED <<client, held, duel, matchVars, undefined>>

-----------------------------------------------------------------------------
(* The receive thread: lost connections and the end.  What it then pushes   *)
(* into the queue of the game is an action of Game.                         *)

ConnectionLost(c) ==
    /\ At(c, "recv")
    /\ client[c].authorized
    /\ client' = [client EXCEPT ![c].reconnect_event = FALSE, ![c].waiting_reconnect = TRUE]
    /\ Goto(c, "wait")
    /\ UNCHANGED <<held, duel, matchVars, undefined>>

Reconnected(c) ==
    /\ At(c, "wait")
    /\ client[c].reconnect_event
    /\ Goto(c, "recv")
    /\ UNCHANGED <<client, held, duel, matchVars, undefined>>

ReconnectTimeout(c) ==
    /\ At(c, "wait")
    /\ ~client[c].reconnect_event
    /\ Goto(c, "leaving")
    /\ UNCHANGED <<client, held, duel, matchVars, undefined>>

RangeError(c) ==
    /\ At(c, "recv")
    /\ client[c].authorized
    /\ Goto(c, "leaving")
    /\ UNCHANGED <<client, held, duel, matchVars, undefined>>

Cleanup(c) ==
    /\ At(c, "leaving")
    /\ IF client[c].state = "IN_GAME" /\ client[c].game = None THEN GoesWrong
       ELSE /\ IF client[c].state = "IN_GAME"
               THEN Goto(c, "handle") /\ held' = [held EXCEPT ![c] = client[c].game]
               ELSE Goto(c, "erase") /\ UNCHANGED held
            /\ UNCHANGED <<client, duel, matchVars, undefined>>

WaitForHandle(c) ==
    /\ At(c, "handle")
    /\ IF duel[held[c]].thread = "deleted" THEN GoesWrong
       ELSE /\ duel[held[c]].handle_ready
            /\ Goto(c, "join")
            /\ UNCHANGED <<client, held, duel, matchVars, undefined>>

WaitForThread(c) ==
    /\ At(c, "join")
    /\ duel[held[c]].thread \in {"deleted", "no_db"}
    /\ Goto(c, "erase")
    /\ UNCHANGED <<client, held, duel, matchVars, undefined>>

\* Mutant: the client is deleted without the mutex of the set.
EraseUnlocked(c) ==
    /\ At(c, "erase")
    /\ client' = Wipe(client, c)
    /\ Goto(c, "gone")
    /\ held' = [held EXCEPT ![c] = None]
    /\ UNCHANGED <<duel, matchVars, undefined>>

Erase(c) ==
    /\ At(c, "erase")
    /\ Unlocked
    /\ client' = Wipe(client, c)
    /\ Goto(c, "gone")
    /\ held' = [held EXCEPT ![c] = None]
    /\ UNCHANGED <<duel, matchVars, undefined>>

-----------------------------------------------------------------------------
(* find_opponent, called every 100 ms.                                     *)

FreshDuels == {g \in Duel : duel[g].thread = "none"}

StartScan ==
    /\ Matchmaker("idle")
    /\ FreshDuels # {}
    /\ matchmaker' = "scan"
    /\ unexamined' = clients
    /\ UNCHANGED <<client, receive, held, duel, client1, client2, undefined>>

\* Mutant: a client who is in a game is taken as well.
IsSearching(c) == client[c].finding_duel

IsFree(c) == client[c].finding_duel /\ ~client[c].in_game

\* Mutant: the first client found is replaced by the next one.
ExamineForgetful(c) ==
    /\ Matchmaker("scan")
    /\ c \in unexamined
    /\ unexamined' = unexamined \ {c}
    /\ client1' = IF IsFree(c) THEN c ELSE client1
    /\ UNCHANGED <<client, receive, held, duel, matchmaker, client2, undefined>>

\* An unordered_set is walked in any order.
Examine(c) ==
    /\ Matchmaker("scan")
    /\ c \in unexamined
    /\ unexamined' = unexamined \ {c}
    /\ CASE ~IsFree(c)      -> UNCHANGED <<matchmaker, client1, client2>>
         [] IsFree(c) /\ client1 = None -> client1' = c /\ UNCHANGED <<matchmaker, client2>>
         [] IsFree(c) /\ client1 # None -> client2' = c /\ matchmaker' = "pair"
                                           /\ UNCHANGED client1
    /\ UNCHANGED <<client, receive, held, duel, undefined>>

\* Mutant: no unlock after a walk that found no pair.
EndScanLocked ==
    /\ Matchmaker("scan")
    /\ unexamined = {}
    /\ unexamined' = clients
    /\ client1' = None
    /\ UNCHANGED <<client, receive, held, duel, matchmaker, client2, undefined>>

EndScan ==
    /\ Matchmaker("scan")
    /\ unexamined = {}
    /\ matchmaker' = "idle"
    /\ client1' = None
    /\ UNCHANGED <<client, receive, held, duel, unexamined, client2, undefined>>

\* Client::enter_game of client1, as far as others can tell its steps apart.
enter_game ==
    /\ Matchmaker("pair")
    /\ client' = [client EXCEPT ![client1].finding_duel = FALSE,
                                ![client2].finding_duel = FALSE,
                                ![client1].in_game = TRUE,
                                ![client1].state = "IN_GAME"]
    /\ matchmaker' = "construct"
    /\ UNCHANGED <<receive, held, duel, unexamined, client1, client2, undefined>>

\* Mutant: the opponent does not learn that he is in a game.
ConstructGameAlone ==
    /\ Matchmaker("construct")
    /\ \E g \in FreshDuels :
         client' = [client EXCEPT ![client1].game = g, ![client2].state = "IN_GAME"]
    /\ matchmaker' = "opponent"
    /\ UNCHANGED <<receive, held, duel, unexamined, client1, client2, undefined>>

ConstructGame ==
    /\ Matchmaker("construct")
    /\ \E g \in FreshDuels :
         client' = [client EXCEPT ![client1].game = g,
                                  ![client2].in_game = TRUE,
                                  ![client2].state = "IN_GAME"]
    /\ matchmaker' = "opponent"
    /\ UNCHANGED <<receive, held, duel, unexamined, client1, client2, undefined>>

OpponentInGame ==
    /\ Matchmaker("opponent")
    /\ LET g == client[client1].game IN
         /\ client' = [client EXCEPT ![client2].game = g]
         /\ duel' = [duel EXCEPT ![g].thread = "created", ![g].players = {client1, client2}]
    /\ matchmaker' = "spawn"
    /\ unexamined' = {}
    /\ client1' = None
    /\ client2' = None
    /\ UNCHANGED <<receive, held, undefined>>

\* The one whose handle is not set yet.
NewDuel == CHOOSE g \in Duel : duel[g].thread # "none" /\ ~duel[g].handle_ready

CreateThread ==
    /\ Matchmaker("spawn")
    /\ duel' = [duel EXCEPT ![NewDuel].thread = "opening"]
    /\ matchmaker' = "ready"
    /\ UNCHANGED <<client, receive, held, unexamined, client1, client2, undefined>>

SetHandle ==
    /\ Matchmaker("ready")
    /\ IF duel[NewDuel].thread = "deleted" THEN GoesWrong
       ELSE /\ duel' = [duel EXCEPT ![NewDuel].handle_ready = TRUE]
            /\ matchmaker' = "idle"
            /\ UNCHANGED <<client, receive, held, unexamined, client1, client2, undefined>>

-----------------------------------------------------------------------------
(* A game thread, from its start to the delete of the game.                *)

OpenDatabase(g) ==
    /\ Thread(g, "opening")
    /\ duel' = [duel EXCEPT ![g].thread = "running"]
    /\ UNCHANGED <<client, receive, held, matchVars, undefined>>

OpenDatabaseFails(g) ==
    /\ Thread(g, "opening")
    /\ duel' = [duel EXCEPT ![g].thread = "no_db"]
    /\ UNCHANGED <<client, receive, held, matchVars, undefined>>

HasDeletedPlayer(g) == \E c \in duel[g].players : receive[c] = "gone"

\* The end of finish(): first set_in_game(false) for both, then their states.
LeaveGame(g, again) ==
    IF HasDeletedPlayer(g) THEN GoesWrong
    ELSE /\ client' = [c \in Client |-> [client[c] EXCEPT
                          !.in_game = @ /\ c \notin duel[g].players]]
         /\ duel' = [duel EXCEPT ![g].thread = "resetting", ![g].finished_twice = again]
         /\ UNCHANGED <<receive, held, matchVars, undefined>>

finish(g) ==
    /\ Thread(g, "running")
    /\ LeaveGame(g, FALSE)

\* The stray command after a finish by the deadline, once at most
\* (AtMostOneStrayFinish of Game).
FinishAgain(g) ==
    /\ Thread(g, "finished")
    /\ ~duel[g].finished_twice
    /\ LeaveGame(g, TRUE)

ResetStates(g) ==
    /\ Thread(g, "resetting")
    /\ IF HasDeletedPlayer(g) THEN GoesWrong
       ELSE /\ client' = [c \in Client |-> [client[c] EXCEPT
                             !.state = IF c \in duel[g].players THEN "WAIT_ENTER_GAME" ELSE @]]
            /\ duel' = [duel EXCEPT ![g].thread = "finished"]
            /\ UNCHANGED <<receive, held, matchVars, undefined>>

DeleteGame(g) ==
    /\ Thread(g, "finished")
    /\ duel' = [duel EXCEPT ![g].thread = "deleted"]
    /\ UNCHANGED <<client, receive, held, matchVars, undefined>>

-----------------------------------------------------------------------------
\* What a receive thread does without waiting for its user or a timeout, and
\* without the mutex of the set.
Proceeds(c) ==
    \/ HandOver(c) \/ Unmark(c) \/ NowWaitsOpponent(c) \/ NowWaitsEnterGame(c) \/ Reconnected(c)
    \/ Cleanup(c) \/ WaitForHandle(c) \/ WaitForThread(c)

client_to_server(c) ==
    \/ NicknameReceived(c) \/ LoginFails(c) \/ PasswordAccepted(c)
    \/ LineReceived(c) \/ FindDuel(c) \/ Cancel(c) \/ GameLine(c) \/ OtherLine(c)
    \/ ConnectionLost(c) \/ ReconnectTimeout(c) \/ RangeError(c) \/ Erase(c)
    \/ Proceeds(c)

find_duel_thread ==
    \/ StartScan \/ (\E c \in Client : Examine(c)) \/ EndScan
    \/ enter_game \/ ConstructGame \/ OpponentInGame \/ CreateThread \/ SetHandle

\* What a game thread does without waiting for its players.
Winds(g) == OpenDatabase(g) \/ ResetStates(g) \/ DeleteGame(g)

game_thread(g) == Winds(g) \/ OpenDatabaseFails(g) \/ finish(g) \/ FinishAgain(g)

Next ==
    \/ \E c \in Client : accept(c) \/ client_to_server(c)
    \/ find_duel_thread
    \/ \E g \in Duel : game_thread(g)

Spec == Init /\ [][Next]_vars

Awaited(g) == \E c \in Client : receive[c] \in {"handle", "join"} /\ held[c] = g

\* Threads run, and a mutex that is free again and again is got in the end: the
\* matchmaker sleeps between two walks.  That a duel whose player left comes to
\* its end is DepartureEndsGame of Game.
FairSpec ==
    /\ Spec
    /\ \A c \in Client : WF_vars(Proceeds(c))
    /\ \A c \in Client : SF_vars(Erase(c))
    /\ WF_vars(find_duel_thread)
    /\ \A g \in Duel : /\ WF_vars(Winds(g))
                       /\ WF_vars(Awaited(g) /\ finish(g))

-----------------------------------------------------------------------------
(* What the threads promise each other.                                    *)

Unfinished(g) == duel[g].thread \in {"created", "opening", "running", "no_db"}

\* Nobody plays two duels at a time, whatever /fd, /cancel, departures and
\* returns interleave with the matchmaker, unless one of his duels was finished
\* a second time while he was already in the next.
OneDuelAtATime ==
    \A g, h \in Duel : \A c \in duel[g].players \cap duel[h].players :
        g # h /\ Unfinished(g) /\ Unfinished(h) =>
            \E d \in Duel : duel[d].finished_twice /\ c \in duel[d].players

\* A player of an unfinished duel who is still there is in a game, and in that one: the
\* matchmaker leaves him alone, and his reconnect or disconnect is pushed to that duel
\* (main.cpp:302-310).  Of his lines it says nothing: they also need the state IN_GAME,
\* which the handlers of /fd and /cancel may overwrite (LinesReachTheGame of MCLobby).
PlayersAreInTheirDuel ==
    \A g \in Duel : \A c \in duel[g].players \cap clients :
        Unfinished(g) /\ (\A d \in Duel : ~duel[d].finished_twice) =>
            client[c].in_game /\ client[c].game = g

\* The clients the matchmaker has found exist until they are in the game: the
\* mutex is held from the look at the first of them, and a client leaves the set
\* before it is deleted.
FoundClientsExist ==
    ~Unlocked =>
        \A c \in {client1, client2} \ {None} : c \in clients

\* client_to_server_cleanup ends, whether or not the client is in a game, and
\* whoever holds the mutex or waits for the same game thread.
CleanupEnds ==
    \A c \in Client : receive[c] = "leaving" ~> receive[c] = "gone" \/ undefined

\* Two clients do not search side by side for ever.
SearchersMeet ==
    \A c, d \in Client :
        c # d => \/ []<>(~IsFree(c) \/ ~IsFree(d))
                 \/ <>(FreshDuels = {} \/ undefined)

\* main.cpp:232: before a client is deleted, its game thread has terminated.
GameThreadIsAwaited ==
    \A g \in Duel : Unfinished(g) /\ duel[g].thread # "no_db" => ~HasDeletedPlayer(g)

-----------------------------------------------------------------------------
(* The inductive invariant.                                                *)

\* A duel of the client has been finished twice.
Disturbed(c) == \E d \in Duel : duel[d].finished_twice /\ c \in duel[d].players

Engaged(c) == \E g \in Duel : Unfinished(g) /\ c \in duel[g].players

TwiceIsOver ==
    \A g \in Duel : duel[g].finished_twice => duel[g].thread \in {"resetting", "finished", "deleted"}

\* PlayersAreInTheirDuel for one client.
UndisturbedAreInTheirDuel ==
    \A g \in Duel : \A c \in duel[g].players :
        Unfinished(g) => \/ receive[c] = "gone" \/ Disturbed(c)
                         \/ client[c].in_game /\ client[c].game = g

\* What the matchmaker remembers, at each of its places.
Remembered ==
    /\ Unlocked => client1 = None
    /\ Unlocked \/ matchmaker = "scan" => client2 = None
    /\ matchmaker = "scan" => unexamined \subseteq clients \ {client1}
    /\ ~Unlocked /\ matchmaker # "scan" => client1 \in Client /\ client2 \in Client \ {client1}

\* Whom it has found plays nowhere, and is marked as in a game before the game exists.
FoundAreFree ==
    \A c \in {client1, client2} \ {None} :
        \/ Disturbed(c)
        \/ /\ ~Engaged(c)
           /\ matchmaker = "construct" /\ c = client1 => client[c].in_game
           /\ matchmaker = "opponent" => client[c].in_game

GameIsFresh ==
    matchmaker = "opponent" =>
        client[client1].game \in Duel /\ duel[client[client1].game].thread = "none"

Pending(g) == duel[g].thread # "none" /\ ~duel[g].handle_ready

\* One thread at most has no handle yet, and it is the matchmaker's last.
HandlesAreSet ==
    /\ \A g \in Duel : duel[g].handle_ready => duel[g].thread \notin {"none", "created"}
    /\ \A g \in Duel : Pending(g) => matchmaker \in {"spawn", "ready"}
    /\ matchmaker \in {"spawn", "ready"} =>
          \E g \in Duel : /\ Pending(g) /\ \A h \in Duel \ {g} : ~Pending(h)
                          /\ matchmaker = "spawn" <=> duel[g].thread = "created"

IInv ==
    /\ TypeOK /\ FoundClientsExist /\ OneDuelAtATime
    /\ TwiceIsOver /\ UndisturbedAreInTheirDuel
    /\ Remembered /\ FoundAreFree /\ GameIsFresh /\ HandlesAreSet

=============================================================================

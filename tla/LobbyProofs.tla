---------------------------- MODULE LobbyProofs ----------------------------
(***************************************************************************)
(* Lobby for every number of clients, nicknames and duels: nobody plays two  *)
(* duels at a time, players are in the duel that goes on with them, and the   *)
(* matchmaker never holds a client that is deleted.                          *)
(***************************************************************************)
EXTENDS Lobby, TLAPS

Places == Searchable \cup {"none", "recv", "fd", "cancel", "handoff",
                           "unmark", "wait", "leaving", "handle", "join", "erase", "gone"}

LEMMA States == {"WAIT_PASSWORD", "WAIT_ENTER_GAME", "IN_GAME"} \subseteq ClientState
BY DEF ClientState, Searchable

LEMMA WipeType ==
    ASSUME client \in [Client -> ClientObject], NEW c
    PROVE  Wipe(client, c) \in [Client -> ClientObject]
BY DEF Wipe, NewClient, ClientObject, ClientState

\* What is handed over to an object, if it is one at all.
LEMMA FlagsType ==
    ASSUME client \in [Client -> ClientObject], NEW d
    PROVE  /\ [client EXCEPT ![d].reconnect_event = TRUE] \in [Client -> ClientObject]
           /\ [client EXCEPT ![d].waiting_reconnect = FALSE] \in [Client -> ClientObject]
<1>1. [client EXCEPT ![d].reconnect_event = TRUE] \in [Client -> ClientObject]
  BY DEF ClientObject
<1>2. [client EXCEPT ![d].waiting_reconnect = FALSE] \in [Client -> ClientObject]
  BY DEF ClientObject
<1> QED
  BY <1>1, <1>2

-----------------------------------------------------------------------------
(* Types.                                                                  *)

LEMMA TypeReceive == ASSUME TypeOK, NEW c \in Client, accept(c) \/ client_to_server(c) PROVE TypeOK'
<1> USE DEF TypeOK, Goto, GoesWrong, Searchable
<1>1. CASE accept(c) \/ LoginFails(c) \/ LineReceived(c) \/ GameLine(c) \/ OtherLine(c)
  <2>1. UNCHANGED <<client, held, duel, matchVars>> /\ undefined' \in BOOLEAN
    BY <1>1 DEF accept, LoginFails, LineReceived, GameLine, OtherLine
  <2>2. receive' \in [Client -> Places]
    BY <1>1 DEF accept, LoginFails, LineReceived, GameLine, OtherLine, Places
  <2> QED
    BY <2>1, <2>2 DEF Places, matchVars
<1>2. CASE Reconnected(c) \/ ReconnectTimeout(c) \/ RangeError(c) \/ WaitForHandle(c) \/ WaitForThread(c)
  <2>1. UNCHANGED <<client, held, duel, matchVars>> /\ undefined' \in BOOLEAN
    BY <1>2 DEF Reconnected, ReconnectTimeout, RangeError, WaitForHandle, WaitForThread
  <2>2. receive' \in [Client -> Places]
    BY <1>2 DEF Reconnected, ReconnectTimeout, RangeError, WaitForHandle, WaitForThread, Places
  <2> QED
    BY <2>1, <2>2 DEF Places, matchVars
<1>3. CASE NicknameReceived(c)
  <2>1. client' \in [Client -> ClientObject]
    <3>1. PICK n \in Nickname :
             \/ client' = client
             \/ client' = [client EXCEPT ![c].nickname = n, ![c].state = "WAIT_PASSWORD"]
      BY <1>3 DEF NicknameReceived
    <3>2. PICK m \in [Client -> ClientObject] : m = [client EXCEPT ![c].nickname = n]
      BY DEF ClientObject
    <3>3. [m EXCEPT ![c].state = "WAIT_PASSWORD"] \in [Client -> ClientObject]
      BY States DEF ClientObject
    <3>4. client' = client \/ client' = [m EXCEPT ![c].state = "WAIT_PASSWORD"]
      BY <3>1, <3>2
    <3> QED
      BY <3>3, <3>4
  <2> QED
    BY <1>3, <2>1 DEF NicknameReceived, matchVars
<1>4. CASE PasswordAccepted(c)
  <2>1. client' \in [Client -> ClientObject]
    <3>1. \/ client' = [client EXCEPT ![c].authorized = TRUE]
          \/ client' = [client EXCEPT ![c].authorized = TRUE, ![c].state = "WAIT_ENTER_GAME"]
      BY <1>4 DEF PasswordAccepted
    <3>2. PICK m \in [Client -> ClientObject] : m = [client EXCEPT ![c].authorized = TRUE]
      BY DEF ClientObject
    <3>3. [m EXCEPT ![c].state = "WAIT_ENTER_GAME"] \in [Client -> ClientObject]
      BY DEF ClientObject, ClientState
    <3>4. client' = m \/ client' = [m EXCEPT ![c].state = "WAIT_ENTER_GAME"]
      BY <3>1, <3>2
    <3> QED
      BY <3>3, <3>4
  <2>2. held' \in [Client -> Client \cup Duel \cup {None}]
    BY <1>4 DEF PasswordAccepted, find_nickname_waiting_reconnect, clients
  <2> QED
    BY <1>4, <2>1, <2>2 DEF PasswordAccepted, matchVars
<1>5. CASE HandOver(c) \/ Unmark(c)
  <2>1. \/ client' = client
        \/ client' = [client EXCEPT ![held[c]].reconnect_event = TRUE]
        \/ client' = [client EXCEPT ![held[c]].waiting_reconnect = FALSE]
    BY <1>5 DEF HandOver, Unmark
  <2>2. /\ [client EXCEPT ![held[c]].reconnect_event = TRUE] \in [Client -> ClientObject]
        /\ [client EXCEPT ![held[c]].waiting_reconnect = FALSE] \in [Client -> ClientObject]
    BY FlagsType
  <2>3. client' \in [Client -> ClientObject]
    BY <2>1, <2>2
  <2> QED
    BY <1>5, <2>3 DEF HandOver, Unmark, matchVars
<1>6. CASE FindDuel(c) \/ Cancel(c)
  <2>1. \E b \in BOOLEAN : client' = [client EXCEPT ![c].finding_duel = b]
    BY <1>6 DEF FindDuel, Cancel
  <2>2. \A b \in BOOLEAN : [client EXCEPT ![c].finding_duel = b] \in [Client -> ClientObject]
    BY DEF ClientObject
  <2>3. client' \in [Client -> ClientObject]
    BY <2>1, <2>2
  <2> QED
    BY <1>6, <2>3 DEF FindDuel, Cancel, matchVars
<1>7. CASE NowWaitsOpponent(c) \/ NowWaitsEnterGame(c)
  <2>1. \E s \in ClientState : client' = [client EXCEPT ![c].state = s]
    BY <1>7 DEF NowWaitsOpponent, NowWaitsEnterGame, ClientState
  <2>2. \A s \in ClientState : [client EXCEPT ![c].state = s] \in [Client -> ClientObject]
    BY DEF ClientObject
  <2>3. client' \in [Client -> ClientObject]
    BY <2>1, <2>2
  <2> QED
    BY <1>7, <2>3 DEF NowWaitsOpponent, NowWaitsEnterGame, matchVars
<1>8. CASE ConnectionLost(c)
  <2>1. client' \in [Client -> ClientObject]
    <3>1. [client[c] EXCEPT !.reconnect_event = FALSE, !.waiting_reconnect = TRUE] \in ClientObject
      BY DEF ClientObject
    <3>2. [client EXCEPT ![c].reconnect_event = FALSE, ![c].waiting_reconnect = TRUE]
              = [client EXCEPT ![c] = [client[c] EXCEPT !.reconnect_event = FALSE, !.waiting_reconnect = TRUE]]
      OBVIOUS
    <3> QED
      BY <1>8, <3>1, <3>2 DEF ConnectionLost
  <2> QED
    BY <1>8, <2>1 DEF ConnectionLost, matchVars
<1>9. CASE Cleanup(c)
  <2>1. held' \in [Client -> Client \cup Duel \cup {None}]
    <3>1. client[c].game \in Duel \cup {None}
      BY DEF ClientObject
    <3> QED
      BY <1>9, <3>1 DEF Cleanup
  <2> QED
    BY <1>9, <2>1 DEF Cleanup, matchVars
<1>10. CASE Erase(c)
  BY <1>10, WipeType DEF Erase, matchVars
<1> QED
  BY <1>1, <1>2, <1>3, <1>4, <1>5, <1>6, <1>7, <1>8, <1>9, <1>10 DEF client_to_server, Proceeds

LEMMA TypeMatchmaker == ASSUME TypeOK, Remembered, find_duel_thread PROVE TypeOK'
<1> USE DEF TypeOK, GoesWrong
<1>1. CASE StartScan \/ EndScan
  BY <1>1 DEF StartScan, EndScan, clients
<1>2. ASSUME NEW c \in Client, Examine(c) PROVE TypeOK'
  BY <1>2 DEF Examine
<1>3. CASE enter_game
  <2>1. PICK m1 \in [Client -> ClientObject] : m1 = [client EXCEPT ![client1].finding_duel = FALSE]
    BY DEF ClientObject
  <2>2. PICK m2 \in [Client -> ClientObject] : m2 = [m1 EXCEPT ![client2].finding_duel = FALSE]
    BY DEF ClientObject
  <2>3. PICK m3 \in [Client -> ClientObject] : m3 = [m2 EXCEPT ![client1].in_game = TRUE]
    BY DEF ClientObject
  <2>4. [m3 EXCEPT ![client1].state = "IN_GAME"] \in [Client -> ClientObject]
    BY States DEF ClientObject
  <2>5. client' = [m3 EXCEPT ![client1].state = "IN_GAME"]
    BY <1>3, <2>1, <2>2, <2>3 DEF enter_game
  <2> QED
    BY <1>3, <2>4, <2>5 DEF enter_game
<1>4. CASE ConstructGame
  <2>1. PICK g \in Duel : client' = [client EXCEPT ![client1].game = g,
                                                   ![client2].in_game = TRUE,
                                                   ![client2].state = "IN_GAME"]
    BY <1>4 DEF ConstructGame, FreshDuels
  <2>2. PICK m1 \in [Client -> ClientObject] : m1 = [client EXCEPT ![client1].game = g]
    BY DEF ClientObject
  <2>3. PICK m2 \in [Client -> ClientObject] : m2 = [m1 EXCEPT ![client2].in_game = TRUE]
    BY DEF ClientObject
  <2>4. [m2 EXCEPT ![client2].state = "IN_GAME"] \in [Client -> ClientObject]
    BY States DEF ClientObject
  <2>5. client' = [m2 EXCEPT ![client2].state = "IN_GAME"]
    BY <2>1, <2>2, <2>3
  <2> QED
    BY <1>4, <2>4, <2>5 DEF ConstructGame
<1>5. CASE OpponentInGame
  <2>1. client1 \in Client /\ client2 \in Client
    BY <1>5 DEF OpponentInGame, Matchmaker, Remembered, Unlocked
  <2>2. PICK g \in Duel \cup {None} : g = client[client1].game
    BY <2>1 DEF ClientObject
  <2>3. [client EXCEPT ![client2].game = g] \in [Client -> ClientObject]
    BY DEF ClientObject
  <2>4. PICK m \in [Duel -> DuelObject] : m = [duel EXCEPT ![g].thread = "created"]
    BY DEF DuelObject
  <2>5. [m EXCEPT ![g].players = {client1, client2}] \in [Duel -> DuelObject]
    BY <2>1 DEF DuelObject
  <2>6. /\ client' = [client EXCEPT ![client2].game = g]
        /\ duel' = [m EXCEPT ![g].players = {client1, client2}]
    BY <1>5, <2>2, <2>4 DEF OpponentInGame
  <2> QED
    BY <1>5, <2>3, <2>5, <2>6 DEF OpponentInGame
<1>6. CASE CreateThread \/ SetHandle
  <2>1. /\ [duel EXCEPT ![NewDuel].thread = "opening"] \in [Duel -> DuelObject]
        /\ [duel EXCEPT ![NewDuel].handle_ready = TRUE] \in [Duel -> DuelObject]
    BY DEF DuelObject
  <2>2. duel' \in [Duel -> DuelObject]
    BY <1>6, <2>1 DEF CreateThread, SetHandle
  <2> QED
    BY <1>6, <2>2 DEF CreateThread, SetHandle, matchVars
<1> QED
  BY <1>1, <1>2, <1>3, <1>4, <1>5, <1>6 DEF find_duel_thread

LEMMA TypeGame == ASSUME TypeOK, NEW g \in Duel, game_thread(g) PROVE TypeOK'
<1> USE DEF TypeOK, GoesWrong, matchVars
<1>1. CASE OpenDatabase(g) \/ OpenDatabaseFails(g) \/ DeleteGame(g)
  <2>1. \E t \in {"running", "no_db", "deleted"} : duel' = [duel EXCEPT ![g].thread = t]
    BY <1>1 DEF OpenDatabase, OpenDatabaseFails, DeleteGame
  <2>2. \A t \in {"running", "no_db", "deleted"} : [duel EXCEPT ![g].thread = t] \in [Duel -> DuelObject]
    BY DEF DuelObject
  <2>3. duel' \in [Duel -> DuelObject]
    BY <2>1, <2>2
  <2> QED
    BY <1>1, <2>3 DEF OpenDatabase, OpenDatabaseFails, DeleteGame
<1>2. CASE finish(g) \/ FinishAgain(g)
  <2>1. PICK again \in BOOLEAN : LeaveGame(g, again)
    BY <1>2 DEF finish, FinishAgain
  <2>2. [c \in Client |-> [client[c] EXCEPT !.in_game = @ /\ c \notin duel[g].players]]
            \in [Client -> ClientObject]
    BY DEF ClientObject
  <2>3. PICK m \in [Duel -> DuelObject] : m = [duel EXCEPT ![g].thread = "resetting"]
    BY DEF DuelObject
  <2>4. [m EXCEPT ![g].finished_twice = again] \in [Duel -> DuelObject]
    BY DEF DuelObject
  <2>5. [duel EXCEPT ![g].thread = "resetting", ![g].finished_twice = again]
            = [m EXCEPT ![g].finished_twice = again]
    BY <2>3
  <2> QED
    BY <2>1, <2>2, <2>4, <2>5 DEF LeaveGame
<1>3. CASE ResetStates(g)
  <2>1. [c \in Client |-> [client[c] EXCEPT
            !.state = IF c \in duel[g].players THEN "WAIT_ENTER_GAME" ELSE @]] \in [Client -> ClientObject]
    BY DEF ClientObject, ClientState, Searchable
  <2>2. [duel EXCEPT ![g].thread = "finished"] \in [Duel -> DuelObject]
    BY DEF DuelObject
  <2> QED
    BY <1>3, <2>1, <2>2 DEF ResetStates
<1> QED
  BY <1>1, <1>2, <1>3 DEF game_thread, Winds

-----------------------------------------------------------------------------
(* The receive threads: they put nobody into a duel and out of one, and leave *)
(* the set only while it is not locked.                                      *)

Rest ==
    /\ FoundClientsExist /\ OneDuelAtATime /\ TwiceIsOver /\ UndisturbedAreInTheirDuel
    /\ Remembered /\ FoundAreFree /\ GameIsFresh /\ HandlesAreSet

Aside ==
    /\ UNCHANGED <<duel, matchVars>>
    /\ \A c \in Client :
          /\ receive[c] = "gone" => receive'[c] = "gone"
          /\ receive'[c] \in {"none", "gone"} => receive[c] \in {"none", "gone"} \/ Unlocked
          /\ \/ client'[c].in_game = client[c].in_game /\ client'[c].game = client[c].game
             \/ receive'[c] = "gone" /\ receive[c] # "gone"

LEMMA ReceiveAside ==
    ASSUME TypeOK, NEW c \in Client, accept(c) \/ client_to_server(c)
    PROVE  Aside
<1> DEFINE Same(d) == client'[d].in_game = client[d].in_game /\ client'[d].game = client[d].game
<1>1. UNCHANGED <<duel, matchVars>>
  BY DEF accept, client_to_server, Proceeds, NicknameReceived, LoginFails, PasswordAccepted,
         HandOver, Unmark, LineReceived, FindDuel, NowWaitsOpponent, Cancel, NowWaitsEnterGame,
         GameLine, OtherLine, ConnectionLost, Reconnected, ReconnectTimeout, RangeError, Cleanup,
         WaitForHandle, WaitForThread, Erase, GoesWrong
<1>2. ASSUME ~Erase(c) PROVE \A d \in Client : Same(d)
  <2>1. CASE UNCHANGED client
    BY <2>1
  <2>2. CASE NicknameReceived(c)
    <3>1. \/ client' = client
          \/ \E n \in Nickname : client' = [client EXCEPT ![c].nickname = n, ![c].state = "WAIT_PASSWORD"]
      BY <2>2 DEF NicknameReceived
    <3>2. ASSUME NEW n \in Nickname,
                 client' = [client EXCEPT ![c].nickname = n, ![c].state = "WAIT_PASSWORD"]
          PROVE  \A d \in Client : Same(d)
      <4>1. PICK m \in [Client -> ClientObject] : m = [client EXCEPT ![c].nickname = n]
        BY DEF TypeOK, ClientObject
      <4>2. client' = [m EXCEPT ![c].state = "WAIT_PASSWORD"]
        BY <3>2, <4>1
      <4>3. \A d \in Client : m[d].in_game = client[d].in_game /\ m[d].game = client[d].game
        BY <4>1 DEF TypeOK, ClientObject
      <4> QED
        BY <4>2, <4>3 DEF ClientObject
    <3> QED
      BY <3>1, <3>2
  <2>3. CASE PasswordAccepted(c)
    <3>1. \/ client' = [client EXCEPT ![c].authorized = TRUE]
          \/ client' = [client EXCEPT ![c].authorized = TRUE, ![c].state = "WAIT_ENTER_GAME"]
      BY <2>3 DEF PasswordAccepted
    <3>2. PICK m \in [Client -> ClientObject] : m = [client EXCEPT ![c].authorized = TRUE]
      BY DEF TypeOK, ClientObject
    <3>3. client' = m \/ client' = [m EXCEPT ![c].state = "WAIT_ENTER_GAME"]
      BY <3>1, <3>2
    <3>4. \A d \in Client : m[d].in_game = client[d].in_game /\ m[d].game = client[d].game
      BY <3>2 DEF TypeOK, ClientObject
    <3> QED
      BY <3>3, <3>4 DEF ClientObject
  <2>4. CASE HandOver(c) \/ Unmark(c)
    <3>1. \/ client' = client
          \/ client' = [client EXCEPT ![held[c]].reconnect_event = TRUE]
          \/ client' = [client EXCEPT ![held[c]].waiting_reconnect = FALSE]
      BY <2>4 DEF HandOver, Unmark, GoesWrong
    <3> QED
      BY <3>1 DEF TypeOK, ClientObject
  <2>5. CASE FindDuel(c) \/ NowWaitsOpponent(c) \/ Cancel(c) \/ NowWaitsEnterGame(c)
    BY <2>5 DEF FindDuel, NowWaitsOpponent, Cancel, NowWaitsEnterGame, TypeOK, ClientObject
  <2>6. CASE ConnectionLost(c)
    BY <2>6 DEF ConnectionLost, TypeOK, ClientObject
  <2> QED
    BY <1>2, <2>1, <2>2, <2>3, <2>4, <2>5, <2>6
       DEF accept, client_to_server, Proceeds, LoginFails, LineReceived, GameLine, OtherLine,
           Reconnected, ReconnectTimeout, RangeError, Cleanup, WaitForHandle, WaitForThread, GoesWrong
<1>3. ASSUME Erase(c)
      PROVE  /\ Unlocked /\ receive[c] = "erase"
             /\ receive' = [receive EXCEPT ![c] = "gone"] /\ client' = Wipe(client, c)
  BY <1>3 DEF Erase, At, Goto
<1>4. ASSUME ~Erase(c)
      PROVE  \/ UNCHANGED receive
             \/ /\ receive[c] # "gone"
                /\ \E place \in Places \ {"none", "gone"} : receive' = [receive EXCEPT ![c] = place]
  <2>1. CASE GameLine(c) \/ Cleanup(c) \/ HandOver(c) \/ Unmark(c) \/ WaitForHandle(c)
    BY <2>1 DEF GameLine, Cleanup, HandOver, Unmark, WaitForHandle, At, Goto, GoesWrong, Places
  <2>2. CASE NicknameReceived(c) \/ PasswordAccepted(c) \/ LoginFails(c) \/ accept(c)
    BY <2>2 DEF NicknameReceived, PasswordAccepted, LoginFails, accept, At, Goto, Places
  <2>3. CASE FindDuel(c) \/ NowWaitsOpponent(c) \/ Cancel(c) \/ NowWaitsEnterGame(c)
    BY <2>3 DEF FindDuel, NowWaitsOpponent, Cancel, NowWaitsEnterGame, At, Goto, Places
  <2>4. CASE \/ OtherLine(c) \/ ConnectionLost(c) \/ Reconnected(c) \/ ReconnectTimeout(c)
             \/ RangeError(c) \/ WaitForThread(c)
    BY <2>4 DEF OtherLine, ConnectionLost, Reconnected, ReconnectTimeout, RangeError, WaitForThread,
                At, Goto, Places
  <2>5. CASE LineReceived(c)
    BY <2>5 DEF LineReceived, At, Goto, Places, Searchable
  <2> QED
    BY <1>4, <2>1, <2>2, <2>3, <2>4, <2>5 DEF client_to_server, Proceeds
<1>5. CASE Erase(c)
  <2>1. ASSUME NEW d \in Client \ {c} PROVE receive'[d] = receive[d] /\ Same(d)
    BY <1>3, <1>5, <2>1 DEF TypeOK, Wipe
  <2>2. receive'[c] = "gone" /\ receive[c] = "erase" /\ Unlocked
    BY <1>3, <1>5 DEF TypeOK
  <2> QED
    BY <1>1, <2>1, <2>2 DEF Aside
<1>6. CASE ~Erase(c)
  <2>1. ASSUME NEW d \in Client
        PROVE  \/ receive'[d] = receive[d]
               \/ receive[d] # "gone" /\ receive'[d] \notin {"none", "gone"}
    BY <1>4, <1>6 DEF TypeOK
  <2> QED
    BY <1>1, <1>2, <1>6, <2>1 DEF Aside
<1> QED
  BY <1>5, <1>6

LEMMA AsideKeeps == ASSUME IInv, Aside PROVE Rest'
<1>1. UNCHANGED <<duel, matchmaker, unexamined, client1, client2>>
  BY DEF Aside, matchVars
<1>2. ASSUME NEW c \in clients, ~Unlocked PROVE c \in clients'
  BY <1>2 DEF Aside, clients
<1>3. FoundClientsExist' /\ Remembered'
  BY <1>1, <1>2 DEF IInv, FoundClientsExist, Remembered, Unlocked
<1>4. /\ OneDuelAtATime' /\ TwiceIsOver' /\ HandlesAreSet'
      /\ \A c : (Disturbed(c)' <=> Disturbed(c)) /\ (Engaged(c)' <=> Engaged(c))
  BY <1>1 DEF IInv, OneDuelAtATime, TwiceIsOver, HandlesAreSet, Pending, Disturbed, Engaged, Unfinished
<1>5. UndisturbedAreInTheirDuel'
  <2> SUFFICES ASSUME NEW g \in Duel, NEW c \in duel[g].players, Unfinished(g),
                      receive'[c] # "gone", ~Disturbed(c)
               PROVE  client'[c].in_game /\ client'[c].game = g
    BY <1>1, <1>4 DEF UndisturbedAreInTheirDuel, Unfinished
  <2>1. c \in Client
    BY DEF IInv, TypeOK, DuelObject
  <2>2. receive[c] # "gone" /\ client[c].in_game /\ client[c].game = g
    BY <2>1 DEF Aside, IInv, UndisturbedAreInTheirDuel
  <2> QED
    BY <2>1, <2>2 DEF Aside
<1>6. ASSUME NEW c \in clients, ~Unlocked
      PROVE  client'[c].in_game = client[c].in_game /\ client'[c].game = client[c].game
  BY <1>6 DEF Aside, clients
<1>7. FoundAreFree' /\ GameIsFresh'
  <2>1. matchmaker \in {"construct", "opponent"} => ~Unlocked /\ client1 \in clients /\ client2 \in clients
    BY NoneAssumption DEF IInv, FoundClientsExist, Remembered, Unlocked
  <2> QED
    BY <1>1, <1>4, <1>6, <2>1 DEF IInv, FoundAreFree, GameIsFresh
<1> QED
  BY <1>3, <1>4, <1>5, <1>7 DEF Rest

-----------------------------------------------------------------------------
(* The matchmaker.                                                         *)

\* The walk over the set leaves the clients and the duels alone.
LEMMA WalkKeeps ==
    ASSUME IInv, StartScan \/ EndScan \/ \E c \in Client : Examine(c)
    PROVE  Rest'
<1> USE DEF Matchmaker
<1>1. /\ UNCHANGED <<client, receive, duel>>
      /\ matchmaker \in {"idle", "scan"} /\ matchmaker' \in {"idle", "scan", "pair"}
  BY DEF StartScan, EndScan, Examine
<1>2. \A c : (Disturbed(c)' <=> Disturbed(c)) /\ (Engaged(c)' <=> Engaged(c))
  BY <1>1 DEF Disturbed, Engaged, Unfinished
<1>3. OneDuelAtATime' /\ TwiceIsOver' /\ UndisturbedAreInTheirDuel' /\ GameIsFresh'
  BY <1>1, <1>2 DEF IInv, OneDuelAtATime, TwiceIsOver, UndisturbedAreInTheirDuel, GameIsFresh, Unfinished
<1>4. HandlesAreSet'
  BY <1>1 DEF IInv, HandlesAreSet, Pending
<1>5. FoundClientsExist' /\ Remembered' /\ FoundAreFree'
  <2>1. CASE StartScan
    <3>1. client1 = None /\ client2 = None
      BY <2>1 DEF StartScan, IInv, Remembered, Unlocked
    <3> QED
      BY <2>1, <3>1, NoneAssumption DEF StartScan, FoundClientsExist, Remembered, FoundAreFree, Unlocked, clients
  <2>2. CASE EndScan
    <3>1. client2 = None
      BY <2>2 DEF EndScan, IInv, Remembered
    <3> QED
      BY <2>2, <3>1 DEF EndScan, FoundClientsExist, Remembered, FoundAreFree, Unlocked
  <2>3. ASSUME NEW c \in Client, Examine(c) PROVE FoundClientsExist' /\ Remembered' /\ FoundAreFree'
    <3>1. /\ matchmaker = "scan" /\ c \in clients /\ c # client1 /\ client2 = None
          /\ clients' = clients /\ unexamined' = unexamined \ {c}
      BY <1>1, <2>3 DEF Examine, IInv, Remembered, clients
    <3>2. IsFree(c) => Disturbed(c) \/ ~Engaged(c)
      <4>1. c \in Client /\ receive[c] # "gone"
        BY <3>1 DEF clients
      <4> QED
        BY <4>1 DEF IsFree, IInv, UndisturbedAreInTheirDuel, Engaged
    <3>3. CASE ~IsFree(c)
      <4>1. UNCHANGED <<matchmaker, client1, client2>>
        BY <2>3, <3>3 DEF Examine
      <4> QED
        BY <1>2, <3>1, <4>1 DEF IInv, FoundClientsExist, Remembered, FoundAreFree, Unlocked
    <3>4. CASE IsFree(c) /\ client1 = None
      <4>1. client1' = c /\ UNCHANGED <<matchmaker, client2>>
        BY <2>3, <3>4 DEF Examine
      <4>2. FoundClientsExist' /\ Remembered'
        BY <3>1, <4>1 DEF IInv, FoundClientsExist, Remembered, Unlocked
      <4>3. FoundAreFree'
        BY <1>2, <3>1, <3>2, <3>4, <4>1 DEF FoundAreFree
      <4> QED
        BY <4>2, <4>3
    <3>5. CASE IsFree(c) /\ client1 # None
      <4>1. client2' = c /\ matchmaker' = "pair" /\ UNCHANGED client1
        BY <2>3, <3>5 DEF Examine
      <4>2. client1 \in Client
        BY <3>5 DEF IInv, TypeOK
      <4>3. FoundClientsExist' /\ Remembered'
        BY <3>1, <4>1, <4>2, NoneAssumption DEF IInv, FoundClientsExist, Remembered, Unlocked, clients
      <4>4. FoundAreFree'
        BY <1>2, <3>1, <3>2, <3>5, <4>1 DEF IInv, FoundAreFree
      <4> QED
        BY <4>3, <4>4
    <3> QED
      BY <3>3, <3>4, <3>5
  <2> QED
    BY <2>1, <2>2, <2>3
<1> QED
  BY <1>3, <1>4, <1>5 DEF Rest

LEMMA EnterGameKeeps == ASSUME IInv, enter_game PROVE Rest'
<1> USE DEF Matchmaker
<1>1. /\ UNCHANGED <<receive, duel, unexamined, client1, client2>>
      /\ matchmaker = "pair" /\ matchmaker' = "construct"
  BY DEF enter_game
<1>2. client1 \in Client /\ client2 \in Client /\ client1 # client2
  BY <1>1 DEF IInv, Remembered, Unlocked
<1>3. /\ \A c \in Client : client'[c].game = client[c].game /\ (client[c].in_game => client'[c].in_game)
      /\ client'[client1].in_game
  <2> DEFINE Same(objects) == \A c \in Client : /\ objects[c].in_game = client[c].in_game
                                               /\ objects[c].game = client[c].game
  <2>1. PICK m1 \in [Client -> ClientObject] : m1 = [client EXCEPT ![client1].finding_duel = FALSE]
    BY DEF IInv, TypeOK, ClientObject
  <2>2. Same(m1)
    BY <2>1 DEF IInv, TypeOK, ClientObject
  <2>3. PICK m2 \in [Client -> ClientObject] : m2 = [m1 EXCEPT ![client2].finding_duel = FALSE]
    BY DEF ClientObject
  <2>4. Same(m2)
    BY <2>2, <2>3 DEF ClientObject
  <2>5. PICK m3 \in [Client -> ClientObject] : m3 = [m2 EXCEPT ![client1].in_game = TRUE]
    BY DEF ClientObject
  <2>6. /\ m3[client1].in_game = TRUE
        /\ \A c \in Client \ {client1} : m3[c].in_game = client[c].in_game
        /\ \A c \in Client : m3[c].game = client[c].game
    BY <1>2, <2>4, <2>5 DEF ClientObject
  <2>7. client' = [m3 EXCEPT ![client1].state = "IN_GAME"]
    BY <2>1, <2>3, <2>5 DEF enter_game
  <2>8. \A c \in Client : client'[c].in_game = m3[c].in_game /\ client'[c].game = m3[c].game
    BY <2>7 DEF ClientObject
  <2> QED
    BY <1>2, <2>6, <2>8
<1>4. \A c : (Disturbed(c)' <=> Disturbed(c)) /\ (Engaged(c)' <=> Engaged(c))
  BY <1>1 DEF Disturbed, Engaged, Unfinished
<1>5. OneDuelAtATime' /\ TwiceIsOver' /\ GameIsFresh'
  BY <1>1 DEF IInv, OneDuelAtATime, TwiceIsOver, GameIsFresh, Unfinished
<1>6. HandlesAreSet'
  BY <1>1 DEF IInv, HandlesAreSet, Pending
<1>7. FoundClientsExist' /\ Remembered' /\ FoundAreFree'
  BY <1>1, <1>2, <1>3, <1>4
     DEF IInv, FoundClientsExist, Remembered, FoundAreFree, Unlocked, clients
<1>8. UndisturbedAreInTheirDuel'
  <2>1. \A g \in Duel : \A c \in duel[g].players : c \in Client
    BY DEF IInv, TypeOK, DuelObject
  <2> QED
    BY <1>1, <1>3, <1>4, <2>1 DEF IInv, UndisturbedAreInTheirDuel, Unfinished
<1> QED
  BY <1>5, <1>6, <1>7, <1>8 DEF Rest

LEMMA ConstructKeeps == ASSUME IInv, ConstructGame PROVE Rest'
<1> USE DEF Matchmaker
<1>1. /\ UNCHANGED <<receive, duel, unexamined, client1, client2>>
      /\ matchmaker = "construct" /\ matchmaker' = "opponent"
  BY DEF ConstructGame
<1>2. client1 \in Client /\ client2 \in Client /\ client1 # client2
  BY <1>1 DEF IInv, Remembered, Unlocked
<1>3. PICK fresh \in FreshDuels : client' = [client EXCEPT ![client1].game = fresh,
                                                         ![client2].in_game = TRUE,
                                                         ![client2].state = "IN_GAME"]
  BY DEF ConstructGame
<1>4. /\ \A c \in Client \ {client1} : client'[c].game = client[c].game
      /\ \A c \in Client : client[c].in_game => client'[c].in_game
      /\ client'[client1].game = fresh /\ client'[client2].in_game
  <2>1. client'[client1] = [client[client1] EXCEPT !.game = fresh]
    BY <1>2, <1>3 DEF IInv, TypeOK, ClientObject
  <2>2. client'[client2] = [client[client2] EXCEPT !.in_game = TRUE, !.state = "IN_GAME"]
    BY <1>2, <1>3 DEF IInv, TypeOK, ClientObject
  <2>3. \A c \in Client \ {client1, client2} : client'[c] = client[c]
    BY <1>2, <1>3 DEF IInv, TypeOK
  <2>4. /\ client'[client1].game = fresh /\ client'[client1].in_game = client[client1].in_game
        /\ client'[client2].game = client[client2].game /\ client'[client2].in_game = TRUE
    BY <1>2, <2>1, <2>2 DEF IInv, TypeOK, ClientObject
  <2>5. \A c \in Client : c = client1 \/ c = client2 \/ client'[c] = client[c]
    BY <2>3
  <2> QED
    BY <1>2, <2>4, <2>5
<1>5. \A c : (Disturbed(c)' <=> Disturbed(c)) /\ (Engaged(c)' <=> Engaged(c))
  BY <1>1 DEF Disturbed, Engaged, Unfinished
<1>6. OneDuelAtATime' /\ TwiceIsOver'
  BY <1>1 DEF IInv, OneDuelAtATime, TwiceIsOver, Unfinished
<1>7. HandlesAreSet'
  BY <1>1 DEF IInv, HandlesAreSet, Pending
<1>8. FoundClientsExist' /\ Remembered' /\ GameIsFresh'
  BY <1>1, <1>2, <1>4
     DEF IInv, FoundClientsExist, Remembered, GameIsFresh, Unlocked, clients, FreshDuels
<1>9. FoundAreFree'
  BY <1>1, <1>2, <1>4, <1>5 DEF IInv, FoundAreFree
<1>10. UndisturbedAreInTheirDuel'
  <2> SUFFICES ASSUME NEW g \in Duel, NEW c \in duel[g].players, Unfinished(g),
                      receive[c] # "gone", ~Disturbed(c)
               PROVE  client'[c].in_game /\ client'[c].game = g
    BY <1>1, <1>5 DEF UndisturbedAreInTheirDuel, Unfinished
  <2>1. c \in Client /\ Engaged(c)
    BY DEF IInv, TypeOK, DuelObject, Engaged
  <2>2. c # client1
    BY <1>2, <2>1, NoneAssumption DEF IInv, FoundAreFree
  <2> QED
    BY <1>4, <2>1, <2>2 DEF IInv, UndisturbedAreInTheirDuel
<1> QED
  BY <1>6, <1>7, <1>8, <1>9, <1>10 DEF Rest

LEMMA OpponentKeeps == ASSUME IInv, OpponentInGame PROVE Rest'
<1> USE DEF Matchmaker
<1>1. /\ UNCHANGED receive /\ matchmaker = "opponent" /\ matchmaker' = "spawn"
      /\ client1' = None /\ client2' = None
  BY DEF OpponentInGame
<1>2. client1 \in Client /\ client2 \in Client /\ client1 # client2
  BY <1>1 DEF IInv, Remembered, Unlocked
<1>3. PICK g \in Duel : g = client[client1].game /\ duel[g].thread = "none"
  BY <1>1 DEF IInv, GameIsFresh
<1>4. ~duel[g].handle_ready /\ ~duel[g].finished_twice
  BY <1>3 DEF IInv, HandlesAreSet, TwiceIsOver
<1>5. /\ duel'[g] = [duel[g] EXCEPT !.thread = "created", !.players = {client1, client2}]
      /\ \A h \in Duel \ {g} : duel'[h] = duel[h]
  BY <1>3 DEF OpponentInGame, IInv, TypeOK
<1>6. /\ duel'[g].thread = "created" /\ duel'[g].players = {client1, client2}
      /\ ~duel'[g].handle_ready /\ ~duel'[g].finished_twice
  BY <1>4, <1>5 DEF IInv, TypeOK, DuelObject
<1>7. /\ \A c \in Client : client'[c].in_game = client[c].in_game
      /\ \A c \in Client \ {client2} : client'[c].game = client[c].game
      /\ client'[client2].game = g
  BY <1>2, <1>3 DEF OpponentInGame, IInv, TypeOK, ClientObject
<1>8. \A c : Disturbed(c)' <=> Disturbed(c)
  BY <1>4, <1>5, <1>6 DEF Disturbed
<1>9. \A c \in {client1, client2} : Disturbed(c) \/ (~Engaged(c) /\ client[c].in_game)
  <2>1. client1 # None /\ client2 # None
    BY <1>2, NoneAssumption
  <2>2. \A c \in {client1, client2} \ {None} :
            Disturbed(c) \/ (~Engaged(c) /\ (matchmaker = "opponent" => client[c].in_game))
    BY DEF IInv, FoundAreFree
  <2> QED
    BY <1>1, <2>1, <2>2
<1>10. ~Unfinished(g) /\ \A h \in Duel \ {g} : (Unfinished(h)' <=> Unfinished(h)) /\ duel'[h].players = duel[h].players
  BY <1>3, <1>5 DEF Unfinished
<1>11. OneDuelAtATime'
  <2> SUFFICES ASSUME NEW h \in Duel, NEW k \in Duel, NEW c \in duel'[h].players \cap duel'[k].players,
                      h # k, Unfinished(h)', Unfinished(k)'
               PROVE  Disturbed(c)'
    BY DEF OneDuelAtATime, Disturbed
  <2>1. CASE h # g /\ k # g
    BY <1>8, <1>10, <2>1 DEF IInv, OneDuelAtATime, Disturbed
  <2>2. CASE h = g
    BY <1>6, <1>8, <1>9, <1>10, <2>2 DEF Engaged
  <2>3. CASE k = g
    BY <1>6, <1>8, <1>9, <1>10, <2>3 DEF Engaged
  <2> QED
    BY <2>1, <2>2, <2>3
<1>12. TwiceIsOver'
  BY <1>5, <1>6 DEF IInv, TwiceIsOver
<1>13. UndisturbedAreInTheirDuel'
  <2> SUFFICES ASSUME NEW h \in Duel, NEW c \in duel'[h].players, Unfinished(h)',
                      receive[c] # "gone", ~Disturbed(c)
               PROVE  client'[c].in_game /\ client'[c].game = h
    BY <1>1, <1>8 DEF UndisturbedAreInTheirDuel
  <2>1. CASE h = g
    BY <1>2, <1>3, <1>6, <1>7, <1>9, <2>1
  <2>2. CASE h # g
    <3>1. c \in duel[h].players /\ Unfinished(h) /\ Engaged(c) /\ c \in Client
      BY <1>10, <2>2 DEF Engaged, IInv, TypeOK, DuelObject
    <3>2. c # client2
      BY <1>9, <3>1
    <3> QED
      BY <1>7, <3>1, <3>2 DEF IInv, UndisturbedAreInTheirDuel
  <2> QED
    BY <2>1, <2>2
<1>14. HandlesAreSet'
  <2>1. \A h \in Duel : ~Pending(h)
    BY <1>1 DEF IInv, HandlesAreSet
  <2>2. Pending(g)' /\ \A h \in Duel \ {g} : ~Pending(h)'
    BY <1>5, <1>6, <2>1 DEF Pending
  <2>3. \A h \in Duel : duel'[h].handle_ready => duel'[h].thread \notin {"none", "created"}
    BY <1>5, <1>6 DEF IInv, HandlesAreSet
  <2>4. \E h \in Duel : /\ Pending(h)' /\ \A k \in Duel \ {h} : ~Pending(k)'
                        /\ duel'[h].thread = "created"
    BY <1>6, <2>2
  <2> QED
    BY <1>1, <2>3, <2>4 DEF HandlesAreSet
<1>15. FoundClientsExist' /\ Remembered' /\ FoundAreFree' /\ GameIsFresh'
  BY <1>1 DEF FoundClientsExist, Remembered, FoundAreFree, GameIsFresh, Unlocked
<1> QED
  BY <1>11, <1>12, <1>13, <1>14, <1>15 DEF Rest

\* The duel whose handle is missing is the last one created.
LEMMA NewDuelIs ==
    ASSUME IInv, matchmaker \in {"spawn", "ready"}
    PROVE  /\ NewDuel \in Duel /\ Pending(NewDuel) /\ \A h \in Duel \ {NewDuel} : ~Pending(h)
           /\ matchmaker = "spawn" <=> duel[NewDuel].thread = "created"
<1>1. PICK g \in Duel : /\ Pending(g) /\ \A h \in Duel \ {g} : ~Pending(h)
                        /\ matchmaker = "spawn" <=> duel[g].thread = "created"
  BY DEF IInv, HandlesAreSet
<1>2. NewDuel \in Duel /\ Pending(NewDuel)
  BY <1>1 DEF NewDuel, Pending
<1> QED
  BY <1>1, <1>2

LEMMA SpawnKeeps == ASSUME IInv, CreateThread \/ SetHandle PROVE Rest'
<1> USE DEF Matchmaker
<1>1. CASE UNCHANGED <<client, receive, held, duel, matchVars>>
  BY <1>1, AsideKeeps DEF Aside
<1>2. CASE ~(UNCHANGED <<client, receive, held, duel, matchVars>>)
  <2>1. /\ UNCHANGED <<client, receive, client1, client2>>
        /\ \/ /\ matchmaker = "spawn" /\ matchmaker' = "ready"
              /\ duel' = [duel EXCEPT ![NewDuel].thread = "opening"]
           \/ /\ matchmaker = "ready" /\ matchmaker' = "idle"
              /\ duel' = [duel EXCEPT ![NewDuel].handle_ready = TRUE]
    BY <1>2 DEF CreateThread, SetHandle, GoesWrong
  <2>2. PICK g \in Duel : g = NewDuel
    BY <2>1, NewDuelIs
  <2>3. /\ Pending(g) /\ \A h \in Duel \ {g} : ~Pending(h)
        /\ matchmaker = "spawn" <=> duel[g].thread = "created"
    BY <2>1, <2>2, NewDuelIs
  <2>4. /\ \A h \in Duel \ {g} : duel'[h] = duel[h]
        /\ duel'[g].players = duel[g].players /\ duel'[g].finished_twice = duel[g].finished_twice
    BY <2>1, <2>2 DEF IInv, TypeOK, DuelObject
  <2>5. \/ /\ matchmaker = "spawn" /\ duel'[g].thread = "opening" /\ ~duel'[g].handle_ready
        \/ /\ matchmaker = "ready" /\ duel'[g].thread = duel[g].thread /\ duel'[g].handle_ready
    BY <2>1, <2>2, <2>3 DEF IInv, TypeOK, DuelObject, Pending
  <2>6. \A h \in Duel : (Unfinished(h)' <=> Unfinished(h)) /\ duel'[h].players = duel[h].players
                        /\ duel'[h].finished_twice = duel[h].finished_twice
    BY <2>3, <2>4, <2>5 DEF Unfinished
  <2>7. \A c : (Disturbed(c)' <=> Disturbed(c)) /\ (Engaged(c)' <=> Engaged(c))
    BY <2>6 DEF Disturbed, Engaged
  <2>8. OneDuelAtATime' /\ UndisturbedAreInTheirDuel'
    BY <2>1, <2>6, <2>7 DEF IInv, OneDuelAtATime, UndisturbedAreInTheirDuel
  <2>9. TwiceIsOver'
    BY <2>3, <2>4, <2>5 DEF IInv, TwiceIsOver
  <2>10. HandlesAreSet'
    <3>1. \A h \in Duel : duel'[h].handle_ready => duel'[h].thread \notin {"none", "created"}
      BY <2>3, <2>4, <2>5 DEF IInv, HandlesAreSet, Pending
    <3>2. CASE matchmaker = "spawn"
      <4>1. Pending(g)' /\ duel'[g].thread # "created" /\ \A h \in Duel \ {g} : ~Pending(h)'
        BY <2>3, <2>4, <2>5, <3>2 DEF Pending
      <4> QED
        BY <2>1, <3>1, <3>2, <4>1 DEF HandlesAreSet
    <3>3. CASE matchmaker = "ready"
      <4>1. \A h \in Duel : ~Pending(h)'
        BY <2>3, <2>4, <2>5, <3>3 DEF Pending
      <4> QED
        BY <2>1, <3>1, <3>3, <4>1 DEF HandlesAreSet
    <3> QED
      BY <2>1, <3>2, <3>3
  <2>11. FoundClientsExist' /\ Remembered' /\ FoundAreFree' /\ GameIsFresh'
    BY <2>1 DEF IInv, FoundClientsExist, Remembered, FoundAreFree, GameIsFresh, Unlocked
  <2> QED
    BY <2>8, <2>9, <2>10, <2>11 DEF Rest
<1> QED
  BY <1>1, <1>2

-----------------------------------------------------------------------------
(* The game threads.                                                       *)

\* A game thread that only moves on.
LEMMA ThreadKeeps ==
    ASSUME IInv, NEW g \in Duel, NEW t, UNCHANGED <<receive, matchVars>>,
           \A c \in Client : client'[c].in_game = client[c].in_game /\ client'[c].game = client[c].game,
           duel' = [duel EXCEPT ![g].thread = t],
           \/ duel[g].thread = "opening" /\ t \in {"running", "no_db"}
           \/ duel[g].thread \in {"resetting", "finished"} /\ t \in {"finished", "deleted"}
    PROVE  Rest'
<1>1. UNCHANGED <<receive, matchmaker, unexamined, client1, client2>>
  BY DEF matchVars
<1>2. /\ \A h \in Duel \ {g} : duel'[h] = duel[h]
      /\ duel'[g].players = duel[g].players /\ duel'[g].finished_twice = duel[g].finished_twice
      /\ duel'[g].thread = t /\ duel'[g].handle_ready = duel[g].handle_ready
  BY DEF IInv, TypeOK, DuelObject
<1>3. \A h \in Duel : (Unfinished(h)' <=> Unfinished(h)) /\ duel'[h].players = duel[h].players
                      /\ duel'[h].finished_twice = duel[h].finished_twice
  BY <1>2 DEF Unfinished
<1>4. \A c : (Disturbed(c)' <=> Disturbed(c)) /\ (Engaged(c)' <=> Engaged(c))
  BY <1>3 DEF Disturbed, Engaged
<1>5. OneDuelAtATime'
  BY <1>3 DEF IInv, OneDuelAtATime
<1>6. UndisturbedAreInTheirDuel'
  <2>1. \A h \in Duel : \A c \in duel[h].players : c \in Client
    BY DEF IInv, TypeOK, DuelObject
  <2> QED
    BY <1>1, <1>3, <1>4, <2>1 DEF IInv, UndisturbedAreInTheirDuel
<1>7. TwiceIsOver'
  BY <1>2 DEF IInv, TwiceIsOver
<1>8. HandlesAreSet'
  <2>1. \A h \in Duel : (Pending(h)' <=> Pending(h)) /\ (duel'[h].thread = "created" <=> duel[h].thread = "created")
    BY <1>2 DEF Pending
  <2>2. \A h \in Duel : duel'[h].handle_ready => duel'[h].thread \notin {"none", "created"}
    BY <1>2 DEF IInv, HandlesAreSet
  <2> QED
    BY <1>1, <2>1, <2>2 DEF IInv, HandlesAreSet
<1>9. FoundClientsExist' /\ Remembered'
  BY <1>1 DEF IInv, FoundClientsExist, Remembered, Unlocked, clients
<1>10. FoundAreFree' /\ GameIsFresh'
  <2>1. matchmaker \in {"construct", "opponent"} => client1 \in Client /\ client2 \in Client
    BY DEF IInv, Remembered, Unlocked
  <2>2. FoundAreFree'
    BY <1>1, <1>4, <2>1 DEF IInv, FoundAreFree
  <2>3. GameIsFresh'
    BY <1>1, <1>2, <2>1 DEF IInv, GameIsFresh
  <2> QED
    BY <2>2, <2>3
<1> QED
  BY <1>5, <1>6, <1>7, <1>8, <1>9, <1>10 DEF Rest

\* The end of finish(): whoever it sets free was in this duel, or has had one that
\* was finished twice.
LEMMA LeaveKeeps ==
    ASSUME IInv, NEW g \in Duel, NEW again \in BOOLEAN, ~HasDeletedPlayer(g), LeaveGame(g, again),
           \/ duel[g].thread = "running" /\ ~again
           \/ duel[g].thread = "finished" /\ again
    PROVE  Rest'
<1>1. UNCHANGED <<receive, matchmaker, unexamined, client1, client2>>
  BY DEF LeaveGame, matchVars
<1>2. /\ \A h \in Duel \ {g} : duel'[h] = duel[h]
      /\ duel'[g].players = duel[g].players /\ duel'[g].finished_twice = again
      /\ duel'[g].thread = "resetting" /\ duel'[g].handle_ready = duel[g].handle_ready
  <2>1. PICK m \in [Duel -> DuelObject] : m = [duel EXCEPT ![g].thread = "resetting"]
    BY DEF IInv, TypeOK, DuelObject
  <2>2. duel' = [m EXCEPT ![g].finished_twice = again]
    BY <2>1 DEF LeaveGame
  <2>3. /\ m[g].players = duel[g].players /\ m[g].thread = "resetting"
        /\ m[g].handle_ready = duel[g].handle_ready /\ \A h \in Duel \ {g} : m[h] = duel[h]
    BY <2>1 DEF IInv, TypeOK, DuelObject
  <2> QED
    BY <2>2, <2>3 DEF DuelObject
<1>3. ASSUME NEW c \in Client
      PROVE  /\ client'[c].game = client[c].game
             /\ c \notin duel[g].players => client'[c].in_game = client[c].in_game
  BY DEF LeaveGame, IInv, TypeOK, ClientObject
<1>4. /\ ~Unfinished(g)'
      /\ \A h \in Duel \ {g} : (Unfinished(h)' <=> Unfinished(h)) /\ duel'[h].players = duel[h].players
  BY <1>2 DEF Unfinished
<1>5. \A c : (Engaged(c)' => Engaged(c)) /\ (Disturbed(c) => Disturbed(c)')
  <2>1. ~duel[g].finished_twice \/ again
    BY DEF IInv, TwiceIsOver
  <2> QED
    BY <1>2, <1>4, <2>1 DEF Engaged, Disturbed
\* Whoever plays another duel as well is excused.
<1>6. \A c \in duel[g].players : Disturbed(c)' \/ (Engaged(c) /\ ~Engaged(c)')
  <2>1. CASE again
    BY <1>2, <2>1 DEF Disturbed
  <2>2. CASE ~again
    <3>1. Unfinished(g)
      BY <2>2 DEF Unfinished
    <3>2. ASSUME NEW c \in duel[g].players, Engaged(c)' PROVE Disturbed(c)
      <4>1. PICK h \in Duel \ {g} : Unfinished(h) /\ c \in duel[h].players
        BY <1>4, <3>2 DEF Engaged
      <4> QED
        BY <3>1, <4>1 DEF IInv, OneDuelAtATime, Disturbed
    <3> QED
      BY <1>5, <3>1, <3>2 DEF Engaged
  <2> QED
    BY <2>1, <2>2
<1>7. OneDuelAtATime'
  <2> SUFFICES ASSUME NEW h \in Duel, NEW k \in Duel, NEW c \in duel'[h].players \cap duel'[k].players,
                      h # k, Unfinished(h)', Unfinished(k)'
               PROVE  Disturbed(c)'
    BY DEF OneDuelAtATime, Disturbed
  <2>1. Disturbed(c)
    BY <1>4 DEF IInv, OneDuelAtATime, Disturbed
  <2> QED
    BY <1>5, <2>1
<1>8. UndisturbedAreInTheirDuel'
  <2> SUFFICES ASSUME NEW h \in Duel \ {g}, NEW c \in duel[h].players, Unfinished(h), Unfinished(h)',
                      receive[c] # "gone", ~Disturbed(c)'
               PROVE  client'[c].in_game /\ client'[c].game = h
    BY <1>1, <1>4 DEF UndisturbedAreInTheirDuel
  <2>1. c \in Client /\ Engaged(c)'
    BY <1>4 DEF IInv, TypeOK, DuelObject, Engaged
  <2>2. c \notin duel[g].players
    BY <1>6, <2>1
  <2>3. client[c].in_game /\ client[c].game = h
    BY <1>5 DEF IInv, UndisturbedAreInTheirDuel
  <2> QED
    BY <1>3, <2>1, <2>2, <2>3
<1>9. TwiceIsOver'
  BY <1>2 DEF IInv, TwiceIsOver
<1>10. HandlesAreSet'
  <2>1. \A h \in Duel : (Pending(h)' <=> Pending(h)) /\ (duel'[h].thread = "created" <=> duel[h].thread = "created")
    BY <1>2 DEF Pending
  <2>2. \A h \in Duel : duel'[h].handle_ready => duel'[h].thread \notin {"none", "created"}
    BY <1>2 DEF IInv, HandlesAreSet
  <2> QED
    BY <1>1, <2>1, <2>2 DEF IInv, HandlesAreSet
<1>11. FoundClientsExist' /\ Remembered'
  BY <1>1 DEF IInv, FoundClientsExist, Remembered, Unlocked, clients
<1>12. matchmaker \in {"construct", "opponent"} => client1 \in Client /\ client2 \in Client
  BY DEF IInv, Remembered, Unlocked
<1>13. FoundAreFree'
  <2> SUFFICES ASSUME NEW c \in {client1, client2} \ {None}, ~Disturbed(c)'
               PROVE  /\ ~Engaged(c)'
                      /\ matchmaker = "construct" /\ c = client1 => client'[c].in_game
                      /\ matchmaker = "opponent" => client'[c].in_game
    BY <1>1 DEF FoundAreFree
  <2>1. ~Disturbed(c) /\ ~Engaged(c)
    BY <1>5 DEF IInv, FoundAreFree
  <2>2. c \notin duel[g].players
    BY <1>6, <2>1
  <2>3. /\ matchmaker = "construct" /\ c = client1 => client[c].in_game
        /\ matchmaker = "opponent" => client[c].in_game
    BY <2>1 DEF IInv, FoundAreFree
  <2>4. c \in Client => client'[c].in_game = client[c].in_game
    BY <1>3, <2>2
  <2> QED
    BY <1>5, <1>12, <2>1, <2>3, <2>4
<1>14. GameIsFresh'
  <2>1. matchmaker = "opponent" => client'[client1].game = client[client1].game
    BY <1>3, <1>12
  <2> QED
    BY <1>1, <1>2, <2>1 DEF IInv, GameIsFresh
<1> QED
  BY <1>7, <1>8, <1>9, <1>10, <1>11, <1>13, <1>14 DEF Rest

LEMMA GameKeeps == ASSUME IInv, NEW g \in Duel, game_thread(g) PROVE Rest'
<1>1. CASE UNCHANGED <<client, receive, held, duel, matchVars>>
  BY <1>1, AsideKeeps DEF Aside
<1>2. CASE OpenDatabase(g) \/ OpenDatabaseFails(g) \/ DeleteGame(g)
  BY <1>2, ThreadKeeps DEF OpenDatabase, OpenDatabaseFails, DeleteGame, Thread
<1>3. CASE ResetStates(g) /\ ~HasDeletedPlayer(g)
  <2>1. \A c \in Client : client'[c].in_game = client[c].in_game /\ client'[c].game = client[c].game
    BY <1>3 DEF ResetStates, IInv, TypeOK, ClientObject
  <2> QED
    BY <1>3, <2>1, ThreadKeeps DEF ResetStates, Thread
<1>4. CASE (finish(g) \/ FinishAgain(g)) /\ ~HasDeletedPlayer(g)
  <2>1. PICK again \in BOOLEAN : /\ LeaveGame(g, again)
                                 /\ \/ duel[g].thread = "running" /\ ~again
                                    \/ duel[g].thread = "finished" /\ again
    BY <1>4 DEF finish, FinishAgain, Thread
  <2> QED
    BY <1>4, <2>1, LeaveKeeps
<1>5. CASE (finish(g) \/ FinishAgain(g) \/ ResetStates(g)) /\ HasDeletedPlayer(g)
  BY <1>1, <1>5 DEF finish, FinishAgain, LeaveGame, ResetStates, GoesWrong
<1> QED
  BY <1>2, <1>3, <1>4, <1>5 DEF game_thread, Winds

-----------------------------------------------------------------------------
\* IInv is inductive.
THEOREM IInvCorrect == Spec => []IInv
<1>1. Init => IInv
  <2> SUFFICES ASSUME Init PROVE IInv
    OBVIOUS
  <2>1. TypeOK
    BY DEF Init, TypeOK, NewClient, ClientObject, ClientState, DuelObject
  <2>2. \A g \in Duel : /\ duel[g].thread = "none" /\ duel[g].players = {}
                        /\ ~duel[g].handle_ready /\ ~duel[g].finished_twice
    BY DEF Init
  <2>3. matchmaker = "idle" /\ client1 = None /\ client2 = None
    BY DEF Init
  <2>4. /\ FoundClientsExist /\ OneDuelAtATime /\ TwiceIsOver /\ UndisturbedAreInTheirDuel
        /\ FoundAreFree /\ GameIsFresh
    BY <2>2, <2>3 DEF FoundClientsExist, OneDuelAtATime, TwiceIsOver, UndisturbedAreInTheirDuel,
                      FoundAreFree, GameIsFresh
  <2>5. Remembered /\ HandlesAreSet
    BY <2>2, <2>3 DEF Remembered, HandlesAreSet, Pending, Unlocked
  <2> QED
    BY <2>1, <2>4, <2>5 DEF IInv
<1>2. IInv /\ [Next]_vars => IInv'
  <2> SUFFICES ASSUME IInv, [Next]_vars PROVE IInv'
    OBVIOUS
  <2>1. ASSUME NEW c \in Client, accept(c) \/ client_to_server(c) PROVE IInv'
    BY <2>1, TypeReceive, ReceiveAside, AsideKeeps DEF IInv, Rest
  <2>2. CASE find_duel_thread
    <3>1. TypeOK'
      BY <2>2, TypeMatchmaker DEF IInv
    <3>2. Rest'
      BY <2>2, WalkKeeps, EnterGameKeeps, ConstructKeeps, OpponentKeeps, SpawnKeeps DEF find_duel_thread
    <3> QED
      BY <3>1, <3>2 DEF IInv, Rest
  <2>3. ASSUME NEW g \in Duel, game_thread(g) PROVE IInv'
    BY <2>3, TypeGame, GameKeeps DEF IInv, Rest
  <2>4. CASE UNCHANGED vars
    <3>1. TypeOK'
      BY <2>4 DEF vars, matchVars, IInv, TypeOK
    <3>2. Rest'
      BY <2>4, AsideKeeps DEF vars, Aside
    <3> QED
      BY <3>1, <3>2 DEF IInv, Rest
  <2> QED
    BY <2>1, <2>2, <2>3, <2>4 DEF Next
<1> QED
  BY <1>1, <1>2, PTL DEF Spec

\* The types of the objects and of the places of the threads.
THEOREM TypeCorrect == Spec => []TypeOK
<1>1. IInv => TypeOK
  BY DEF IInv
<1> QED
  BY <1>1, IInvCorrect, PTL

\* The matchmaker never holds a client that has been deleted: it has the mutex from
\* the first look at a client to the end of enter_game, and a client is taken out of
\* the set, with the mutex, before it is deleted.
THEOREM FoundCorrect == Spec => []FoundClientsExist
<1>1. IInv => FoundClientsExist
  BY DEF IInv
<1> QED
  BY <1>1, IInvCorrect, PTL

\* Nobody plays two unfinished duels, whatever /fd, /cancel, losses and returns of
\* connections, departures and ends of games interleave with the matchmaker, unless
\* one of his duels has been finished twice.
THEOREM OneDuelCorrect == Spec => []OneDuelAtATime
<1>1. IInv => OneDuelAtATime
  BY DEF IInv
<1> QED
  BY <1>1, IInvCorrect, PTL

\* As long as no duel has been finished twice, a player of an unfinished duel who is
\* still there is in a game, which is that duel, whatever his state says.
THEOREM PlayersCorrect == Spec => []PlayersAreInTheirDuel
<1>1. IInv => PlayersAreInTheirDuel
  <2> SUFFICES ASSUME IInv, NEW g \in Duel, NEW c \in duel[g].players \cap clients, Unfinished(g),
                      \A d \in Duel : ~duel[d].finished_twice
               PROVE  client[c].in_game /\ client[c].game = g
    BY DEF PlayersAreInTheirDuel
  <2>1. receive[c] # "gone" /\ ~Disturbed(c)
    BY DEF clients, Disturbed
  <2> QED
    BY <2>1 DEF IInv, UndisturbedAreInTheirDuel
<1> QED
  BY <1>1, IInvCorrect, PTL

=============================================================================

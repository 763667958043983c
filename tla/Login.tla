-------------------------------- MODULE Login --------------------------------
(***************************************************************************)
(* Login and registration: the dialogue of the terminal client               *)
(* (src/CardBluffClient/main.cpp) and of the web client                      *)
(* (src/CardBluffClientWeb/js/main.js) with the receive threads of the server *)
(* (src/CardBluffServer/main.cpp), and the rows of the database.             *)
(*                                                                         *)
(* A connection, its socket and the receive thread made for it have one name, *)
(* the number that the server counts them by.  The salt that a thread          *)
(* generates, one for each, is named after the thread too, and a hash          *)
(* is the pair of what was hashed.  What happens in a session is the matter   *)
(* of Lobby and Game, the order of the strings of one of SendQueue: here a    *)
(* string is on its way from the moment it is pushed.                         *)
(***************************************************************************)
EXTENDS Naturals, Sequences

CONSTANTS
    Terminal, Web,     \* the users of the two clients
    Nickname, Password,
    None,
    MaxConnections     \* bound: connections of all users

User == Terminal \cup Web
Conn == 1 .. MaxConnections

ASSUME ConstantsAssumption ==
    /\ Terminal \cap Web = {}
    /\ MaxConnections \in Nat
    /\ None \notin Nickname \cup Password \cup Conn

VARIABLES
    state, conn, salt, buffer,      \* of a user: state, his connection, salt, receive_buffer_raw
    typed,                          \* history: the password last sent on a connection
    link, up, down,                 \* of a connection: the strings under way in each direction
    thread, nickname, new_password, authorized, waiting_reconnect, socket, held,
    rows,                           \* password of the row of a nickname
    contended,                      \* history: two logins handed over to one client at a time
    undefined                       \* an object was used after its delete

user == <<state, conn, salt, buffer, typed>>
server_but_undefined == <<thread, nickname, new_password, authorized, waiting_reconnect, socket,
                          held, rows, contended>>
server == <<server_but_undefined, undefined>>
vars == <<user, link, up, down, server>>

Enter == {"NICKNAME_ENTER", "PASSWORD_REGISTER_FIRST_ENTER", "PASSWORD_REGISTER_SECOND_ENTER",
          "PASSWORD_ENTER"}
PasswordSent == {"PASSWORD_REGISTER_FIRST_SENT", "PASSWORD_REGISTER_SECOND_SENT", "PASSWORD_SENT"}
Sent == {"NICKNAME_SENT"} \cup PasswordSent

\* connected, of the terminal client; the socket of the web client is open.
Online == Enter \cup Sent \cup {"AUTHORIZED", "AUTHORIZATION_FAILED"}
Offline == {"CONNECT", "CONNECTION_LOST", "WAIT_RECONNECT", "QUIT"}

Dialogue == {"WAIT_NICKNAME", "WAIT_PASSWORD", "WAIT_PASSWORD_REGISTER_FIRST",
             "WAIT_PASSWORD_REGISTER_SECOND"}

\* auth_ok! is pushed, and set_authorized(true) is still to come.
Authorizing == {"authorize", "authorize_registered"}

Hash == Password \X Conn

Request ==
    ({"nickname:"} \X Nickname) \cup ({"password_first:"} \X Password)
    \cup ({"password_second:", "password:"} \X Hash) \cup {<<"line", None>>}

Reply ==
    ({"password?", "password_second?"} \X Conn)
    \cup ({"password_first?", "auth_ok!", "auth_fail!", "text"} \X {None})

\* The welcome.  The texts before a prompt are left out.
Text == <<"text", None>>

TypeOK ==
    /\ state \in [User -> Online \cup Offline \cup {"CONNECTING"}]
    /\ conn \in [User -> 0 .. MaxConnections]
    /\ salt \in [User -> Conn \cup {None}]
    /\ buffer \in [User -> Reply \cup {None}]
    /\ typed \in [Conn -> Password \cup {None}]
    /\ link \in [Conn -> {"none", "up", "closed", "broken"}]
    /\ up \in [Conn -> Seq(Request)]
    /\ down \in [Conn -> Seq(Reply)]
    /\ thread \in [Conn -> Dialogue \cup Authorizing
                           \cup {"none", "find", "hand_over", "session", "leaving", "gone"}]
    /\ nickname \in [Conn -> Nickname \cup {None}]
    /\ new_password \in [Conn -> Password \cup {None}]
    /\ authorized \in [Conn -> BOOLEAN]
    /\ waiting_reconnect \in [Conn -> BOOLEAN]
    /\ socket \in [Conn -> Conn]
    /\ held \in [Conn -> Conn \cup {None}]
    /\ rows \in [Nickname -> Password \cup {None}]
    /\ contended \in BOOLEAN
    /\ undefined \in BOOLEAN

Init ==
    /\ state = [u \in User |-> IF u \in Terminal THEN "CONNECT" ELSE "WAIT_RECONNECT"]
    /\ conn = [u \in User |-> 0]
    /\ salt = [u \in User |-> None]
    /\ buffer = [u \in User |-> None]
    /\ typed = [k \in Conn |-> None]
    /\ link = [k \in Conn |-> "none"]
    /\ up = [k \in Conn |-> <<>>]
    /\ down = [k \in Conn |-> <<>>]
    /\ thread = [k \in Conn |-> "none"]
    /\ nickname = [k \in Conn |-> None]
    /\ new_password = [k \in Conn |-> None]
    /\ authorized = [k \in Conn |-> FALSE]
    /\ waiting_reconnect = [k \in Conn |-> FALSE]
    /\ socket = [k \in Conn |-> k]
    /\ held = [k \in Conn |-> None]
    /\ rows = [n \in Nickname |-> None]
    /\ contended = FALSE
    /\ undefined = FALSE

-----------------------------------------------------------------------------
(* The clients.                                                            *)

\* The connection that a user has, or had last.
Mine(u) == conn[u]

\* Mutant: every string that begins with password asks for the password.
ProcessedByPrefix(s, reply) ==
    CASE reply[1] \in {"password_first?", "password_second?", "password?"} -> "PASSWORD_ENTER"
      [] reply[1] = "auth_ok!" -> "AUTHORIZED"
      [] reply[1] = "auth_fail!" -> "AUTHORIZATION_FAILED"
      [] OTHER -> s

\* The state that a string puts a client in: anything but the strings of the
\* dialogue is printed.
Processed(s, reply) ==
    CASE reply[1] = "password_first?" -> "PASSWORD_REGISTER_FIRST_ENTER"
      [] reply[1] = "password_second?" -> "PASSWORD_REGISTER_SECOND_ENTER"
      [] reply[1] = "password?" -> "PASSWORD_ENTER"
      [] reply[1] = "auth_ok!" -> "AUTHORIZED"
      [] reply[1] = "auth_fail!" -> "AUTHORIZATION_FAILED"
      [] OTHER -> s

TakeSalt(u, reply) ==
    salt' = [salt EXCEPT ![u] = IF reply[2] # None THEN reply[2] ELSE @]

\* send() on a connection that the server has closed succeeds and is answered with
\* a reset.  The few strings of a dialogue do not fill the buffer of the system.
Send(u, request) ==
    LET k == Mine(u) IN
    /\ up' = IF link[k] = "up" THEN [up EXCEPT ![k] = Append(@, request)] ELSE up
    /\ link' = IF link[k] = "closed" THEN [link EXCEPT ![k] = "broken"] ELSE link

\* What the user enters in state s, and the state that his client is in then.
Input(u, s, next) ==
    \/ /\ s = "NICKNAME_ENTER" /\ next = "NICKNAME_SENT"
       /\ \E n \in Nickname : Send(u, <<"nickname:", n>>)
       /\ UNCHANGED typed
    \/ \E p \in Password :
          /\ typed' = IF link[Mine(u)] = "up" THEN [typed EXCEPT ![Mine(u)] = p] ELSE typed
          /\ \/ /\ s = "PASSWORD_REGISTER_FIRST_ENTER" /\ next = "PASSWORD_REGISTER_FIRST_SENT"
                /\ Send(u, <<"password_first:", p>>)
             \/ /\ s = "PASSWORD_REGISTER_SECOND_ENTER" /\ next = "PASSWORD_REGISTER_SECOND_SENT"
                /\ Send(u, <<"password_second:", <<p, salt'[u]>>>>)
             \/ /\ s = "PASSWORD_ENTER" /\ next = "PASSWORD_SENT"
                /\ Send(u, <<"password:", <<p, salt'[u]>>>>)
    \/ /\ s = "AUTHORIZED" /\ next = s
       /\ up[Mine(u)] = <<>>            \* bound: one line under way
       /\ Send(u, <<"line", None>>)
       /\ UNCHANGED typed

\* A connection is made, and the server starts its threads.
Connects(u) ==
    \E k \in Conn :
    /\ \A d \in Conn : link[d] = "none" <=> d >= k
    /\ conn' = [conn EXCEPT ![u] = k]
    /\ link' = [link EXCEPT ![k] = "up"]
    /\ thread' = [thread EXCEPT ![k] = "WAIT_NICKNAME"]
    /\ UNCHANGED <<salt, buffer, typed, up, down, nickname, new_password, authorized,
                   waiting_reconnect, socket, held, rows, contended, undefined>>

-----------------------------------------------------------------------------
(* The terminal client: a turn of its loop is a step.                       *)

\* recv(), and the state s that it leaves the client in.  At the end of the
\* connection it returns 0 and the buffer, left as it was, is processed again.
Recv(u, s) ==
    LET k == Mine(u) IN
    \/ /\ link[k] = "up" /\ down[k] = <<>>
       /\ s = state[u]
       /\ UNCHANGED <<salt, buffer, down>>
    \/ /\ down[k] # <<>>
       /\ buffer' = [buffer EXCEPT ![u] = Head(down[k])]
       /\ down' = [down EXCEPT ![k] = Tail(@)]
       /\ IF state[u] = "AUTHORIZED" THEN s = state[u] /\ UNCHANGED salt
          ELSE s = Processed(state[u], Head(down[k])) /\ TakeSalt(u, Head(down[k]))
    \/ /\ link[k] = "closed" /\ down[k] = <<>>
       /\ UNCHANGED <<buffer, down>>
       /\ IF state[u] = "AUTHORIZED" \/ buffer[u] = None THEN s = state[u] /\ UNCHANGED salt
          ELSE s = Processed(state[u], buffer[u]) /\ TakeSalt(u, buffer[u])
    \/ /\ link[k] = "broken"
       /\ s = "CONNECTION_LOST"
       /\ UNCHANGED <<salt, buffer, down>>

\* The switch, and send().
Switch(u, s) ==
    \/ /\ s \notin {"CONNECTION_LOST", "AUTHORIZATION_FAILED"}
       /\ state' = [state EXCEPT ![u] = s]
       /\ UNCHANGED <<typed, up, link>>
    \/ \E next \in Sent \cup {"AUTHORIZED"} :
          /\ Input(u, s, next)
          /\ \/ state' = [state EXCEPT ![u] = next]
             \/ link[Mine(u)] = "broken" /\ state' = [state EXCEPT ![u] = "CONNECTION_LOST"]
    \/ /\ s = "AUTHORIZATION_FAILED"
       /\ state' = [state EXCEPT ![u] = "CONNECTION_LOST"]
       /\ UNCHANGED <<typed, up, link>>
    \/ /\ s = "CONNECTION_LOST"
       /\ link' = [link EXCEPT ![Mine(u)] = "broken"]
       /\ state' = [state EXCEPT ![u] = "WAIT_RECONNECT"]
       /\ UNCHANGED <<typed, up>>

Turn(u) ==
    /\ u \in Terminal
    /\ state[u] \in Online \cup {"CONNECTION_LOST"}
    /\ \E s \in Online \cup {"CONNECTION_LOST"} :
          /\ IF state[u] \in Online THEN Recv(u, s)
             ELSE s = state[u] /\ UNCHANGED <<salt, buffer, down>>
          /\ Switch(u, s)
    /\ UNCHANGED <<conn, server>>

\* The keys pressed in WAIT_RECONNECT_OR_QUIT.
Key(u) ==
    /\ u \in Terminal
    /\ state[u] = "WAIT_RECONNECT"
    /\ \E next \in {"CONNECT", "QUIT"} : state' = [state EXCEPT ![u] = next]
    /\ UNCHANGED <<conn, salt, buffer, typed, link, up, down, server>>

Connect(u) ==
    /\ u \in Terminal
    /\ state[u] = "CONNECT"
    /\ \/ state' = [state EXCEPT ![u] = "NICKNAME_ENTER"] /\ Connects(u)
       \/ /\ state' = [state EXCEPT ![u] = "WAIT_RECONNECT"]
          /\ UNCHANGED <<conn, salt, buffer, typed, link, up, down, server>>

-----------------------------------------------------------------------------
(* The web client: callbacks.                                              *)

\* An attempt that fails changes nothing in the end.
connect(u) ==
    /\ u \in Web
    /\ state[u] = "WAIT_RECONNECT"
    /\ state' = [state EXCEPT ![u] = "CONNECTING"]
    /\ Connects(u)

socketCheckConnectionHandler(u) ==
    /\ u \in Web
    /\ state[u] = "CONNECTING"
    /\ link[Mine(u)] = "up"
    /\ state' = [state EXCEPT ![u] = "NICKNAME_ENTER"]
    /\ UNCHANGED <<conn, salt, buffer, typed, link, up, down, server>>

serverMessageHandler(u) ==
    LET k == Mine(u) IN
    /\ u \in Web
    /\ state[u] \in Online
    /\ down[k] # <<>>
    /\ state' = [state EXCEPT ![u] = Processed(@, Head(down[k]))]
    /\ TakeSalt(u, Head(down[k]))
    /\ down' = [down EXCEPT ![k] = Tail(@)]
    /\ UNCHANGED <<conn, buffer, typed, link, up, server>>

inputHandler(u) ==
    /\ u \in Web
    /\ state[u] \in Online
    /\ UNCHANGED salt
    /\ \E next \in Sent \cup {"AUTHORIZED"} :
          Input(u, state[u], next) /\ state' = [state EXCEPT ![u] = next]
    /\ UNCHANGED <<conn, buffer, down, server>>

socketCloseHandler(u) ==
    /\ u \in Web
    /\ state[u] \in Online \cup {"CONNECTING"}
    /\ link[Mine(u)] = "broken" \/ (link[Mine(u)] = "closed" /\ down[Mine(u)] = <<>>)
    /\ state' = [state EXCEPT ![u] = "WAIT_RECONNECT"]
    /\ link' = [link EXCEPT ![Mine(u)] = "broken"]
    /\ UNCHANGED <<conn, salt, buffer, typed, up, down, server>>

-----------------------------------------------------------------------------
(* The receive threads of the server: the dialogue.                         *)

Goto(k, place) == thread' = [thread EXCEPT ![k] = place]
Push(k, replies) == down' = [down EXCEPT ![k] = @ \o replies]

\* The string that k receives is of this kind.
Received(k, place, kind) ==
    /\ thread[k] = place
    /\ up[k] # <<>>
    /\ Head(up[k])[1] = kind

Content(k) == Head(up[k])[2]
Take(k) == up' = [up EXCEPT ![k] = Tail(@)]

find_nickname_authorized(n) ==
    {k \in Conn : /\ thread[k] \notin {"none", "gone"}
                  /\ nickname[k] = n /\ authorized[k] /\ ~waiting_reconnect[k]}

find_nickname_waiting_reconnect(n) ==
    {k \in Conn : thread[k] \notin {"none", "gone"} /\ nickname[k] = n /\ waiting_reconnect[k]}

NicknameRefused(k) ==
    /\ Received(k, "WAIT_NICKNAME", "nickname:")
    /\ Take(k)
    /\ find_nickname_authorized(Content(k)) # {}
    /\ Goto(k, "leaving")
    /\ UNCHANGED <<user, link, down, nickname, new_password, authorized, waiting_reconnect,
                   socket, held, rows, contended, undefined>>

NicknameAccepted(k) ==
    /\ Received(k, "WAIT_NICKNAME", "nickname:")
    /\ Take(k)
    /\ find_nickname_authorized(Content(k)) = {}
    /\ nickname' = [nickname EXCEPT ![k] = Content(k)]
    /\ \/ /\ rows[Content(k)] # None
          /\ Push(k, <<<<"password?", k>>>>)
          /\ Goto(k, "WAIT_PASSWORD")
       \/ /\ rows[Content(k)] = None
          /\ Push(k, <<<<"password_first?", None>>>>)
          /\ Goto(k, "WAIT_PASSWORD_REGISTER_FIRST")
       \/ Goto(k, "leaving") /\ UNCHANGED down         \* the database fails
    /\ UNCHANGED <<user, link, new_password, authorized, waiting_reconnect, socket, held, rows,
                   contended, undefined>>

\* Mutant: the string is kept with what introduces the password.
FirstPasswordWhole(k) ==
    /\ Received(k, "WAIT_PASSWORD_REGISTER_FIRST", "password_first:")
    /\ Take(k)
    /\ new_password' = [new_password EXCEPT ![k] = Head(up[k])]
    /\ Push(k, <<<<"password_second?", k>>>>)
    /\ Goto(k, "WAIT_PASSWORD_REGISTER_SECOND")
    /\ UNCHANGED <<user, link, nickname, authorized, waiting_reconnect, socket, held, rows,
                   contended, undefined>>

FirstPassword(k) ==
    /\ Received(k, "WAIT_PASSWORD_REGISTER_FIRST", "password_first:")
    /\ Take(k)
    /\ new_password' = [new_password EXCEPT ![k] = Content(k)]
    /\ Push(k, <<<<"password_second?", k>>>>)
    /\ Goto(k, "WAIT_PASSWORD_REGISTER_SECOND")
    /\ UNCHANGED <<user, link, nickname, authorized, waiting_reconnect, socket, held, rows,
                   contended, undefined>>

\* auth_fail!, and a second later the end.
Fails(k) ==
    /\ Push(k, <<<<"auth_fail!", None>>>>)
    /\ Goto(k, "leaving")
    /\ UNCHANGED rows

\* Mutant: INSERT OR REPLACE.
db_replace_client(n, password) == rows' = [rows EXCEPT ![n] = password]

\* db_add_client inserts a row; the nickname of a row is unique.
db_add_client(n, password) ==
    /\ rows[n] = None
    /\ rows' = [rows EXCEPT ![n] = password]

SecondPassword(k) ==
    /\ Received(k, "WAIT_PASSWORD_REGISTER_SECOND", "password_second:")
    /\ Take(k)
    /\ \/ Content(k) # <<new_password[k], k>> /\ Fails(k)
       \/ /\ Content(k) = <<new_password[k], k>>
          /\ db_add_client(nickname[k], new_password[k])
          /\ Push(k, <<<<"auth_ok!", None>>, Text>>)
          /\ Goto(k, "authorize_registered")
       \/ /\ Content(k) = <<new_password[k], k>>          \* the insertion fails
          /\ Goto(k, "leaving")
          /\ UNCHANGED <<down, rows>>
    /\ UNCHANGED <<user, link, nickname, new_password, authorized, waiting_reconnect, socket, held,
                   contended, undefined>>

\* The hash of the password of the row with the salt.
Matches(k) == Content(k) = <<rows[nickname[k]], k>>

LoginPassword(k) ==
    /\ Received(k, "WAIT_PASSWORD", "password:")
    /\ Take(k)
    /\ \/ ~Matches(k) /\ Fails(k)
       \/ /\ Matches(k)
          /\ Push(k, <<<<"auth_ok!", None>>, Text>>)
          /\ Goto(k, "authorize")
          /\ UNCHANGED rows
       \/ /\ Goto(k, "leaving")                           \* the database fails
          /\ UNCHANGED <<down, rows>>
    /\ UNCHANGED <<user, link, nickname, new_password, authorized, waiting_reconnect, socket, held,
                   contended, undefined>>

\* set_authorized(true), after auth_ok! is pushed and perhaps sent; a registered user's
\* id is read then, and may not be found.
SetAuthorized(k) ==
    /\ authorized' = [authorized EXCEPT ![k] = TRUE]
    /\ \/ thread[k] = "authorize" /\ Goto(k, "find")
       \/ thread[k] = "authorize_registered" /\ (Goto(k, "session") \/ Goto(k, "leaving"))
    /\ UNCHANGED <<user, link, up, down, nickname, new_password, waiting_reconnect, socket, held,
                   rows, contended, undefined>>

FindWaiting(k) ==
    /\ thread[k] = "find"
    /\ LET waiting == find_nickname_waiting_reconnect(nickname[k]) IN
       IF waiting # {}
       THEN \E old_client \in waiting :
              /\ held' = [held EXCEPT ![k] = old_client]
              /\ contended' = (contended \/ old_client \in {held[d] : d \in Conn})
              /\ Goto(k, "hand_over")
       ELSE Goto(k, "session") /\ UNCHANGED <<held, contended>>
    /\ UNCHANGED <<user, link, up, down, nickname, new_password, authorized, waiting_reconnect,
                   socket, rows, undefined>>

\* The message that each state of the dialogue waits for.
Expected(place) ==
    CASE place = "WAIT_NICKNAME" -> "nickname:"
      [] place = "WAIT_PASSWORD" -> "password:"
      [] place = "WAIT_PASSWORD_REGISTER_FIRST" -> "password_first:"
      [] place = "WAIT_PASSWORD_REGISTER_SECOND" -> "password_second:"

WrongMessage(k) ==
    /\ thread[k] \in Dialogue
    /\ up[k] # <<>>
    /\ Head(up[k])[1] # Expected(thread[k])
    /\ Take(k)
    /\ Goto(k, "leaving")
    /\ UNCHANGED <<user, link, down, nickname, new_password, authorized, waiting_reconnect, socket,
                   held, rows, contended, undefined>>

-----------------------------------------------------------------------------
(* The receive threads of the server: hand-over, session and end.           *)

\* delete client.
Delete(k) ==
    /\ Goto(k, "gone")
    /\ nickname' = [nickname EXCEPT ![k] = None]
    /\ new_password' = [new_password EXCEPT ![k] = None]
    /\ authorized' = [authorized EXCEPT ![k] = FALSE]
    /\ held' = [held EXCEPT ![k] = None]

\* Mutant: the socket is forgotten.
HandOverWithoutSocket(k) ==
    /\ thread[k] = "hand_over"
    /\ waiting_reconnect' = [waiting_reconnect EXCEPT ![held[k]] = FALSE]
    /\ Delete(k)
    /\ UNCHANGED <<user, link, up, down, socket, rows, contended, undefined>>

\* The old client has the socket from now on, and the new one is deleted.
HandOver(k) ==
    /\ thread[k] = "hand_over"
    /\ IF thread[held[k]] = "gone"
       THEN undefined' = TRUE /\ UNCHANGED server_but_undefined
       ELSE /\ socket' = [socket EXCEPT ![held[k]] = k]
            /\ waiting_reconnect' = [waiting_reconnect EXCEPT ![held[k]] = FALSE]
            /\ Delete(k)
            /\ UNCHANGED <<rows, contended, undefined>>
    /\ UNCHANGED <<user, link, up, down>>

Line(k) ==
    /\ thread[k] = "session" /\ ~waiting_reconnect[k]
    /\ up[socket[k]] # <<>>
    /\ Take(socket[k])
    /\ UNCHANGED <<user, link, down, server>>

Loss(k) ==
    /\ link[socket[k]] = "broken"
    /\ \/ thread[k] \in Dialogue /\ Goto(k, "leaving") /\ UNCHANGED waiting_reconnect
       \/ /\ thread[k] = "session"
          /\ waiting_reconnect' = [waiting_reconnect EXCEPT ![k] = TRUE]
          /\ UNCHANGED thread
    /\ UNCHANGED <<user, link, up, down, nickname, new_password, authorized, socket, held, rows,
                   contended, undefined>>

ReconnectTimeout(k) ==
    /\ thread[k] = "session" /\ waiting_reconnect[k]
    /\ Goto(k, "leaving")
    /\ UNCHANGED <<user, link, up, down, nickname, new_password, authorized, waiting_reconnect,
                   socket, held, rows, contended, undefined>>

\* Mutant: the socket is not closed.
CleanupWithoutClose(k) ==
    /\ thread[k] = "leaving"
    /\ Delete(k)
    /\ waiting_reconnect' = [waiting_reconnect EXCEPT ![k] = FALSE]
    /\ \E n \in 0 .. Len(down[socket[k]]) :
          down' = [down EXCEPT ![socket[k]] = SubSeq(@, 1, n)]
    /\ UNCHANGED <<user, link, up, socket, rows, contended, undefined>>

\* The send thread ends, with what it has not sent yet, and the socket is closed:
\* with a reset if something is left to read.
Cleanup(k) ==
    LET s == socket[k] IN
    /\ thread[k] = "leaving"
    /\ Delete(k)
    /\ waiting_reconnect' = [waiting_reconnect EXCEPT ![k] = FALSE]
    /\ \E n \in 0 .. Len(down[s]) : down' = [down EXCEPT ![s] = SubSeq(@, 1, n)]
    /\ up' = [up EXCEPT ![s] = <<>>]
    /\ link' = [link EXCEPT ![s] = IF @ = "broken" \/ up[s] # <<>> THEN "broken" ELSE "closed"]
    /\ UNCHANGED <<user, socket, rows, contended, undefined>>

client_to_server(k) ==
    \/ NicknameRefused(k) \/ NicknameAccepted(k) \/ FirstPassword(k) \/ SecondPassword(k)
    \/ LoginPassword(k) \/ SetAuthorized(k) \/ FindWaiting(k) \/ WrongMessage(k)
    \/ HandOver(k) \/ Line(k) \/ Loss(k) \/ ReconnectTimeout(k) \/ Cleanup(k)

\* The network fails.
Break(k) ==
    /\ link[k] \in {"up", "closed"}
    /\ link' = [link EXCEPT ![k] = "broken"]
    /\ UNCHANGED <<user, up, down, server>>

\* The client program, without its user.
Callback(u) ==
    socketCheckConnectionHandler(u) \/ serverMessageHandler(u) \/ socketCloseHandler(u)

Next ==
    /\ ~undefined
    /\ \/ \E u \in User :
             \/ Turn(u) \/ Key(u) \/ Connect(u)
             \/ connect(u) \/ Callback(u) \/ inputHandler(u)
       \/ \E k \in Conn : client_to_server(k) \/ Break(k)

Spec == Init /\ [][Next]_vars

\* Threads run, the terminal client takes its turns, and the callbacks come.
FairSpec ==
    /\ Spec
    /\ \A u \in User : WF_vars(Turn(u) \/ Callback(u))
    /\ \A k \in Conn : WF_vars(client_to_server(k))

-----------------------------------------------------------------------------
\* The clients keep step with the server: no thread ever receives another message than
\* the one it waits for, whatever was refused, reset or processed twice before.
ExpectedOnly ==
    \A k \in Conn :
        thread[k] \in Dialogue /\ up[k] # <<>> => Head(up[k])[1] = Expected(thread[k])

\* The server has accepted the password: the client is authorized, or will be by the
\* next statement, for auth_ok! is pushed before set_authorized(true).
Accepted(k) == authorized[k] \/ thread[k] \in Authorizing

\* A client that says it is authorized, with a connection that nobody has closed, was
\* accepted, and a receive thread of the server has the socket of its connection.
AuthorizedByServer ==
    \A u \in User :
        state[u] = "AUTHORIZED" /\ link[Mine(u)] = "up" /\ ~contended /\ ~undefined =>
            \E k \in Conn : Accepted(k) /\ socket[k] = Mine(u)

\* Whoever is accepted has sent the password of the row of his nickname, though
\* several may register the nickname at a time.
AuthorizedByPassword ==
    \A k \in Conn : Accepted(k) => typed[k] # None /\ typed[k] = rows[nickname[k]]

\* The user is asked for something, or may enter a line of a session that is over.
AtPrompt(u) == state[u] \in Enter \/ (state[u] = "AUTHORIZED" /\ link[Mine(u)] # "up")

\* The terminal client does not look for the end of a connection: one that is closed
\* after a nickname, with nothing to process again, leaves it waiting.
Forgotten(u) ==
    /\ u \in Terminal
    /\ state[u] = "NICKNAME_SENT"
    /\ link[Mine(u)] = "closed" /\ down[Mine(u)] = <<>>
    /\ buffer[u] # None => Processed(state[u], buffer[u]) = state[u]

\* A user who has sent his nickname or a password, and does not stay at a prompt for
\* ever, is let in on a connection that is up, or is told that it has ended: neither
\* strings that are processed twice nor connections that end keep him in between.
Answered ==
    \A u \in User :
        []<>(~AtPrompt(u)) =>
            (state[u] \in Sent ~>
                \/ state[u] = "AUTHORIZED" /\ link[Mine(u)] = "up"
                \/ state[u] = "WAIT_RECONNECT"
                \/ Forgotten(u) \/ contended \/ undefined)

-----------------------------------------------------------------------------
(* The inductive invariant of the module LoginProofs.                       *)

\* A connection belongs to one user, and nothing is known of one not made yet.
Connections ==
    /\ \A u \in User :
          /\ state[u] \in Online \cup {"CONNECTING", "CONNECTION_LOST"} => conn[u] \in Conn
          /\ conn[u] # 0 => link[conn[u]] # "none"
    /\ \A u, v \in User : conn[u] = conn[v] /\ conn[u] # 0 => u = v
    /\ \A k \in Conn :
          /\ link[k] = "none" <=> thread[k] = "none"
          /\ link[k] = "none" => up[k] = <<>> /\ down[k] = <<>>

\* What the place of a thread says of its client.
Threads ==
    \A k \in Conn :
        /\ authorized[k] => thread[k] \in {"find", "hand_over", "session", "leaving"}
        /\ thread[k] \in {"find", "hand_over", "session"} => authorized[k]
        /\ Accepted(k) \/ thread[k] \in Dialogue \ {"WAIT_NICKNAME"} => nickname[k] \in Nickname
        /\ thread[k] = "hand_over" <=> held[k] # None

\* A thread has the socket of its own connection, until it is handed another one: of
\* a thread that is gone then.  Only who is authorized is handed one.
Sockets ==
    \A k \in Conn :
        /\ thread[k] # "gone" /\ ~authorized[k] => socket[k] = k
        /\ thread[k] \in {"find", "hand_over"} => socket[k] = k
        /\ socket[k] # k => thread[socket[k]] = "gone"

\* A client that waits is authorized and has lost its connection.  It may have left by
\* the time that another is about to hand over to it.
Waiting ==
    \A k \in Conn :
        /\ waiting_reconnect[k] =>
              /\ thread[k] \in {"session", "leaving"} /\ authorized[k]
              /\ link[socket[k]] = "broken"
        /\ held[k] # None =>
              \/ thread[held[k]] = "gone"
              \/ thread[held[k]] \in {"session", "leaving"} /\ authorized[held[k]]

\* Unless two hand over to one client, who hands over does so to one that still waits.
HandOvers ==
    ~contended =>
        \A k \in Conn : held[k] # None =>
            /\ thread[held[k]] # "gone" => waiting_reconnect[held[k]]
            /\ \A d \in Conn : held[d] = held[k] => d = k

\* At most one string is under way to a thread in the dialogue, the one it waits for,
\* with the password that was typed last.
Asked(k, request) ==
    /\ request[1] = Expected(thread[k])
    /\ request[1] \in {"password:", "password_second:"} => request[2][1] = typed[k]

Requests ==
    \A k \in Conn : thread[k] \in Dialogue =>
        \/ up[k] = <<>>
        \/ \E request \in Request : up[k] = <<request>> /\ Asked(k, request)

\* A client in state s, with the salt a and the connection k, has sent what is under
\* way, and will receive what the thread has answered.
Rejected(k) == thread[k] = "leaving" /\ ~authorized[k]
Let_in(k) == Accepted(k) \/ thread[k] = "gone"

InStep(s, a, k, sent, answer) ==
    /\ s \in {"CONNECTING", "NICKNAME_ENTER"} =>
          thread[k] = "WAIT_NICKNAME" /\ sent = <<>> /\ answer = <<>>
    /\ s = "PASSWORD_ENTER" =>
          thread[k] = "WAIT_PASSWORD" /\ sent = <<>> /\ answer = <<>> /\ a \in Conn
    /\ s = "PASSWORD_REGISTER_FIRST_ENTER" =>
          thread[k] = "WAIT_PASSWORD_REGISTER_FIRST" /\ sent = <<>> /\ answer = <<>>
    /\ s = "PASSWORD_REGISTER_SECOND_ENTER" =>
          /\ thread[k] = "WAIT_PASSWORD_REGISTER_SECOND" /\ sent = <<>> /\ answer = <<>>
          /\ a \in Conn
    /\ s = "NICKNAME_SENT" =>
          \/ thread[k] = "WAIT_NICKNAME" /\ sent # <<>> /\ answer = <<>>
          \/ /\ sent = <<>>
             /\ \/ thread[k] = "WAIT_PASSWORD" /\ answer = <<<<"password?", k>>>>
                \/ /\ thread[k] = "WAIT_PASSWORD_REGISTER_FIRST"
                   /\ answer = <<<<"password_first?", None>>>>
                \/ Rejected(k) /\ answer = <<>>
    /\ s = "PASSWORD_REGISTER_FIRST_SENT" =>
          \/ thread[k] = "WAIT_PASSWORD_REGISTER_FIRST" /\ sent # <<>> /\ answer = <<>>
          \/ /\ thread[k] = "WAIT_PASSWORD_REGISTER_SECOND" /\ sent = <<>>
             /\ answer = <<<<"password_second?", k>>>>
    /\ s \in {"PASSWORD_REGISTER_SECOND_SENT", "PASSWORD_SENT"} =>
          \/ /\ thread[k] = IF s = "PASSWORD_SENT" THEN "WAIT_PASSWORD"
                           ELSE "WAIT_PASSWORD_REGISTER_SECOND"
             /\ sent # <<>> /\ answer = <<>>
          \/ /\ sent = <<>>
             /\ \/ Rejected(k) /\ answer \in {<<>>, <<<<"auth_fail!", None>>>>}
                \/ Let_in(k) /\ answer = <<<<"auth_ok!", None>>, Text>>
    /\ s = "AUTHORIZED" => Let_in(k) /\ answer \in {<<>>, <<Text>>}
    /\ s = "AUTHORIZATION_FAILED" => Rejected(k) /\ sent = <<>> /\ answer = <<>>

\* While the connection is up: one that the server has closed, or that is broken, only
\* ends the dialogue.
ClientsInStep ==
    \A u \in User : \A k \in Conn :
        conn[u] = k /\ link[k] = "up" => InStep(state[u], salt[u], k, up[k], down[k])

\* A connection that is up has an accepted client from the end of its dialogue on, or
\* its thread has rejected who logged in.
Owner(k, c) == socket[c] = k /\ Accepted(c)

Owned ==
    ~contended =>
        \A k \in Conn :
            link[k] = "up" /\ thread[k] \notin Dialogue =>
                Rejected(k) \/ \E c \in Conn : Owner(k, c)

IInv ==
    /\ TypeOK
    /\ Connections /\ Threads /\ Sockets /\ Waiting /\ HandOvers
    /\ Requests /\ ClientsInStep
    /\ AuthorizedByPassword /\ Owned

=============================================================================

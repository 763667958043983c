------------------------------ MODULE SendQueue ------------------------------
(***************************************************************************)
(* What the server sends to one user, who may lose his connection and come  *)
(* back: the queue of strings of each Client object, its send thread        *)
(* (server_to_client), the loss of a connection, and the hand-over of a new  *)
(* connection and of its queue to the client that waits for it              *)
(* (src/CardBluffServer/client.cpp, main.cpp).                              *)
(*                                                                         *)
(* All clients here have given the same nickname.  A connection is named    *)
(* after the Client object that was made for it; the hand-over makes another *)
(* object use it.  A string is the pair of the client it was pushed to and  *)
(* its number there.  A string is one frame: send() and recv() take all of  *)
(* its SEND_BUFFER_SIZE bytes or nothing.                                   *)
(***************************************************************************)
EXTENDS Naturals, Sequences, FiniteSets

CONSTANTS
    Client,
    None,
    Greeting,      \* strings pushed when the password is accepted: auth_ok!, Welcome
    MaxStrings     \* bound: strings pushed to one client

ASSUME ConstantsAssumption ==
    /\ None \notin Client
    /\ Greeting \in Nat \ {0}
    /\ MaxStrings \in Nat

VARIABLES
    queue,               \* send_queue, of a client
    pushed,              \* history: how many strings have been pushed to a client
    sent,                \* history: all that a connection has accepted
    discarded,           \* history: what was still queued when its client was deleted
    link,                \* a connection
    socket,              \* the connection a client uses
    sender,              \* where the send thread of a client is
    receive,             \* where the receive thread of a client is
    held,                \* old_client
    authorized, waiting_reconnect, reconnect_event, terminate_event,
    contended,           \* history: two logins handed over to one client at a time
    undefined            \* an object was used after its delete

strings == <<queue, pushed, sent, discarded>>
flags == <<authorized, waiting_reconnect, reconnect_event, terminate_event>>
vars == <<strings, link, socket, sender, receive, held, flags, contended, undefined>>

String == Client \X (1 .. MaxStrings)

HandingOver == {"terminate", "join", "copy", "unmark"}
Session == {"recv", "reset", "mark", "wait"}

TypeOK ==
    /\ queue \in [Client -> Seq(String)]
    /\ pushed \in [Client -> 0 .. MaxStrings]
    /\ sent \in [Client -> Seq(String)]
    /\ discarded \subseteq String
    /\ link \in [Client -> {"none", "up", "broken"}]
    /\ socket \in [Client -> Client]
    /\ sender \in [Client -> {"none", "running", "waiting", "ended"}]
    /\ receive \in [Client -> {"none", "password", "leaving", "gone"} \cup HandingOver \cup Session]
    /\ held \in [Client -> Client \cup {None}]
    /\ authorized \in [Client -> BOOLEAN]
    /\ waiting_reconnect \in [Client -> BOOLEAN]
    /\ reconnect_event \in [Client -> BOOLEAN]
    /\ terminate_event \in [Client -> BOOLEAN]
    /\ contended \in BOOLEAN
    /\ undefined \in BOOLEAN

Init ==
    /\ queue = [c \in Client |-> <<>>]
    /\ pushed = [c \in Client |-> 0]
    /\ sent = [c \in Client |-> <<>>]
    /\ discarded = {}
    /\ link = [c \in Client |-> "none"]
    /\ socket = [c \in Client |-> c]
    /\ sender = [c \in Client |-> "none"]
    /\ receive = [c \in Client |-> "none"]
    /\ held = [c \in Client |-> None]
    /\ authorized = [c \in Client |-> FALSE]
    /\ waiting_reconnect = [c \in Client |-> FALSE]
    /\ reconnect_event = [c \in Client |-> FALSE]
    /\ terminate_event = [c \in Client |-> FALSE]
    /\ contended = FALSE
    /\ undefined = FALSE

-----------------------------------------------------------------------------
\* Where a thread is, as long as nothing undefined has happened.
At(c, place) == ~undefined /\ receive[c] = place
Sender(c, place) == ~undefined /\ sender[c] = place

Goto(c, place) == receive' = [receive EXCEPT ![c] = place]
Set(event, c) == event' = [event EXCEPT ![c] = TRUE]
Reset(event, c) == event' = [event EXCEPT ![c] = FALSE]

Connected(c) == link[socket[c]] = "up"

\* n more strings in the queue of c; its bound must leave room for them.
PushMany(c, n) ==
    /\ pushed[c] + n <= MaxStrings
    /\ queue' = [queue EXCEPT ![c] = @ \o [i \in 1 .. n |-> <<c, pushed[c] + i>>]]
    /\ pushed' = [pushed EXCEPT ![c] = @ + n]

\* push_string by a game thread or any receive thread.
push_string(c) ==
    /\ ~undefined
    /\ receive[c] \in Session \cup {"leaving"}
    /\ PushMany(c, 1)
    /\ UNCHANGED <<sent, discarded, link, socket, sender, receive, held, flags, contended, undefined>>

-----------------------------------------------------------------------------
(* server_to_client: the send thread.  A turn of its loop is a step, for    *)
(* nobody but the send thread looks at terminate_event and the front.       *)

TerminateSeen(c) ==
    /\ Sender(c, "running")
    /\ terminate_event[c]
    /\ sender' = [sender EXCEPT ![c] = "ended"]
    /\ UNCHANGED <<strings, link, socket, receive, held, flags, contended, undefined>>

send_data(c) ==
    /\ sent' = [sent EXCEPT ![socket[c]] = Append(@, Head(queue[c]))]
    /\ queue' = [queue EXCEPT ![c] = Tail(@)]

\* send() also succeeds on a connection whose loss the system has not noticed
\* yet.  WSAEWOULDBLOCK only makes the thread try again.
Send(c) ==
    /\ Sender(c, "running")
    /\ ~terminate_event[c]
    /\ queue[c] # <<>>
    /\ send_data(c)
    /\ UNCHANGED <<pushed, discarded, link, socket, sender, receive, held, flags, contended, undefined>>

SendFails(c) ==
    /\ Sender(c, "running")
    /\ ~terminate_event[c]
    /\ queue[c] # <<>>
    /\ ~Connected(c)
    /\ sender' = [sender EXCEPT ![c] = "waiting"]
    /\ UNCHANGED <<strings, link, socket, receive, held, flags, contended, undefined>>

\* Mutant: the wait after a failed send is for the reconnect alone.
WakesForReconnect(c) ==
    /\ Sender(c, "waiting")
    /\ reconnect_event[c]
    /\ sender' = [sender EXCEPT ![c] = "running"]
    /\ UNCHANGED <<strings, link, socket, receive, held, flags, contended, undefined>>

\* WaitForMultipleObjects prefers the first of its handles, reconnect_event.
Wakes(c) ==
    /\ Sender(c, "waiting")
    /\ reconnect_event[c] \/ terminate_event[c]
    /\ sender' = [sender EXCEPT ![c] = IF reconnect_event[c] THEN "running" ELSE "ended"]
    /\ UNCHANGED <<strings, link, socket, receive, held, flags, contended, undefined>>

server_to_client(c) == TerminateSeen(c) \/ Send(c) \/ SendFails(c) \/ Wakes(c)

-----------------------------------------------------------------------------
(* client_to_server: login.                                                *)

find_nickname_authorized ==
    {c \in Client : /\ receive[c] \notin {"none", "gone"}
                    /\ authorized[c]
                    /\ ~waiting_reconnect[c]}

find_nickname_waiting_reconnect ==
    {c \in Client : receive[c] \notin {"none", "gone"} /\ waiting_reconnect[c]}

\* A connection is accepted and its nickname passes the check.
NicknameAccepted(c) ==
    /\ At(c, "none")
    /\ find_nickname_authorized = {}
    /\ link' = [link EXCEPT ![c] = "up"]
    /\ sender' = [sender EXCEPT ![c] = "running"]
    /\ Goto(c, "password")
    /\ UNCHANGED <<strings, socket, held, flags, contended, undefined>>

\* The connection is lost before the password came.
LoginFails(c) ==
    /\ At(c, "password")
    /\ ~Connected(c)
    /\ Set(terminate_event, c)
    /\ Goto(c, "leaving")
    /\ UNCHANGED <<strings, link, socket, sender, held, authorized, waiting_reconnect,
                   reconnect_event, contended, undefined>>

PasswordAccepted(c) ==
    /\ At(c, "password")
    /\ PushMany(c, Greeting)
    /\ Set(authorized, c)
    /\ LET waiting == find_nickname_waiting_reconnect IN
       IF waiting # {}
       THEN \E old_client \in waiting :
              /\ held' = [held EXCEPT ![c] = old_client]
              /\ contended' = (contended \/ old_client \in {held[d] : d \in Client})
              /\ Goto(c, "terminate")
       ELSE Goto(c, "recv") /\ UNCHANGED <<held, contended>>
    /\ UNCHANGED <<sent, discarded, link, socket, sender, waiting_reconnect, reconnect_event,
                   terminate_event, undefined>>

TerminateSender(c) ==
    /\ At(c, "terminate")
    /\ Set(terminate_event, c)
    /\ Goto(c, "join")
    /\ UNCHANGED <<strings, link, socket, sender, held, authorized, waiting_reconnect,
                   reconnect_event, contended, undefined>>

-----------------------------------------------------------------------------
(* client_to_server: the hand-over to the old client.                      *)

GoesWrong ==
    undefined' = TRUE /\ UNCHANGED <<strings, link, socket, sender, receive, held, flags, contended>>

OldClientGone(c) == receive[held[c]] = "gone"

\* Mutant: the socket is handed over while the send thread still runs.
SenderStoppedOrNot(c) == TRUE

SenderStopped(c) == sender[c] = "ended"

set_socket(c) ==
    /\ At(c, "join")
    /\ SenderStopped(c)
    /\ IF OldClientGone(c) THEN GoesWrong
       ELSE /\ socket' = [socket EXCEPT ![held[c]] = socket[c]]
            /\ Reset(terminate_event, c)
            /\ Goto(c, "copy")
            /\ UNCHANGED <<strings, link, sender, held, authorized, waiting_reconnect,
                           reconnect_event, contended, undefined>>

\* copy_strings: the mutex of the old client's queue is taken for each string.
CopyString(c) ==
    /\ At(c, "copy")
    /\ queue[c] # <<>>
    /\ IF OldClientGone(c) THEN GoesWrong
       ELSE /\ queue' = [queue EXCEPT ![c] = Tail(@), ![held[c]] = Append(@, Head(queue[c]))]
            /\ UNCHANGED <<pushed, sent, discarded, link, socket, sender, receive, held, flags,
                           contended, undefined>>

\* Mutant: the event of the new client is set.
SetOwnReconnect(c) ==
    /\ At(c, "copy")
    /\ queue[c] = <<>>
    /\ Set(reconnect_event, c)
    /\ Goto(c, "unmark")
    /\ UNCHANGED <<strings, link, socket, sender, held, authorized, waiting_reconnect,
                   terminate_event, contended, undefined>>

\* Mutant: the queue of the new client is left behind.
SetReconnectAtOnce(c) ==
    /\ At(c, "copy")
    /\ Set(reconnect_event, held[c])
    /\ Goto(c, "unmark")
    /\ UNCHANGED <<strings, link, socket, sender, held, authorized, waiting_reconnect,
                   terminate_event, contended, undefined>>

SetReconnect(c) ==
    /\ At(c, "copy")
    /\ queue[c] = <<>>
    /\ IF OldClientGone(c) THEN GoesWrong
       ELSE /\ Set(reconnect_event, held[c])
            /\ Goto(c, "unmark")
            /\ UNCHANGED <<strings, link, socket, sender, held, authorized, waiting_reconnect,
                           terminate_event, contended, undefined>>

\* The old client is no longer waiting, the new one is deleted.
Unmark(c) ==
    /\ At(c, "unmark")
    /\ IF OldClientGone(c) THEN GoesWrong
       ELSE /\ Reset(waiting_reconnect, held[c])
            /\ held' = [held EXCEPT ![c] = None]
            /\ Goto(c, "gone")
            /\ UNCHANGED <<strings, link, socket, sender, authorized, reconnect_event,
                           terminate_event, contended, undefined>>

-----------------------------------------------------------------------------
(* client_to_server: a lost connection, and the end.                       *)

\* recv() fails, or returns 0.
RecvFails(c) ==
    /\ At(c, "recv")
    /\ ~Connected(c)
    /\ Goto(c, "reset")
    /\ UNCHANGED <<strings, link, socket, sender, held, flags, contended, undefined>>

ResetReconnect(c) ==
    /\ At(c, "reset")
    /\ Reset(reconnect_event, c)
    /\ Goto(c, "mark")
    /\ UNCHANGED <<strings, link, socket, sender, held, authorized, waiting_reconnect,
                   terminate_event, contended, undefined>>

MarkWaiting(c) ==
    /\ At(c, "mark")
    /\ Set(waiting_reconnect, c)
    /\ Goto(c, "wait")
    /\ UNCHANGED <<strings, link, socket, sender, held, authorized, reconnect_event,
                   terminate_event, contended, undefined>>

Reconnected(c) ==
    /\ At(c, "wait")
    /\ reconnect_event[c]
    /\ Goto(c, "recv")
    /\ UNCHANGED <<strings, link, socket, sender, held, flags, contended, undefined>>

ReconnectTimeout(c) ==
    /\ At(c, "wait")
    /\ ~reconnect_event[c]
    /\ Set(terminate_event, c)
    /\ Goto(c, "leaving")
    /\ UNCHANGED <<strings, link, socket, sender, held, authorized, waiting_reconnect,
                   reconnect_event, contended, undefined>>

Cleanup(c) ==
    /\ At(c, "leaving")
    /\ SenderStopped(c)
    /\ link' = [link EXCEPT ![socket[c]] = "broken"]
    /\ discarded' = discarded \cup {queue[c][i] : i \in 1 .. Len(queue[c])}
    /\ queue' = [queue EXCEPT ![c] = <<>>]
    /\ Goto(c, "gone")
    /\ UNCHANGED <<pushed, sent, socket, sender, held, flags, contended, undefined>>

\* The user sent bytes that are no UTF-8: the thread leaves without looking at the
\* state of its client.
RangeError(c) ==
    /\ At(c, "password") \/ At(c, "recv")
    /\ Set(terminate_event, c)
    /\ Goto(c, "leaving")
    /\ UNCHANGED <<strings, link, socket, sender, held, authorized, waiting_reconnect,
                   reconnect_event, contended, undefined>>

\* What a receive thread does without its user.
Proceeds(c) ==
    \/ LoginFails(c) \/ TerminateSender(c) \/ set_socket(c) \/ CopyString(c) \/ SetReconnect(c)
    \/ Unmark(c) \/ RecvFails(c) \/ ResetReconnect(c) \/ MarkWaiting(c) \/ Reconnected(c)
    \/ ReconnectTimeout(c) \/ Cleanup(c)

client_to_server(c) ==
    NicknameAccepted(c) \/ PasswordAccepted(c) \/ RangeError(c) \/ Proceeds(c)

\* The user closes his connection, or the network does.
Break(c) ==
    /\ ~undefined
    /\ link[c] = "up"
    /\ link' = [link EXCEPT ![c] = "broken"]
    /\ UNCHANGED <<strings, socket, sender, receive, held, flags, contended, undefined>>

Next == \E c \in Client : push_string(c) \/ server_to_client(c) \/ client_to_server(c) \/ Break(c)

Spec == Init /\ [][Next]_vars

\* Threads run, the reconnect timeout comes, and a user who keeps his connection
\* reads what is sent.
FairSpec ==
    /\ Spec
    /\ \A c \in Client : WF_vars(server_to_client(c)) /\ WF_vars(Proceeds(c))

-----------------------------------------------------------------------------
(* What the users are promised.                                            *)

Strings == INSTANCE Delivery

\* Every string is sent once, on one connection, after those pushed before it to
\* the same client, or dies with its client: losing a connection, handing one
\* over and copying a queue neither repeat, reorder nor forget a string.
ImplementsDelivery == Strings!Spec

\* A receive thread that waits for a reconnect with a connection that is up has
\* been woken or is about to be, unless two logins were handed over at a time.
WokenWhenConnected ==
    \A c \in Client :
        receive[c] = "wait" /\ Connected(c) /\ ~contended =>
            \/ reconnect_event[c]
            \/ \E new \in Client : held[new] = c /\ receive[new] = "copy"

\* No string stays in a queue for ever: the send thread does not sleep through a
\* reconnect, and a client whose user does not return is deleted.
StringsSettle ==
    []<>(undefined \/ \A s \in String : ~Strings!IsPending(s))

\* A user who logs in again is told that he is authorized, on the connection that
\* he logged in with, though the strings go by way of the queue of his old client.
ReturnIsGreeted ==
    \A c \in Client :
        receive[c] = "terminate" ~>
            \/ \A n \in 1 .. Greeting : \E i \in 1 .. Len(sent[c]) : sent[c][i] = <<c, n>>
            \/ link[c] = "broken"
            \/ contended
            \/ undefined

-----------------------------------------------------------------------------
(* The inductive invariant behind WokenWhenConnected.                       *)

\* A client hands over exactly while it holds an old client, and an old client is a
\* session or was one.
HeldWhileHandingOver ==
    \A c \in Client :
        /\ held[c] # None <=> receive[c] \in HandingOver
        /\ held[c] # None => receive[held[c]] \in Session \cup {"leaving", "gone"}
        /\ waiting_reconnect[c] => receive[c] \in Session \cup {"leaving", "gone"}

OneHandOver ==
    ~contended => \A c, d \in Client : held[c] = held[d] /\ held[c] # None => c = d

LinksExist ==
    \A c \in Client :
        /\ link[c] = "none" <=> receive[c] = "none"
        /\ link[socket[c]] = "none" => receive[c] = "none"
        /\ receive[c] = "none" => socket[c] = c

Sleeps(c) ==
    \/ receive[c] \in {"leaving", "gone"}
    \/ receive[c] = "wait" /\ ~reconnect_event[c]

\* Whoever can be found, or is found and not yet woken, sleeps.
FoundSleep ==
    ~contended =>
        \A c \in Client :
            /\ waiting_reconnect[c] /\ (\A new \in Client : held[new] # c) => Sleeps(c)
            /\ receive[c] \in {"terminate", "join", "copy"} => Sleeps(held[c])

\* Whoever is about to wait has lost his connection, and his event is reset.
LossIsMarked ==
    ~contended =>
        \A c \in Client :
            /\ receive[c] \in {"reset", "mark"} => ~Connected(c)
            /\ receive[c] = "mark" => ~reconnect_event[c]

IInv ==
    /\ TypeOK
    /\ HeldWhileHandingOver
    /\ OneHandOver
    /\ LinksExist
    /\ FoundSleep
    /\ LossIsMarked
    /\ WokenWhenConnected

-----------------------------------------------------------------------------
(* The inductive invariant behind ImplementsDelivery.                       *)

Elements(q) == {q[i] : i \in 1 .. Len(q)}

\* Strings that were pushed to the same client are queued in the order of their pushes.
InOrder(q) == \A i, j \in 1 .. Len(q) : i < j /\ q[i][1] = q[j][1] => q[i][2] < q[j][2]

QueuesInOrder == \A c \in Client : InOrder(queue[c])

\* The strings in the queues are those which are neither sent nor discarded.
QueuedIsPending == \A c \in Client : \A s \in Elements(queue[c]) : Strings!IsPending(s)

PendingIsQueued ==
    \A s \in String : Strings!IsPending(s) => \E c \in Client : s \in Elements(queue[c])

OncePushed == \A s \in String : Strings!IsSent(s) \/ s \in discarded => s[2] <= pushed[s[1]]

\* A string in the queue of another client d than the c it was pushed to was copied there:
\* c has handed over to d, or is doing so, and what c has not copied yet is younger.
Copied ==
    \A c, d \in Client : \A s \in Elements(queue[d]) :
        s[1] = c /\ d # c =>
            /\ receive[c] \in {"copy", "unmark", "gone"}
            /\ receive[c] = "copy" => held[c] = d
            /\ receive[d] \in Session \cup {"leaving", "gone"}
            /\ \A t \in Elements(queue[c]) : t[1] = c => s[2] < t[2]
            /\ \A e \in Client \ {c, d} : \A t \in Elements(queue[e]) : t[1] # c

\* The send thread is joined before a string is copied.
JoinedBeforeCopy ==
    \A c \in Client : receive[c] \in {"copy", "unmark", "gone"} => sender[c] = "ended"

QueueInv ==
    /\ QueuesInOrder
    /\ QueuedIsPending
    /\ PendingIsQueued
    /\ OncePushed
    /\ Copied
    /\ JoinedBeforeCopy

=============================================================================

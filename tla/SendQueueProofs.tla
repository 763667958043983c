--------------------------- MODULE SendQueueProofs ---------------------------
(***************************************************************************)
(* SendQueue for every set of clients, every greeting and every bound on    *)
(* the strings: types, who wakes whom, and the refinement of Delivery: where *)
(* a string is while it is neither sent nor discarded, and why the next one  *)
(* sent is the oldest of its client.                                        *)
(***************************************************************************)
EXTENDS SendQueue, SequenceTheorems, TLAPS

-----------------------------------------------------------------------------
(* Types.                                                                  *)

\* The strings of one push are strings, in order.
LEMMA PushManyType ==
    ASSUME TypeOK, NEW c \in Client, NEW n \in Nat, PushMany(c, n)
    PROVE  /\ queue' \in [Client -> Seq(String)]
           /\ pushed' \in [Client -> 0 .. MaxStrings]
           /\ pushed' = [pushed EXCEPT ![c] = pushed[c] + n]
           /\ \A d \in Client \ {c} : queue'[d] = queue[d]
           /\ Len(queue'[c]) = Len(queue[c]) + n
           /\ \A i \in 1 .. Len(queue[c]) : queue'[c][i] = queue[c][i]
           /\ \A i \in 1 .. n : queue'[c][Len(queue[c]) + i] = <<c, pushed[c] + i>>
<1> DEFINE new == [i \in 1 .. n |-> <<c, pushed[c] + i>>]
<1>1. /\ pushed[c] \in 0 .. MaxStrings /\ MaxStrings \in Nat
      /\ pushed[c] + n <= MaxStrings
      /\ queue[c] \in Seq(String)
  BY ConstantsAssumption DEF TypeOK, PushMany
<1>2. \A i \in 1 .. n : <<c, pushed[c] + i>> \in String
  BY <1>1 DEF String
<1>3. new \in Seq(String) /\ Len(new) = n
  <2>1. new \in [1 .. n -> String]
    BY <1>2
  <2> QED
    BY <2>1, SeqDef
<1>4. queue' = [queue EXCEPT ![c] = queue[c] \o new]
  BY DEF PushMany
<1>5. pushed' = [pushed EXCEPT ![c] = pushed[c] + n]
  BY DEF PushMany
<1>6. /\ queue[c] \o new \in Seq(String)
      /\ Len(queue[c] \o new) = Len(queue[c]) + n
      /\ \A i \in 1 .. Len(queue[c]) + n :
            (queue[c] \o new)[i] = IF i <= Len(queue[c]) THEN queue[c][i] ELSE new[i - Len(queue[c])]
  <2> HIDE DEF new
  <2>1. /\ queue[c] \o new \in Seq(String)
        /\ Len(queue[c] \o new) = Len(queue[c]) + Len(new)
        /\ \A i \in 1 .. Len(queue[c]) + Len(new) :
              (queue[c] \o new)[i] = IF i <= Len(queue[c]) THEN queue[c][i] ELSE new[i - Len(queue[c])]
    BY <1>1, <1>3, ConcatProperties
  <2> QED
    BY <1>3, <2>1
<1>7. Len(queue[c]) \in Nat
  BY <1>1, LenProperties
<1>8. \A i \in 1 .. n : new[i] = <<c, pushed[c] + i>>
  OBVIOUS
<1>9. queue'[c] = queue[c] \o new /\ \A d \in Client \ {c} : queue'[d] = queue[d]
  BY <1>4 DEF TypeOK
<1> HIDE DEF new
<1>10. \A i \in 1 .. Len(queue[c]) : queue'[c][i] = queue[c][i]
  BY <1>6, <1>7, <1>9
<1>11. \A i \in 1 .. n : queue'[c][Len(queue[c]) + i] = <<c, pushed[c] + i>>
  <2> TAKE i \in 1 .. n
  <2>1. /\ Len(queue[c]) + i \in 1 .. Len(queue[c]) + n
        /\ ~(Len(queue[c]) + i <= Len(queue[c]))
        /\ Len(queue[c]) + i - Len(queue[c]) = i
    BY <1>7
  <2>2. (queue[c] \o new)[Len(queue[c]) + i] = new[i]
    BY <1>6, <2>1
  <2> QED
    BY <1>8, <1>9, <2>2
<1>12. queue' \in [Client -> Seq(String)]
  BY <1>4, <1>6 DEF TypeOK
<1>13. pushed' \in [Client -> 0 .. MaxStrings]
  BY <1>1, <1>5 DEF TypeOK
<1> QED
  BY <1>5, <1>6, <1>9, <1>10, <1>11, <1>12, <1>13

\* Every step keeps the types.
LEMMA TypeStep == ASSUME TypeOK, [Next]_vars PROVE TypeOK'
<1> USE DEF HandingOver, Session
<1>1. ASSUME NEW c \in Client, push_string(c) PROVE TypeOK'
  BY <1>1, PushManyType DEF push_string, TypeOK, flags
<1>2. ASSUME NEW c \in Client, server_to_client(c) PROVE TypeOK'
  <2>1. CASE TerminateSeen(c)
    BY <2>1 DEF TerminateSeen, TypeOK, strings, flags
  <2>2. CASE Send(c)
    <3>1. queue[c] \in Seq(String) /\ queue[c] # <<>>
      BY <2>2 DEF Send, TypeOK
    <3>2. Head(queue[c]) \in String /\ Tail(queue[c]) \in Seq(String)
      BY <3>1, HeadTailProperties
    <3>3. Append(sent[socket[c]], Head(queue[c])) \in Seq(String)
      BY <3>2, AppendProperties DEF TypeOK
    <3>4. /\ queue' = [queue EXCEPT ![c] = Tail(queue[c])]
          /\ sent' = [sent EXCEPT ![socket[c]] = Append(sent[socket[c]], Head(queue[c]))]
      BY <2>2 DEF Send, send_data
    <3>5. queue' \in [Client -> Seq(String)] /\ sent' \in [Client -> Seq(String)]
      BY <3>2, <3>3, <3>4 DEF TypeOK
    <3> QED
      BY <2>2, <3>5 DEF Send, TypeOK, flags
  <2>3. CASE SendFails(c)
    BY <2>3 DEF SendFails, TypeOK, strings, flags
  <2>4. CASE Wakes(c)
    BY <2>4 DEF Wakes, TypeOK, strings, flags
  <2> QED
    BY <1>2, <2>1, <2>2, <2>3, <2>4 DEF server_to_client
<1>3. ASSUME NEW c \in Client, NicknameAccepted(c) PROVE TypeOK'
  BY <1>3 DEF NicknameAccepted, TypeOK, strings, flags, Goto
<1>4. ASSUME NEW c \in Client, PasswordAccepted(c) PROVE TypeOK'
  <2>1. /\ queue' \in [Client -> Seq(String)]
        /\ pushed' \in [Client -> 0 .. MaxStrings]
    BY <1>4, PushManyType, ConstantsAssumption DEF PasswordAccepted
  <2>2. /\ held' \in [Client -> Client \cup {None}]
        /\ contended' \in BOOLEAN
        /\ receive' \in [Client -> {"none", "password", "leaving", "gone"} \cup HandingOver \cup Session]
    <3>1. CASE find_nickname_waiting_reconnect # {}
      <4>1. PICK old_client \in find_nickname_waiting_reconnect :
              /\ held' = [held EXCEPT ![c] = old_client]
              /\ contended' = (contended \/ old_client \in {held[d] : d \in Client})
              /\ receive' = [receive EXCEPT ![c] = "terminate"]
        BY <1>4, <3>1 DEF PasswordAccepted, Goto
      <4>2. contended' \in BOOLEAN
        BY <4>1, Zenon
      <4>3. old_client \in Client
        BY DEF find_nickname_waiting_reconnect
      <4> QED
        BY <4>1, <4>2, <4>3 DEF TypeOK
    <3>2. CASE find_nickname_waiting_reconnect = {}
      BY <1>4, <3>2 DEF PasswordAccepted, TypeOK, Goto
    <3> QED
      BY <3>1, <3>2
  <2>3. authorized' \in [Client -> BOOLEAN]
    BY <1>4 DEF PasswordAccepted, TypeOK, Set
  <2> QED
    BY <1>4, <2>1, <2>2, <2>3 DEF PasswordAccepted, TypeOK
<1>8. ASSUME NEW c \in Client, RangeError(c) PROVE TypeOK'
  BY <1>8 DEF RangeError, TypeOK, strings, Goto, Set
<1>5. ASSUME NEW c \in Client, Proceeds(c) PROVE TypeOK'
  <2>1. CASE LoginFails(c)
    BY <2>1 DEF LoginFails, TypeOK, strings, Goto, Set
  <2>2. CASE TerminateSender(c)
    BY <2>2 DEF TerminateSender, TypeOK, strings, Goto, Set
  <2>3. CASE GoesWrong
    BY <2>3 DEF GoesWrong, TypeOK, strings, flags
  <2>4. CASE set_socket(c)
    <3>1. CASE ~OldClientGone(c)
      <4>1. /\ socket' = [socket EXCEPT ![held[c]] = socket[c]]
            /\ terminate_event' = [terminate_event EXCEPT ![c] = FALSE]
            /\ receive' = [receive EXCEPT ![c] = "copy"]
            /\ UNCHANGED <<strings, link, sender, held, authorized, waiting_reconnect,
                            reconnect_event, contended, undefined>>
        BY <2>4, <3>1 DEF set_socket, Goto, Reset
      <4> QED
        BY <4>1 DEF TypeOK, strings
    <3> QED
      BY <2>3, <2>4, <3>1 DEF set_socket
  <2>5. CASE CopyString(c)
    <3>1. CASE ~OldClientGone(c)
      <4>1. queue[c] \in Seq(String) /\ queue[c] # <<>>
        BY <2>5 DEF CopyString, TypeOK
      <4>2. Head(queue[c]) \in String /\ Tail(queue[c]) \in Seq(String)
        BY <4>1, HeadTailProperties
      <4>3. \A d \in Client : Append(queue[d], Head(queue[c])) \in Seq(String)
        BY <4>2, AppendProperties DEF TypeOK
      <4>4. \A q \in Seq(String) : Append(q, Head(queue[c])) \in Seq(String)
        BY <4>2, AppendProperties
      <4>5. queue' = [queue EXCEPT ![c] = Tail(@), ![held[c]] = Append(@, Head(queue[c]))]
        BY <2>5, <3>1 DEF CopyString
      <4>6. queue' \in [Client -> Seq(String)]
        BY <4>2, <4>3, <4>4, <4>5 DEF TypeOK
      <4> QED
        BY <2>5, <3>1, <4>6 DEF CopyString, TypeOK, flags
    <3> QED
      BY <2>3, <2>5, <3>1 DEF CopyString
  <2>6. CASE SetReconnect(c)
    BY <2>3, <2>6 DEF SetReconnect, TypeOK, strings, Goto, Set
  <2>7. CASE Unmark(c)
    BY <2>3, <2>7 DEF Unmark, TypeOK, strings, Goto, Reset
  <2>8. CASE RecvFails(c) \/ Reconnected(c)
    BY <2>8 DEF RecvFails, Reconnected, TypeOK, strings, flags, Goto
  <2>9. CASE ResetReconnect(c) \/ MarkWaiting(c)
    BY <2>9 DEF ResetReconnect, MarkWaiting, TypeOK, strings, Goto, Set, Reset
  <2>10. CASE ReconnectTimeout(c)
    BY <2>10 DEF ReconnectTimeout, TypeOK, strings, Goto, Set
  <2>11. CASE Cleanup(c)
    <3>1. discarded' \subseteq String
      BY <2>11, ElementOfSeq DEF Cleanup, TypeOK
    <3>2. queue' \in [Client -> Seq(String)]
      BY <2>11, EmptySeq DEF Cleanup, TypeOK
    <3> QED
      BY <2>11, <3>1, <3>2 DEF Cleanup, TypeOK, flags, Goto
  <2> QED
    BY <1>5, <2>1, <2>2, <2>4, <2>5, <2>6, <2>7, <2>8, <2>9, <2>10, <2>11 DEF Proceeds
<1>6. ASSUME NEW c \in Client, Break(c) PROVE TypeOK'
  BY <1>6 DEF Break, TypeOK, strings, flags
<1>7. CASE UNCHANGED vars
  BY <1>7 DEF vars, strings, flags, TypeOK
<1> QED
  BY <1>1, <1>2, <1>3, <1>4, <1>5, <1>6, <1>7, <1>8 DEF Next, client_to_server

LEMMA InitTypes == Init => TypeOK
<1> SUFFICES ASSUME Init PROVE TypeOK
  OBVIOUS
<1>1. <<>> \in Seq(String)
  BY EmptySeq
<1>2. 0 \in 0 .. MaxStrings
  BY ConstantsAssumption
<1>3. queue \in [Client -> Seq(String)] /\ sent \in [Client -> Seq(String)]
  BY <1>1 DEF Init
<1>4. pushed \in [Client -> 0 .. MaxStrings]
  BY <1>2 DEF Init
<1>5. /\ authorized \in [Client -> BOOLEAN] /\ waiting_reconnect \in [Client -> BOOLEAN]
      /\ reconnect_event \in [Client -> BOOLEAN] /\ terminate_event \in [Client -> BOOLEAN]
      /\ contended \in BOOLEAN /\ undefined \in BOOLEAN
  BY DEF Init
<1> QED
  BY <1>3, <1>4, <1>5 DEF Init, TypeOK

\* Type correctness of SendQueue.
THEOREM TypeCorrect == Spec => []TypeOK
BY InitTypes, TypeStep, PTL DEF Spec

-----------------------------------------------------------------------------
(* Who sleeps, who is woken.                                               *)

\* The variables that IInv is about, but for TypeOK.
control == <<link, socket, receive, held, waiting_reconnect, reconnect_event, contended>>

Control ==
    /\ HeldWhileHandingOver
    /\ OneHandOver
    /\ LinksExist
    /\ FoundSleep
    /\ LossIsMarked
    /\ WokenWhenConnected

LEMMA ControlStutter == ASSUME Control, UNCHANGED control PROVE Control'
BY DEF control, Control, HeldWhileHandingOver, OneHandOver, LinksExist, FoundSleep, Sleeps,
       LossIsMarked, WokenWhenConnected, Connected

\* A receive thread goes on, and nothing else changes.
LEMMA ControlMove ==
    ASSUME TypeOK, Control, NEW c \in Client, NEW place,
           receive' = [receive EXCEPT ![c] = place],
           UNCHANGED <<link, socket, held, waiting_reconnect, reconnect_event, contended>>,
           \/ receive[c] = "password" /\ place \in {"recv", "leaving"}
           \/ receive[c] = "terminate" /\ place = "join"
           \/ receive[c] = "recv" /\ place = "reset" /\ ~Connected(c)
           \/ receive[c] = "recv" /\ place = "leaving"
           \/ receive[c] = "wait" /\ place = "recv" /\ reconnect_event[c]
           \/ receive[c] = "wait" /\ place = "leaving"
           \/ receive[c] = "leaving" /\ place = "gone"
    PROVE  Control'
<1> USE ConstantsAssumption DEF TypeOK, HandingOver, Session
<1>1. \A d \in Client \ {c} : receive'[d] = receive[d]
  OBVIOUS
<1>2. receive'[c] = place
  OBVIOUS
<1>3. \A d \in Client : held[d] \in Client => held[d] # None
  OBVIOUS
<1>4. HeldWhileHandingOver'
  BY <1>1, <1>2 DEF Control, HeldWhileHandingOver
<1>5. OneHandOver'
  BY DEF Control, OneHandOver
<1>6. LinksExist'
  BY <1>1, <1>2 DEF Control, LinksExist
<1>7. \A d \in Client : Connected(d)' <=> Connected(d)
  BY DEF Connected
<1>8. LossIsMarked'
  BY <1>1, <1>2, <1>7 DEF Control, LossIsMarked
<1>9. WokenWhenConnected'
  <2> SUFFICES ASSUME NEW d \in Client, receive'[d] = "wait", Connected(d), ~contended,
                      ~reconnect_event[d]
               PROVE  \E new \in Client : held[new] = d /\ receive'[new] = "copy"
    BY <1>7 DEF WokenWhenConnected
  <2>1. receive[d] = "wait"
    BY <1>1, <1>2
  <2>2. PICK new \in Client : held[new] = d /\ receive[new] = "copy"
    BY <2>1 DEF Control, WokenWhenConnected
  <2> QED
    BY <1>1, <2>2
<1>10. FoundSleep'
  <2> SUFFICES ASSUME ~contended, NEW d \in Client
               PROVE  /\ waiting_reconnect[d] /\ (\A new \in Client : held[new] # d) => Sleeps(d)'
                      /\ receive'[d] \in {"terminate", "join", "copy"} => Sleeps(held[d])'
    BY DEF FoundSleep
  <2>1. \A e \in Client : Sleeps(e) => Sleeps(e)'
    BY <1>1, <1>2 DEF Sleeps
  <2>2. receive'[d] \in {"terminate", "join", "copy"} =>
           receive[d] \in {"terminate", "join", "copy"} /\ held[d] \in Client
    BY <1>1, <1>2 DEF Control, HeldWhileHandingOver
  <2>3. waiting_reconnect[d] /\ (\A new \in Client : held[new] # d) => Sleeps(d)
    BY DEF Control, FoundSleep
  <2>4. receive[d] \in {"terminate", "join", "copy"} => Sleeps(held[d])
    BY DEF Control, FoundSleep
  <2>5. receive'[d] \in {"terminate", "join", "copy"} => Sleeps(held[d])'
    BY <2>1, <2>2, <2>4
  <2> QED
    BY <2>1, <2>3, <2>5
<1> QED
  BY <1>4, <1>5, <1>6, <1>8, <1>9, <1>10 DEF Control

LEMMA ControlLogin ==
    ASSUME TypeOK, Control, NEW c \in Client,
           \/ NicknameAccepted(c) \/ LoginFails(c) \/ PasswordAccepted(c) \/ TerminateSender(c)
           \/ RangeError(c)
    PROVE  Control'
<1> USE ConstantsAssumption DEF TypeOK, HandingOver, Session, At, Goto
<1>1. CASE NicknameAccepted(c)
  <2>1. /\ receive[c] = "none" /\ receive' = [receive EXCEPT ![c] = "password"]
        /\ link' = [link EXCEPT ![c] = "up"]
        /\ UNCHANGED <<socket, held, waiting_reconnect, reconnect_event, contended>>
    BY <1>1 DEF NicknameAccepted, flags
  <2>2. HeldWhileHandingOver' /\ OneHandOver'
    BY <2>1 DEF Control, HeldWhileHandingOver, OneHandOver
  <2>3. LinksExist'
    BY <2>1 DEF Control, LinksExist
  <2>4. FoundSleep'
    BY <2>1 DEF Control, FoundSleep, Sleeps, HeldWhileHandingOver
  <2>5. \A d \in Client : receive[d] # "none" => Connected(d)' = Connected(d)
    BY <2>1 DEF Control, LinksExist, Connected
  <2>6. LossIsMarked'
    BY <2>1, <2>5 DEF Control, LossIsMarked
  <2>7. WokenWhenConnected'
    <3> SUFFICES ASSUME NEW d \in Client, receive'[d] = "wait", Connected(d)', ~contended,
                        ~reconnect_event[d]
                 PROVE  \E new \in Client : held[new] = d /\ receive'[new] = "copy"
      BY <2>1 DEF WokenWhenConnected
    <3>1. receive[d] = "wait"
      BY <2>1
    <3>2. Connected(d)
      BY <2>5, <3>1
    <3>3. PICK new \in Client : held[new] = d /\ receive[new] = "copy"
      BY <3>1, <3>2 DEF Control, WokenWhenConnected
    <3>4. receive'[new] = "copy"
      BY <2>1, <3>3
    <3> QED
      BY <3>3, <3>4
  <2> QED
    BY <2>2, <2>3, <2>4, <2>6, <2>7 DEF Control
<1>2. CASE LoginFails(c) \/ TerminateSender(c)
  BY <1>2, ControlMove DEF LoginFails, TerminateSender
<1>5. CASE RangeError(c)
  BY <1>5, ControlMove DEF RangeError
<1>3. CASE PasswordAccepted(c) /\ find_nickname_waiting_reconnect = {}
  BY <1>3, ControlMove DEF PasswordAccepted
<1>4. CASE PasswordAccepted(c) /\ find_nickname_waiting_reconnect # {}
  <2>1. PICK old \in find_nickname_waiting_reconnect :
          /\ held' = [held EXCEPT ![c] = old]
          /\ contended' = (contended \/ old \in {held[d] : d \in Client})
          /\ receive' = [receive EXCEPT ![c] = "terminate"]
    BY <1>4 DEF PasswordAccepted
  <2>2. /\ receive[c] = "password"
        /\ UNCHANGED <<link, socket, waiting_reconnect, reconnect_event>>
    BY <1>4 DEF PasswordAccepted
  <2>3. old \in Client /\ waiting_reconnect[old] /\ receive[old] \notin {"none", "gone"}
    BY DEF find_nickname_waiting_reconnect
  <2>4. ~contended' => ~contended /\ \A d \in Client : held[d] # old
    BY <2>1
  <2>5. HeldWhileHandingOver'
    <3>1. /\ held'[c] = old /\ receive'[c] = "terminate"
          /\ \A d \in Client \ {c} : held'[d] = held[d] /\ receive'[d] = receive[d]
      BY <2>1
    <3>2. ~waiting_reconnect[c] /\ receive[old] \in Session \cup {"leaving", "gone"}
      BY <2>2, <2>3 DEF Control, HeldWhileHandingOver
    <3>3. receive'[old] \in Session \cup {"leaving", "gone"}
      BY <2>2, <2>3, <3>1, <3>2
    <3>4. old # None
      BY <2>3
    <3> SUFFICES ASSUME NEW d \in Client
                 PROVE  /\ held'[d] # None <=> receive'[d] \in HandingOver
                        /\ held'[d] # None => receive'[held'[d]] \in Session \cup {"leaving", "gone"}
                        /\ waiting_reconnect[d] =>
                              receive'[d] \in Session \cup {"leaving", "gone"}
      BY <2>2 DEF HeldWhileHandingOver
    <3>5. CASE d = c
      BY <3>1, <3>2, <3>3, <3>4, <3>5
    <3>6. CASE d # c
      <4>1. /\ held[d] # None <=> receive[d] \in HandingOver
            /\ held[d] # None => receive[held[d]] \in Session \cup {"leaving", "gone"}
            /\ waiting_reconnect[d] => receive[d] \in Session \cup {"leaving", "gone"}
        BY DEF Control, HeldWhileHandingOver
      <4>2. held[d] # None => held[d] \in Client \ {c}
        BY <2>2, <4>1
      <4> QED
        BY <3>1, <3>6, <4>1, <4>2
    <3> QED
      BY <3>5, <3>6
  <2>6. OneHandOver'
    BY <2>1, <2>3, <2>4 DEF Control, OneHandOver
  <2>7. LinksExist'
    BY <2>1, <2>2 DEF Control, LinksExist
  <2>8. ~contended' => Sleeps(old)
    BY <2>3, <2>4 DEF Control, FoundSleep
  <2>9. \A d \in Client \ {c} : Sleeps(d)' <=> Sleeps(d)
    BY <2>1, <2>2 DEF Sleeps
  <2>10. old # c
    BY <2>2, <2>3 DEF Control, HeldWhileHandingOver
  <2>11. FoundSleep'
    <3> SUFFICES ASSUME ~contended', NEW d \in Client
                 PROVE  /\ waiting_reconnect'[d] /\ (\A new \in Client : held'[new] # d) => Sleeps(d)'
                        /\ receive'[d] \in {"terminate", "join", "copy"} => Sleeps(held[d])'
      BY DEF FoundSleep, Sleeps
    <3>1. CASE d = c
      <4>1. /\ ~waiting_reconnect[c]
            /\ held'[c] = old
        <5>1. waiting_reconnect[c] => receive[c] \in {"recv", "reset", "mark", "wait", "leaving", "gone"}
          BY Zenon DEF Control, HeldWhileHandingOver
        <5>2. ~waiting_reconnect[c]
          BY <2>2, <5>1
        <5>3. held'[c] = old
          BY <2>1
        <5> QED
          BY <5>2, <5>3
      <4>2. Sleeps(old)'
        BY <2>3, <2>8, <2>9, <2>10
      <4>3. Sleeps(held[c])'
        BY <4>1, <4>2 DEF Sleeps
      <4> QED
        BY <2>2, <3>1, <4>1, <4>3
    <3>2. CASE d # c
      <4>1. held'[d] = held[d] /\ receive'[d] = receive[d]
        BY <2>1, <3>2
      <4>2. receive[d] \in {"terminate", "join", "copy"} => held[d] \in Client \ {c}
        BY <2>2, <4>1 DEF Control, HeldWhileHandingOver
      <4>3. held[c] = None
        BY <2>2 DEF Control, HeldWhileHandingOver
      <4>4. (\A new \in Client : held'[new] # d) => \A new \in Client : held[new] # d
        BY <2>1, <4>3
      <4>5. waiting_reconnect[d] /\ (\A new \in Client : held[new] # d) => Sleeps(d)
        BY <2>4 DEF Control, FoundSleep
      <4>6. receive[d] \in {"terminate", "join", "copy"} => Sleeps(held[d])
        BY <2>4 DEF Control, FoundSleep
      <4>7. receive'[d] \in {"terminate", "join", "copy"} => Sleeps(held[d])'
        <5> SUFFICES ASSUME receive[d] \in {"terminate", "join", "copy"} PROVE Sleeps(held[d])'
          BY <4>1
        <5>1. held[d] \in Client \ {c} /\ Sleeps(held[d])
          BY <4>2, <4>6
        <5>2. receive'[held[d]] = receive[held[d]]
          BY <2>1, <5>1
        <5> QED
          BY <2>2, <4>1, <5>1, <5>2 DEF Sleeps
      <4> QED
        BY <2>2, <2>9, <3>2, <4>4, <4>5, <4>7
    <3> QED
      BY <3>1, <3>2
  <2>12. LossIsMarked' /\ WokenWhenConnected'
    <3>1. LossIsMarked'
      BY <2>1, <2>2, <2>4 DEF Control, LossIsMarked, Connected
    <3>2. WokenWhenConnected'
      <4> SUFFICES ASSUME NEW d \in Client, receive'[d] = "wait", Connected(d)', ~contended',
                          ~reconnect_event'[d]
                   PROVE  \E new \in Client : held'[new] = d /\ receive'[new] = "copy"
        BY DEF WokenWhenConnected
      <4>1. receive[d] = "wait" /\ Connected(d) /\ ~contended /\ ~reconnect_event[d]
        BY <2>1, <2>2, <2>4 DEF Connected
      <4>2. PICK new \in Client : held[new] = d /\ receive[new] = "copy"
        BY <4>1 DEF Control, WokenWhenConnected
      <4> QED
        BY <2>1, <2>2, <4>2
    <3> QED
      BY <3>1, <3>2
  <2> QED
    BY <2>5, <2>6, <2>7, <2>11, <2>12 DEF Control
<1> QED
  BY <1>1, <1>2, <1>3, <1>4, <1>5

\* A connection is lost, and a receive thread may end because of it.
LEMMA ControlLoss ==
    ASSUME TypeOK, Control, NEW c \in Client, NEW k \in Client,
           link[k] # "none",
           link' = [link EXCEPT ![k] = "broken"],
           \/ receive' = receive
           \/ receive[c] = "leaving" /\ receive' = [receive EXCEPT ![c] = "gone"],
           UNCHANGED <<socket, held, waiting_reconnect, reconnect_event, contended>>
    PROVE  Control'
<1> USE ConstantsAssumption DEF TypeOK, HandingOver, Session
<1>1. \A d \in Client : \/ receive'[d] = receive[d]
                        \/ receive[d] = "leaving" /\ receive'[d] = "gone"
  OBVIOUS
<1>2. \A d \in Client : Connected(d)' => Connected(d)
  BY DEF Connected
<1>3. HeldWhileHandingOver' /\ OneHandOver'
  <2>1. OneHandOver'
    BY DEF Control, OneHandOver
  <2> SUFFICES ASSUME NEW d \in Client
               PROVE  /\ held[d] # None <=> receive'[d] \in HandingOver
                      /\ held[d] # None => receive'[held[d]] \in Session \cup {"leaving", "gone"}
                      /\ waiting_reconnect[d] =>
                            receive'[d] \in Session \cup {"leaving", "gone"}
    BY <2>1 DEF HeldWhileHandingOver
  <2>2. /\ held[d] # None <=> receive[d] \in HandingOver
        /\ held[d] # None => receive[held[d]] \in Session \cup {"leaving", "gone"}
        /\ waiting_reconnect[d] => receive[d] \in Session \cup {"leaving", "gone"}
    BY DEF Control, HeldWhileHandingOver
  <2>3. held[d] # None => held[d] \in Client
    OBVIOUS
  <2> QED
    BY <1>1, <2>2, <2>3
<1>4. LinksExist'
  <2>1. \A d \in Client : link'[d] = "none" <=> link[d] = "none"
    OBVIOUS
  <2>2. \A d \in Client : receive'[d] = "none" <=> receive[d] = "none"
    BY <1>1
  <2>3. \A d \in Client : socket[d] \in Client
    OBVIOUS
  <2> HIDE DEF TypeOK, HandingOver, Session
  <2> QED
    BY <2>1, <2>2, <2>3 DEF Control, LinksExist
<1>5. LossIsMarked'
  BY <1>1, <1>2 DEF Control, LossIsMarked
<1>6. WokenWhenConnected'
  <2> SUFFICES ASSUME NEW d \in Client, receive'[d] = "wait", Connected(d), ~contended,
                      ~reconnect_event[d]
               PROVE  \E new \in Client : held[new] = d /\ receive'[new] = "copy"
    BY <1>2 DEF WokenWhenConnected
  <2>1. PICK new \in Client : held[new] = d /\ receive[new] = "copy"
    BY <1>1 DEF Control, WokenWhenConnected
  <2> QED
    BY <1>1, <2>1
<1>7. FoundSleep'
  <2> SUFFICES ASSUME ~contended, NEW d \in Client
               PROVE  /\ waiting_reconnect[d] /\ (\A new \in Client : held[new] # d) => Sleeps(d)'
                      /\ receive'[d] \in {"terminate", "join", "copy"} => Sleeps(held[d])'
    BY DEF FoundSleep
  <2>1. \A e \in Client : Sleeps(e) => Sleeps(e)'
    BY <1>1 DEF Sleeps
  <2>2. receive'[d] \in {"terminate", "join", "copy"} =>
           receive[d] \in {"terminate", "join", "copy"} /\ held[d] \in Client
    BY <1>1 DEF Control, HeldWhileHandingOver
  <2>3. waiting_reconnect[d] /\ (\A new \in Client : held[new] # d) => Sleeps(d)
    BY DEF Control, FoundSleep
  <2>4. receive[d] \in {"terminate", "join", "copy"} => Sleeps(held[d])
    BY DEF Control, FoundSleep
  <2> QED
    BY <2>1, <2>2, <2>3, <2>4
<1> QED
  BY <1>3, <1>4, <1>5, <1>6, <1>7 DEF Control

\* The client that a thread in the midst of a hand-over holds.
LEMMA HandOver ==
    ASSUME TypeOK, Control, NEW c \in Client, receive[c] \in HandingOver
    PROVE  /\ held[c] \in Client /\ held[c] # c
           /\ receive[held[c]] \in Session \cup {"leaving", "gone"}
           /\ receive[c] \in {"terminate", "join", "copy"} /\ ~contended => Sleeps(held[c])
           /\ ~waiting_reconnect[c]
           /\ \A d \in Client : held[d] # c
           /\ ~contended => \A d \in Client : held[d] = held[c] => d = c
<1>1. held[c] # None /\ held[c] \in Client
  BY DEF Control, HeldWhileHandingOver, TypeOK
<1>2. receive[held[c]] \in Session \cup {"leaving", "gone"}
  BY <1>1 DEF Control, HeldWhileHandingOver
<1>3. waiting_reconnect[c] => receive[c] \in Session \cup {"leaving", "gone"}
  BY Zenon DEF Control, HeldWhileHandingOver
<1>4. receive[c] \notin Session \cup {"leaving", "gone"}
  BY DEF HandingOver, Session
<1>5. \A d \in Client : held[d] # c
  BY <1>4, ConstantsAssumption DEF Control, HeldWhileHandingOver
<1>6. ~contended => \A d \in Client : held[d] = held[c] => d = c
  BY <1>1 DEF Control, OneHandOver
<1>7. receive[c] \in {"terminate", "join", "copy"} /\ ~contended => Sleeps(held[c])
  BY DEF Control, FoundSleep
<1> QED
  BY <1>1, <1>2, <1>3, <1>4, <1>5, <1>6, <1>7

LEMMA ControlSetSocket ==
    ASSUME TypeOK, Control, NEW c \in Client, receive[c] = "join",
           socket' = [socket EXCEPT ![held[c]] = socket[c]],
           receive' = [receive EXCEPT ![c] = "copy"],
           UNCHANGED <<link, held, waiting_reconnect, reconnect_event, contended>>
    PROVE  Control'
<1> USE ConstantsAssumption DEF TypeOK, HandingOver, Session
<1> DEFINE old == held[c]
<1>1. /\ old \in Client /\ old # c
      /\ receive[old] \in Session \cup {"leaving", "gone"}
      /\ ~contended => Sleeps(old)
      /\ ~waiting_reconnect[c]
  BY HandOver
<1>2. receive'[c] = "copy" /\ \A d \in Client \ {c} : receive'[d] = receive[d]
  OBVIOUS
<1>3. \A d \in Client \ {old} : socket'[d] = socket[d] /\ (Connected(d)' <=> Connected(d))
  BY DEF Connected
<1>4. HeldWhileHandingOver' /\ OneHandOver'
  BY <1>2 DEF Control, HeldWhileHandingOver, OneHandOver
<1>5. LinksExist'
  BY <1>1, <1>2, <1>3 DEF Control, LinksExist
<1>6. \A d \in Client : Sleeps(d)' <=> Sleeps(d)
  BY <1>2 DEF Sleeps
<1>7. LossIsMarked'
  BY <1>1, <1>2, <1>3 DEF Control, LossIsMarked, Sleeps
<1>8. WokenWhenConnected'
  <2> SUFFICES ASSUME NEW d \in Client, receive'[d] = "wait", Connected(d)', ~contended,
                      ~reconnect_event[d]
               PROVE  \E new \in Client : held[new] = d /\ receive'[new] = "copy"
    BY DEF WokenWhenConnected
  <2>1. CASE d = old
    BY <1>2, <2>1
  <2>2. CASE d # old
    <3>1. receive[d] = "wait" /\ Connected(d)
      BY <1>2, <1>3, <2>2
    <3>2. PICK new \in Client : held[new] = d /\ receive[new] = "copy"
      BY <3>1 DEF Control, WokenWhenConnected
    <3> QED
      BY <1>2, <3>2
  <2> QED
    BY <2>1, <2>2
<1>9. FoundSleep'
  <2> SUFFICES ASSUME ~contended, NEW d \in Client
               PROVE  /\ waiting_reconnect[d] /\ (\A new \in Client : held[new] # d) => Sleeps(d)
                      /\ receive'[d] \in {"terminate", "join", "copy"} => Sleeps(held[d])'
    BY <1>6 DEF FoundSleep
  <2>1. waiting_reconnect[d] /\ (\A new \in Client : held[new] # d) => Sleeps(d)
    BY DEF Control, FoundSleep
  <2>2. receive'[d] \in {"terminate", "join", "copy"} => Sleeps(held[d]) /\ held[d] \in Client
    <3>1. CASE d = c
      BY <1>1, <3>1
    <3>2. CASE d # c
      BY <1>2, <3>2 DEF Control, FoundSleep, HeldWhileHandingOver
    <3> QED
      BY <3>1, <3>2
  <2> QED
    BY <1>6, <2>1, <2>2
<1> QED
  BY <1>4, <1>5, <1>7, <1>8, <1>9 DEF Control

LEMMA ControlSetReconnect ==
    ASSUME TypeOK, Control, NEW c \in Client, receive[c] = "copy",
           reconnect_event' = [reconnect_event EXCEPT ![held[c]] = TRUE],
           receive' = [receive EXCEPT ![c] = "unmark"],
           UNCHANGED <<link, socket, held, waiting_reconnect, contended>>
    PROVE  Control'
<1> USE ConstantsAssumption DEF TypeOK, HandingOver, Session
<1> DEFINE old == held[c]
<1>1. /\ old \in Client /\ old # c
      /\ ~contended => Sleeps(old)
      /\ ~waiting_reconnect[c]
      /\ ~contended => \A d \in Client : held[d] = old => d = c
      /\ \A d \in Client : held[d] # c
  BY HandOver
<1>2. receive'[c] = "unmark" /\ \A d \in Client \ {c} : receive'[d] = receive[d]
  OBVIOUS
<1>3. reconnect_event'[old] /\ \A d \in Client \ {old} : reconnect_event'[d] <=> reconnect_event[d]
  <2>1. reconnect_event'[old]
    BY <1>1
  <2> QED
    BY <2>1
<1>4. HeldWhileHandingOver' /\ OneHandOver' /\ LinksExist'
  BY <1>2 DEF Control, HeldWhileHandingOver, OneHandOver, LinksExist
<1>5. \A d \in Client : Connected(d)' <=> Connected(d)
  BY DEF Connected
<1>6. \A d \in Client \ {old, c} : Sleeps(d)' <=> Sleeps(d)
  BY <1>2, <1>3 DEF Sleeps
<1>7. LossIsMarked'
  <2> SUFFICES ASSUME ~contended, NEW d \in Client
               PROVE  /\ receive'[d] \in {"reset", "mark"} => ~Connected(d)
                      /\ receive'[d] = "mark" => ~reconnect_event'[d]
    BY <1>5 DEF LossIsMarked
  <2>1. receive[old] \notin {"reset", "mark"}
    BY <1>1 DEF Sleeps
  <2>2. /\ receive[d] \in {"reset", "mark"} => ~Connected(d)
        /\ receive[d] = "mark" => ~reconnect_event[d]
    BY DEF Control, LossIsMarked
  <2> QED
    BY <1>1, <1>2, <1>3, <2>1, <2>2
<1>8. WokenWhenConnected'
  <2> SUFFICES ASSUME NEW d \in Client, receive'[d] = "wait", Connected(d), ~contended,
                      ~reconnect_event'[d]
               PROVE  \E new \in Client : held[new] = d /\ receive'[new] = "copy"
    BY <1>5 DEF WokenWhenConnected
  <2>1. d # old /\ receive[d] = "wait" /\ ~reconnect_event[d]
    BY <1>2, <1>3
  <2>2. PICK new \in Client : held[new] = d /\ receive[new] = "copy"
    BY <2>1 DEF Control, WokenWhenConnected
  <2> QED
    BY <1>2, <2>1, <2>2
<1>9. FoundSleep'
  <2> SUFFICES ASSUME ~contended, NEW d \in Client
               PROVE  /\ waiting_reconnect[d] /\ (\A new \in Client : held[new] # d) => Sleeps(d)'
                      /\ receive'[d] \in {"terminate", "join", "copy"} => Sleeps(held[d])'
    BY DEF FoundSleep
  <2>1. waiting_reconnect[d] /\ (\A new \in Client : held[new] # d) => Sleeps(d) /\ d # old /\ d # c
    <3>1. waiting_reconnect[d] => d # c
      BY <1>1
    <3> QED
      BY <3>1 DEF Control, FoundSleep
  <2>2. receive'[d] \in {"terminate", "join", "copy"} =>
           Sleeps(held[d]) /\ held[d] \in Client /\ d # c
    BY <1>2 DEF Control, FoundSleep, HeldWhileHandingOver
  <2>3. d # c => held[d] # old /\ held[d] # c
    BY <1>1
  <2> QED
    BY <1>6, <2>1, <2>2, <2>3
<1> QED
  BY <1>4, <1>7, <1>8, <1>9 DEF Control

LEMMA ControlUnmark ==
    ASSUME TypeOK, Control, NEW c \in Client, receive[c] = "unmark",
           waiting_reconnect' = [waiting_reconnect EXCEPT ![held[c]] = FALSE],
           held' = [held EXCEPT ![c] = None],
           receive' = [receive EXCEPT ![c] = "gone"],
           UNCHANGED <<link, socket, reconnect_event, contended>>
    PROVE  Control'
<1> USE ConstantsAssumption DEF TypeOK, HandingOver, Session
<1> DEFINE old == held[c]
<1>1. /\ old \in Client /\ old # c
      /\ receive[old] \in Session \cup {"leaving", "gone"}
      /\ ~waiting_reconnect[c]
      /\ \A d \in Client : held[d] # c
  BY HandOver
<1>2. receive'[c] = "gone" /\ \A d \in Client \ {c} : receive'[d] = receive[d]
  OBVIOUS
<1>3. held'[c] = None /\ \A d \in Client \ {c} : held'[d] = held[d]
  OBVIOUS
<1>4. ~waiting_reconnect'[old] /\ \A d \in Client \ {old} : waiting_reconnect'[d] <=> waiting_reconnect[d]
  <2>1. ~waiting_reconnect'[old]
    BY <1>1
  <2>2. \A d \in Client \ {old} : waiting_reconnect'[d] = waiting_reconnect[d]
    BY <1>1
  <2> QED
    BY <2>1, <2>2
<1>5. HeldWhileHandingOver'
  <2> SUFFICES ASSUME NEW d \in Client
               PROVE  /\ held'[d] # None <=> receive'[d] \in HandingOver
                      /\ held'[d] # None => receive'[held'[d]] \in Session \cup {"leaving", "gone"}
                      /\ waiting_reconnect'[d] => receive'[d] \in Session \cup {"leaving", "gone"}
    BY Zenon DEF HeldWhileHandingOver
  <2>1. held'[d] # None <=> receive'[d] \in HandingOver
    BY <1>2, <1>3 DEF Control, HeldWhileHandingOver
  <2>2. held'[d] # None => receive'[held'[d]] \in Session \cup {"leaving", "gone"}
    BY <1>1, <1>2, <1>3 DEF Control, HeldWhileHandingOver
  <2>3. waiting_reconnect'[d] => receive'[d] \in Session \cup {"leaving", "gone"}
    <3>1. waiting_reconnect[d] => receive[d] \in Session \cup {"leaving", "gone"}
      BY Zenon DEF Control, HeldWhileHandingOver
    <3>2. waiting_reconnect'[d] => waiting_reconnect[d]
      BY <1>4
    <3> QED
      BY <1>2, <3>1, <3>2
  <2> QED
    BY <2>1, <2>2, <2>3
<1>6. OneHandOver'
  BY <1>3 DEF Control, OneHandOver
<1>7. LinksExist'
  BY <1>1, <1>2 DEF Control, LinksExist
<1>8. \A d \in Client : Connected(d)' <=> Connected(d)
  BY DEF Connected
<1>9. \A d \in Client : Sleeps(d) => Sleeps(d)'
  BY <1>2 DEF Sleeps
<1>10. LossIsMarked'
  BY <1>2, <1>8 DEF Control, LossIsMarked
<1>11. WokenWhenConnected'
  <2> SUFFICES ASSUME NEW d \in Client, receive'[d] = "wait", Connected(d), ~contended,
                      ~reconnect_event[d]
               PROVE  \E new \in Client : held'[new] = d /\ receive'[new] = "copy"
    BY <1>8 DEF WokenWhenConnected
  <2>1. PICK new \in Client : held[new] = d /\ receive[new] = "copy"
    BY <1>2 DEF Control, WokenWhenConnected
  <2> QED
    BY <1>2, <1>3, <2>1
<1>12. FoundSleep'
  <2> SUFFICES ASSUME ~contended, NEW d \in Client
               PROVE  /\ waiting_reconnect'[d] /\ (\A new \in Client : held'[new] # d) => Sleeps(d)'
                      /\ receive'[d] \in {"terminate", "join", "copy"} => Sleeps(held[d])'
    BY DEF FoundSleep
  <2>1. ASSUME waiting_reconnect'[d], \A new \in Client : held'[new] # d PROVE Sleeps(d)'
    <3>1. d # old /\ waiting_reconnect[d]
      BY <1>4, <2>1
    <3>2. \A new \in Client : held[new] # d
      BY <1>3, <2>1, <3>1
    <3> QED
      BY <1>9, <3>1, <3>2 DEF Control, FoundSleep
  <2>2. ASSUME receive'[d] \in {"terminate", "join", "copy"} PROVE Sleeps(held[d])'
    <3>1. d # c /\ Sleeps(held[d]) /\ held[d] \in Client /\ held'[d] = held[d]
      BY <1>2, <1>3, <2>2 DEF Control, FoundSleep, HeldWhileHandingOver
    <3> QED
      BY <1>2, <3>1 DEF Sleeps
  <2> QED
    BY <2>1, <2>2
<1> QED
  BY <1>5, <1>6, <1>7, <1>10, <1>11, <1>12 DEF Control

\* The thread of a lost connection resets its event, and then can be found.
LEMMA ControlMark ==
    ASSUME TypeOK, Control, NEW c \in Client,
           \/ /\ receive[c] = "reset" /\ receive' = [receive EXCEPT ![c] = "mark"]
              /\ reconnect_event' = [reconnect_event EXCEPT ![c] = FALSE]
              /\ UNCHANGED waiting_reconnect
           \/ /\ receive[c] = "mark" /\ receive' = [receive EXCEPT ![c] = "wait"]
              /\ waiting_reconnect' = [waiting_reconnect EXCEPT ![c] = TRUE]
              /\ UNCHANGED reconnect_event,
           UNCHANGED <<link, socket, held, contended>>
    PROVE  Control'
<1> USE ConstantsAssumption DEF TypeOK, HandingOver, Session
<1>1. \/ receive[c] = "reset" /\ receive'[c] = "mark"
      \/ receive[c] = "mark" /\ receive'[c] = "wait"
  OBVIOUS
<1>2. \A d \in Client \ {c} : /\ receive'[d] = receive[d]
                              /\ reconnect_event'[d] = reconnect_event[d]
                              /\ waiting_reconnect'[d] = waiting_reconnect[d]
  OBVIOUS
<1>3. receive[c] = "reset" => ~reconnect_event'[c] /\ waiting_reconnect'[c] = waiting_reconnect[c]
  <2> SUFFICES ASSUME receive[c] = "reset" PROVE ~reconnect_event'[c] /\ waiting_reconnect' = waiting_reconnect
    OBVIOUS
  <2>1. reconnect_event' = [reconnect_event EXCEPT ![c] = FALSE]
    OBVIOUS
  <2>2. ~reconnect_event'[c]
    BY <2>1
  <2> QED
    BY <2>2
<1>4. receive[c] = "mark" => reconnect_event' = reconnect_event
  OBVIOUS
<1>5. HeldWhileHandingOver'
  <2> SUFFICES ASSUME NEW d \in Client
               PROVE  /\ held[d] # None <=> receive'[d] \in HandingOver
                      /\ held[d] # None => receive'[held[d]] \in Session \cup {"leaving", "gone"}
                      /\ waiting_reconnect'[d] => receive'[d] \in Session \cup {"leaving", "gone"}
    BY Zenon DEF HeldWhileHandingOver
  <2>1. held[d] # None <=> receive'[d] \in HandingOver
    BY <1>1, <1>2 DEF Control, HeldWhileHandingOver
  <2>2. held[d] # None => receive'[held[d]] \in Session \cup {"leaving", "gone"}
    <3> SUFFICES ASSUME held[d] # None PROVE receive'[held[d]] \in Session \cup {"leaving", "gone"}
      OBVIOUS
    <3>1. held[d] \in Client /\ receive[held[d]] \in Session \cup {"leaving", "gone"}
      BY DEF Control, HeldWhileHandingOver
    <3> QED
      BY <1>1, <1>2, <3>1
  <2>3. waiting_reconnect'[d] => receive'[d] \in Session \cup {"leaving", "gone"}
    <3>1. waiting_reconnect[d] => receive[d] \in Session \cup {"leaving", "gone"}
      BY Zenon DEF Control, HeldWhileHandingOver
    <3>2. CASE d = c
      BY <1>1, <3>2
    <3>3. CASE d # c
      BY <1>2, <3>1, <3>3
    <3> QED
      BY <3>2, <3>3
  <2> QED
    BY <2>1, <2>2, <2>3
<1>6. OneHandOver' /\ LinksExist'
  BY <1>1, <1>2 DEF Control, OneHandOver, LinksExist
<1>7. \A d \in Client : Connected(d)' <=> Connected(d)
  BY DEF Connected
<1>8. ~contended => /\ ~Connected(c)
                    /\ receive[c] = "mark" => ~reconnect_event[c]
  BY <1>1 DEF Control, LossIsMarked
<1>9. LossIsMarked'
  <2> SUFFICES ASSUME ~contended, NEW d \in Client
               PROVE  /\ receive'[d] \in {"reset", "mark"} => ~Connected(d)
                      /\ receive'[d] = "mark" => ~reconnect_event'[d]
    BY <1>7 DEF LossIsMarked
  <2>1. CASE d = c
    BY <1>1, <1>3, <1>8, <2>1
  <2>2. CASE d # c
    BY <1>2, <2>2 DEF Control, LossIsMarked
  <2> QED
    BY <2>1, <2>2
<1>10. \A d \in Client \ {c} : Sleeps(d)' <=> Sleeps(d)
  BY <1>2 DEF Sleeps
<1>11. WokenWhenConnected'
  <2> SUFFICES ASSUME NEW d \in Client, receive'[d] = "wait", Connected(d), ~contended,
                      ~reconnect_event'[d]
               PROVE  \E new \in Client : held[new] = d /\ receive'[new] = "copy"
    BY <1>7 DEF WokenWhenConnected
  <2>1. d # c
    BY <1>8
  <2>2. PICK new \in Client : held[new] = d /\ receive[new] = "copy"
    BY <1>2, <2>1 DEF Control, WokenWhenConnected
  <2> QED
    BY <1>1, <1>2, <2>2
<1>12. FoundSleep'
  <2> SUFFICES ASSUME ~contended, NEW d \in Client
               PROVE  /\ waiting_reconnect'[d] /\ (\A new \in Client : held[new] # d) => Sleeps(d)'
                      /\ receive'[d] \in {"terminate", "join", "copy"} => Sleeps(held[d])'
    BY DEF FoundSleep
  <2>1. ~Sleeps(c)
    BY <1>1 DEF Sleeps
  <2>2. ASSUME waiting_reconnect'[d], \A new \in Client : held[new] # d PROVE Sleeps(d)'
    <3>1. CASE d # c
      BY <1>2, <1>10, <2>2, <3>1 DEF Control, FoundSleep
    <3>2. CASE d = c /\ receive[c] = "mark"
      <4>1. receive'[c] = "wait" /\ ~reconnect_event'[c]
        BY <1>1, <1>4, <1>8, <3>2
      <4> QED
        BY <3>2, <4>1 DEF Sleeps
    <3>3. CASE d = c /\ receive[c] = "reset"
      <4>1. waiting_reconnect[c]
        BY <1>3, <2>2, <3>3
      <4> QED
        BY <2>1, <2>2, <3>3, <4>1 DEF Control, FoundSleep
    <3> QED
      BY <1>1, <3>1, <3>2, <3>3
  <2>3. ASSUME receive'[d] \in {"terminate", "join", "copy"} PROVE Sleeps(held[d])'
    <3>1. d # c /\ Sleeps(held[d]) /\ held[d] \in Client
      BY <1>1, <1>2, <2>3 DEF Control, FoundSleep, HeldWhileHandingOver
    <3> QED
      BY <1>2, <2>1, <3>1 DEF Sleeps
  <2> QED
    BY <2>2, <2>3
<1> QED
  BY <1>5, <1>6, <1>9, <1>11, <1>12 DEF Control

\* The inductive step of IInv.
LEMMA ControlStep == ASSUME TypeOK, Control, [Next]_vars PROVE Control'
<1>1. ASSUME NEW c \in Client, push_string(c) \/ server_to_client(c) PROVE Control'
  BY <1>1, ControlStutter DEF push_string, server_to_client, TerminateSeen, Send, SendFails, Wakes,
     flags, control
<1>2. ASSUME GoesWrong PROVE Control'
  BY <1>2, ControlStutter DEF GoesWrong, flags, control
<1>3. ASSUME NEW c \in Client, Proceeds(c) PROVE Control'
  <2>1. CASE LoginFails(c) \/ TerminateSender(c)
    BY <2>1, ControlLogin
  <2>2. CASE set_socket(c)
    BY <1>2, <2>2, ControlSetSocket DEF set_socket, At, Goto
  <2>3. CASE CopyString(c)
    BY <1>2, <2>3, ControlStutter DEF CopyString, flags, control
  <2>4. CASE SetReconnect(c)
    BY <1>2, <2>4, ControlSetReconnect DEF SetReconnect, At, Goto, Set
  <2>5. CASE Unmark(c)
    BY <1>2, <2>5, ControlUnmark DEF Unmark, At, Goto, Reset
  <2>6. CASE RecvFails(c) \/ Reconnected(c) \/ ReconnectTimeout(c)
    BY <2>6, ControlMove DEF RecvFails, Reconnected, ReconnectTimeout, At, Goto, flags
  <2>7. CASE ResetReconnect(c) \/ MarkWaiting(c)
    BY <2>7, ControlMark DEF ResetReconnect, MarkWaiting, At, Goto, Set, Reset
  <2>8. CASE Cleanup(c)
    <3>1. /\ receive[c] = "leaving" /\ receive' = [receive EXCEPT ![c] = "gone"]
          /\ link' = [link EXCEPT ![socket[c]] = "broken"]
          /\ UNCHANGED <<socket, held, waiting_reconnect, reconnect_event, contended>>
      BY <2>8 DEF Cleanup, At, Goto, flags
    <3>2. socket[c] \in Client /\ link[socket[c]] # "none"
      BY <3>1 DEF Control, LinksExist, TypeOK
    <3> QED
      BY <3>1, <3>2, ControlLoss
  <2> QED
    BY <1>3, <2>1, <2>2, <2>3, <2>4, <2>5, <2>6, <2>7, <2>8 DEF Proceeds
<1>4. ASSUME NEW c \in Client, NicknameAccepted(c) \/ PasswordAccepted(c) \/ RangeError(c)
      PROVE  Control'
  BY <1>4, ControlLogin
<1>5. ASSUME NEW c \in Client, Break(c) PROVE Control'
  BY <1>5, ControlLoss DEF Break, flags
<1>6. CASE UNCHANGED vars
  BY <1>6, ControlStutter DEF vars, flags, control
<1> QED
  BY <1>1, <1>3, <1>4, <1>5, <1>6 DEF Next, client_to_server

\* IInv is an invariant of SendQueue.
THEOREM IInvCorrect == Spec => []IInv
<1>1. Init => TypeOK /\ Control
  <2> SUFFICES ASSUME Init PROVE TypeOK /\ Control
    OBVIOUS
  <2>1. TypeOK
    BY InitTypes
  <2>2. /\ \A c \in Client : receive[c] = "none" /\ held[c] = None /\ link[c] = "none" /\ socket[c] = c
        /\ \A c \in Client : ~waiting_reconnect[c]
    BY DEF Init
  <2>3. \A c, d \in Client : held[d] # c
    BY <2>2, ConstantsAssumption
  <2>4. HeldWhileHandingOver
    <3>1. \A c \in Client : receive[c] \notin HandingOver
      BY <2>2 DEF HandingOver
    <3> QED
      BY <2>2, <3>1, Zenon DEF HeldWhileHandingOver
  <2>5. OneHandOver /\ LinksExist /\ LossIsMarked /\ WokenWhenConnected
    BY <2>2 DEF OneHandOver, LinksExist, LossIsMarked, WokenWhenConnected
  <2>6. FoundSleep
    <3>1. \A c \in Client : receive[c] \notin {"terminate", "join", "copy"}
      BY <2>2
    <3> QED
      BY <2>2, <3>1, Zenon DEF FoundSleep
  <2> QED
    BY <2>1, <2>4, <2>5, <2>6 DEF Control
<1>2. TypeOK /\ Control /\ [Next]_vars => (TypeOK /\ Control)'
  BY TypeStep, ControlStep
<1>3. TypeOK /\ Control => IInv
  BY DEF Control, IInv
<1> QED
  BY <1>1, <1>2, <1>3, PTL DEF Spec

\* Nobody waits for a reconnect that has already come: the event of a receive thread
\* that waits with a connection that is up is set, or is about to be.
THEOREM WokenCorrect == Spec => []WokenWhenConnected
<1>1. IInv => WokenWhenConnected
  BY DEF IInv
<1> QED
  BY <1>1, IInvCorrect, PTL

-----------------------------------------------------------------------------
(* The strings of a queue.                                                 *)

LEMMA ElementsType ==
    ASSUME NEW q \in Seq(String)
    PROVE  /\ Elements(q) \subseteq String
           /\ \A s \in Elements(q) : s[1] \in Client /\ s[2] \in Nat \ {0} /\ s = <<s[1], s[2]>>
<1>1. Elements(q) \subseteq String
  BY ElementOfSeq DEF Elements
<1>2. \A s \in String : s[1] \in Client /\ s[2] \in Nat \ {0} /\ s = <<s[1], s[2]>>
  BY ConstantsAssumption DEF String
<1> QED
  BY <1>1, <1>2

LEMMA EmptyElements == Elements(<<>>) = {} /\ InOrder(<<>>)
BY DEF Elements, InOrder

\* What is left when the first string is taken: all but that one, and what was pushed to
\* the same client is younger.
LEMMA TailElements ==
    ASSUME NEW q \in Seq(String), q # <<>>, InOrder(q)
    PROVE  /\ Head(q) \in Elements(q)
           /\ Elements(Tail(q)) = Elements(q) \ {Head(q)}
           /\ InOrder(Tail(q))
           /\ \A t \in Elements(Tail(q)) : t[1] = Head(q)[1] => Head(q)[2] < t[2]
<1> DEFINE r == Tail(q)
<1>1. /\ Head(q) = q[1]
      /\ Len(q) \in Nat \ {0}
      /\ Len(r) = Len(q) - 1
      /\ \A i \in 1 .. Len(r) : r[i] = q[i + 1]
  BY HeadTailProperties, EmptySeq
<1> HIDE DEF r
<1>2. \A i \in 1 .. Len(q) : q[i] \in String /\ q[i][2] \in Nat
  BY ElementOfSeq, ConstantsAssumption DEF String
<1>3. \A t \in Elements(r) : t \in Elements(q) /\ (t[1] = q[1][1] => q[1][2] < t[2])
  <2> SUFFICES ASSUME NEW i \in 1 .. Len(r)
               PROVE  r[i] \in Elements(q) /\ (r[i][1] = q[1][1] => q[1][2] < r[i][2])
    BY DEF Elements
  <2>1. i + 1 \in 1 .. Len(q) /\ 1 \in 1 .. Len(q) /\ 1 < i + 1 /\ r[i] = q[i + 1]
    BY <1>1
  <2> QED
    BY <2>1 DEF InOrder, Elements
<1>4. \A t \in Elements(q) : t # q[1] => t \in Elements(r)
  <2> SUFFICES ASSUME NEW i \in 1 .. Len(q), q[i] # q[1] PROVE q[i] \in Elements(r)
    BY DEF Elements
  <2>1. i - 1 \in 1 .. Len(r) /\ i - 1 + 1 = i
    BY <1>1
  <2>2. r[i - 1] = q[i]
    BY <1>1, <2>1
  <2> QED
    BY <2>1, <2>2 DEF Elements
<1>5. q[1] \in Elements(q)
  BY <1>1 DEF Elements
<1>6. q[1] \notin Elements(r)
  <2>1. 1 \in 1 .. Len(q)
    BY <1>1
  <2>2. q[1][2] \in Nat
    BY <1>2, <2>1
  <2> QED
    BY <1>3, <2>2
<1>7. InOrder(r)
  <2> SUFFICES ASSUME NEW i \in 1 .. Len(r), NEW j \in 1 .. Len(r), i < j, r[i][1] = r[j][1]
               PROVE  r[i][2] < r[j][2]
    BY DEF InOrder
  <2>1. i + 1 \in 1 .. Len(q) /\ j + 1 \in 1 .. Len(q) /\ i + 1 < j + 1
    BY <1>1
  <2>2. r[i] = q[i + 1] /\ r[j] = q[j + 1]
    BY <1>1
  <2> QED
    BY <2>1, <2>2 DEF InOrder
<1>8. Elements(r) = Elements(q) \ {q[1]}
  BY <1>3, <1>4, <1>6
<1> QED
  BY <1>1, <1>3, <1>5, <1>7, <1>8 DEF r

LEMMA AppendElements ==
    ASSUME NEW q \in Seq(String), NEW s \in String
    PROVE  /\ Elements(Append(q, s)) = Elements(q) \cup {s}
           /\ InOrder(q) /\ (\A t \in Elements(q) : t[1] = s[1] => t[2] < s[2]) =>
                 InOrder(Append(q, s))
<1> DEFINE r == Append(q, s)
<1>1. /\ Len(q) \in Nat
      /\ Len(r) = Len(q) + 1
      /\ \A i \in 1 .. Len(q) : r[i] = q[i]
      /\ r[Len(q) + 1] = s
  BY AppendProperties, LenProperties
<1> HIDE DEF r
<1>2. Elements(r) = Elements(q) \cup {s}
  <2>1. \A i \in 1 .. Len(r) : i \in 1 .. Len(q) \/ i = Len(q) + 1
    BY <1>1
  <2>2. 1 .. Len(q) \subseteq 1 .. Len(r) /\ Len(q) + 1 \in 1 .. Len(r)
    BY <1>1
  <2>3. Elements(r) \subseteq Elements(q) \cup {s}
    BY <1>1, <2>1 DEF Elements
  <2>4. Elements(q) \subseteq Elements(r)
    <3> SUFFICES ASSUME NEW i \in 1 .. Len(q) PROVE q[i] \in Elements(r)
      BY DEF Elements
    <3>1. i \in 1 .. Len(r) /\ r[i] = q[i]
      BY <1>1, <2>2
    <3> QED
      BY <3>1 DEF Elements
  <2>5. s \in Elements(r)
    BY <1>1, <2>2 DEF Elements
  <2> QED
    BY <2>3, <2>4, <2>5
<1>3. ASSUME InOrder(q), \A t \in Elements(q) : t[1] = s[1] => t[2] < s[2]
      PROVE  InOrder(r)
  <2> SUFFICES ASSUME NEW i \in 1 .. Len(r), NEW j \in 1 .. Len(r), i < j, r[i][1] = r[j][1]
               PROVE  r[i][2] < r[j][2]
    BY DEF InOrder
  <2>1. i \in 1 .. Len(q) /\ r[i] = q[i]
    BY <1>1
  <2>2. CASE j \in 1 .. Len(q)
    BY <1>1, <1>3, <2>1, <2>2 DEF InOrder
  <2>3. CASE j \notin 1 .. Len(q)
    <3>1. r[j] = s
      BY <1>1, <2>3
    <3>2. q[i] \in Elements(q)
      BY <2>1 DEF Elements
    <3> QED
      BY <1>3, <2>1, <3>1, <3>2
  <2> QED
    BY <2>2, <2>3
<1> QED
  BY <1>2, <1>3 DEF r

LEMMA PushElements ==
    ASSUME TypeOK, NEW c \in Client, NEW n \in Nat, PushMany(c, n)
    PROVE  /\ Elements(queue'[c]) = Elements(queue[c]) \cup {<<c, pushed[c] + i>> : i \in 1 .. n}
           /\ InOrder(queue[c]) /\ (\A t \in Elements(queue[c]) : t[1] = c => t[2] <= pushed[c]) =>
                 InOrder(queue'[c])
<1> DEFINE q == queue[c]
           r == queue'[c]
           p == pushed[c]
<1>1. /\ q \in Seq(String) /\ Len(q) \in Nat /\ p \in Nat
      /\ Len(r) = Len(q) + n
      /\ \A i \in 1 .. Len(q) : r[i] = q[i]
      /\ \A i \in 1 .. n : r[Len(q) + i] = <<c, p + i>>
  BY PushManyType, LenProperties, ConstantsAssumption DEF TypeOK
<1> HIDE DEF q, r, p
<1>2. \A j \in 1 .. Len(r) : j \in 1 .. Len(q) \/ \E i \in 1 .. n : j = Len(q) + i
  <2> TAKE j \in 1 .. Len(r)
  <2>1. j \notin 1 .. Len(q) => j - Len(q) \in 1 .. n /\ j = Len(q) + (j - Len(q))
    BY <1>1
  <2> QED
    BY <2>1
<1>3. /\ \A i \in 1 .. Len(q) : i \in 1 .. Len(r)
      /\ \A i \in 1 .. n : Len(q) + i \in 1 .. Len(r)
  BY <1>1
<1>4. Elements(r) = Elements(q) \cup {<<c, p + i>> : i \in 1 .. n}
  <2>1. ASSUME NEW j \in 1 .. Len(r) PROVE r[j] \in Elements(q) \cup {<<c, p + i>> : i \in 1 .. n}
    BY <1>1, <1>2, <2>1 DEF Elements
  <2>2. ASSUME NEW i \in 1 .. Len(q) PROVE q[i] \in Elements(r)
    <3>1. i \in 1 .. Len(r) /\ r[i] = q[i]
      BY <1>1, <1>3
    <3> QED
      BY <3>1 DEF Elements
  <2>3. ASSUME NEW i \in 1 .. n PROVE <<c, p + i>> \in Elements(r)
    <3>1. Len(q) + i \in 1 .. Len(r) /\ r[Len(q) + i] = <<c, p + i>>
      BY <1>1, <1>3
    <3> QED
      BY <3>1 DEF Elements
  <2>4. Elements(r) \subseteq Elements(q) \cup {<<c, p + i>> : i \in 1 .. n}
    BY <2>1 DEF Elements
  <2>5. Elements(q) \subseteq Elements(r)
    BY <2>2 DEF Elements
  <2> QED
    BY <2>3, <2>4, <2>5
<1>5. ASSUME InOrder(q), \A t \in Elements(q) : t[1] = c => t[2] <= p
      PROVE  InOrder(r)
  <2> SUFFICES ASSUME NEW i \in 1 .. Len(r), NEW j \in 1 .. Len(r), i < j, r[i][1] = r[j][1]
               PROVE  r[i][2] < r[j][2]
    BY DEF InOrder
  <2>1. CASE j \in 1 .. Len(q)
    <3>1. i \in 1 .. Len(q) /\ r[i] = q[i] /\ r[j] = q[j]
      BY <1>1, <2>1
    <3> QED
      BY <1>5, <2>1, <3>1 DEF InOrder
  <2>2. CASE i \in 1 .. Len(q) /\ j \notin 1 .. Len(q)
    <3>1. PICK m \in 1 .. n : j = Len(q) + m
      BY <1>2, <2>2
    <3>2. r[j] = <<c, p + m>> /\ r[i] = q[i] /\ q[i] \in Elements(q)
      BY <1>1, <2>2, <3>1 DEF Elements
    <3>3. q[i] \in String
      BY <1>1, <2>2, ElementOfSeq
    <3>4. q[i][2] \in Nat /\ q[i][2] <= p
      BY <1>5, <3>2, <3>3, ConstantsAssumption DEF String
    <3> QED
      BY <1>1, <3>1, <3>2, <3>4
  <2>3. CASE i \notin 1 .. Len(q)
    <3>1. PICK m \in 1 .. n : i = Len(q) + m
      BY <1>2, <2>3
    <3>2. j \notin 1 .. Len(q)
      BY <1>1, <2>3
    <3>3. PICK k \in 1 .. n : j = Len(q) + k
      BY <1>2, <3>2
    <3>4. r[i] = <<c, p + m>> /\ r[j] = <<c, p + k>> /\ m < k
      BY <1>1, <3>1, <3>3
    <3> QED
      BY <1>1, <3>4
  <2> QED
    BY <2>1, <2>2, <2>3
<1> QED
  BY <1>4, <1>5 DEF q, r, p

-----------------------------------------------------------------------------
(* Where a queued string can be.                                           *)

LEMMA QueueType ==
    ASSUME TypeOK
    PROVE  \A c \in Client :
              /\ queue[c] \in Seq(String)
              /\ Elements(queue[c]) \subseteq String
              /\ \A s \in Elements(queue[c]) :
                    s[1] \in Client /\ s[2] \in Nat \ {0} /\ s = <<s[1], s[2]>>
<1>1. \A c \in Client : queue[c] \in Seq(String)
  BY DEF TypeOK
<1> QED
  BY <1>1, ElementsType

\* A string is in one queue at most.
LEMMA Disjoint ==
    ASSUME TypeOK, Copied, NEW d \in Client, NEW e \in Client, d # e
    PROVE  Elements(queue[d]) \cap Elements(queue[e]) = {}
<1> SUFFICES ASSUME NEW s \in Elements(queue[d]), s \in Elements(queue[e]) PROVE FALSE
  OBVIOUS
<1>1. s[1] \in Client /\ s[2] \in Nat
  BY QueueType
<1>2. CASE s[1] = d
  BY <1>1, <1>2 DEF Copied
<1>3. CASE s[1] = e
  BY <1>1, <1>3 DEF Copied
<1>4. CASE s[1] # d /\ s[1] # e
  <2>1. e \in Client \ {s[1], d}
    BY <1>4
  <2> QED
    BY <1>1, <1>4, <2>1 DEF Copied
<1> QED
  BY <1>2, <1>3, <1>4

\* A client that hands over, and one that has not got so far, holds its own strings only.
LEMMA OwnStrings ==
    ASSUME TypeOK, Copied, NEW c \in Client, receive[c] \notin Session \cup {"leaving", "gone"}
    PROVE  \A s \in Elements(queue[c]) : s[1] = c
<1> SUFFICES ASSUME NEW s \in Elements(queue[c]), s[1] # c PROVE FALSE
  OBVIOUS
<1>1. s[1] \in Client
  BY QueueType
<1> QED
  BY <1>1 DEF Copied

\* While the send thread of a client has not ended, its strings are in its own queue.
LEMMA SendersStrings ==
    ASSUME TypeOK, Copied, JoinedBeforeCopy, NEW c \in Client, sender[c] # "ended"
    PROVE  \A d \in Client \ {c} : \A s \in Elements(queue[d]) : s[1] # c
BY DEF Copied, JoinedBeforeCopy

-----------------------------------------------------------------------------
(* The queues stay as they are.                                            *)

\* A receive thread goes on: what it has begun to copy it goes on copying to the same
\* client, and a session remains one until the client is left.
Onward ==
    \A c \in Client :
        /\ receive[c] \in {"copy", "unmark", "gone"} =>
              /\ receive'[c] \in {"copy", "unmark", "gone"}
              /\ receive'[c] = "copy" => receive[c] = "copy" /\ held'[c] = held[c]
        /\ receive[c] \in Session \cup {"leaving", "gone"} =>
              receive'[c] \in Session \cup {"leaving", "gone"}

LEMMA QueueMove ==
    ASSUME QueueInv, Onward, JoinedBeforeCopy', UNCHANGED strings
    PROVE  QueueInv'
<1>1. queue' = queue /\ pushed' = pushed /\ sent' = sent /\ discarded' = discarded
  BY DEF strings
<1>2. QueuesInOrder'
  BY <1>1 DEF QueueInv, QueuesInOrder, InOrder
<1>3. \A s : Strings!IsSent(s)' <=> Strings!IsSent(s)
  BY <1>1 DEF Strings!IsSent
<1>4. \A s : Strings!IsPending(s)' <=> Strings!IsPending(s)
  BY <1>1, <1>3 DEF Strings!IsPending
<1>5. \A c : Elements(queue[c])' = Elements(queue[c])
  BY <1>1 DEF Elements
<1>6. QueuedIsPending'
  BY <1>4, <1>5 DEF QueueInv, QueuedIsPending
<1>7. PendingIsQueued'
  BY <1>4, <1>5 DEF QueueInv, PendingIsQueued
<1>8. OncePushed'
  BY <1>1, <1>3 DEF QueueInv, OncePushed
<1>9. Copied'
  <2> SUFFICES ASSUME NEW c \in Client, NEW d \in Client, NEW s \in Elements(queue[d]), s[1] = c, d # c
               PROVE  /\ receive'[c] \in {"copy", "unmark", "gone"}
                      /\ receive'[c] = "copy" => held'[c] = d
                      /\ receive'[d] \in Session \cup {"leaving", "gone"}
                      /\ \A t \in Elements(queue[c]) : t[1] = c => s[2] < t[2]
                      /\ \A e \in Client \ {c, d} : \A t \in Elements(queue[e]) : t[1] # c
    BY <1>5 DEF Copied, Session
  <2>1. /\ receive[c] \in {"copy", "unmark", "gone"}
        /\ receive[c] = "copy" => held[c] = d
        /\ receive[d] \in Session \cup {"leaving", "gone"}
        /\ \A t \in Elements(queue[c]) : t[1] = c => s[2] < t[2]
        /\ \A e \in Client \ {c, d} : \A t \in Elements(queue[e]) : t[1] # c
    BY DEF QueueInv, Copied
  <2> QED
    BY <2>1 DEF Onward
<1> QED
  BY <1>2, <1>6, <1>7, <1>8, <1>9 DEF QueueInv

\* Every step is onward.
LEMMA OnwardStep == ASSUME TypeOK, Next PROVE Onward
<1> USE DEF Session, At, Goto
<1>1. PICK c \in Client : push_string(c) \/ server_to_client(c) \/ client_to_server(c) \/ Break(c)
  BY DEF Next
<1>2. ASSUME UNCHANGED <<receive, held>> PROVE Onward
  BY <1>2 DEF Onward
<1>3. CASE push_string(c) \/ server_to_client(c) \/ Break(c)
  BY <1>2, <1>3 DEF push_string, server_to_client, TerminateSeen, Send, SendFails, Wakes, Break
<1>4. ASSUME NEW place, receive' = [receive EXCEPT ![c] = place],
             \A d \in Client \ {c} : held'[d] = held[d],
             \/ receive[c] \in {"none", "password", "terminate", "join"}
             \/ receive[c] = "copy" /\ place = "unmark"
             \/ receive[c] = "unmark" /\ place = "gone"
             \/ receive[c] \in Session /\ place \in Session \cup {"leaving"}
             \/ receive[c] = "leaving" /\ place = "gone"
      PROVE  Onward
  <2>1. receive'[c] = place /\ \A d \in Client \ {c} : receive'[d] = receive[d]
    BY <1>4 DEF TypeOK
  <2> QED
    BY <1>4, <2>1 DEF Onward
<1>5. CASE NicknameAccepted(c)
  BY <1>4, <1>5 DEF NicknameAccepted
<1>6. CASE PasswordAccepted(c)
  <2>1. receive[c] = "password" /\ \A d \in Client \ {c} : held'[d] = held[d]
    BY <1>6 DEF PasswordAccepted, TypeOK
  <2>2. \E place : receive' = [receive EXCEPT ![c] = place]
    BY <1>6 DEF PasswordAccepted
  <2> QED
    BY <1>4, <2>1, <2>2
<1>8. CASE RangeError(c)
  BY <1>4, <1>8 DEF RangeError
<1>7. CASE Proceeds(c)
  <2>1. CASE GoesWrong
    BY <1>2, <2>1 DEF GoesWrong
  <2>2. CASE LoginFails(c) \/ TerminateSender(c)
    BY <1>4, <2>2 DEF LoginFails, TerminateSender
  <2>3. CASE set_socket(c) \/ CopyString(c) \/ SetReconnect(c)
    BY <1>2, <1>4, <2>1, <2>3 DEF set_socket, CopyString, SetReconnect
  <2>4. CASE Unmark(c)
    <3>1. CASE ~OldClientGone(c)
      <4>1. receive[c] = "unmark" /\ receive' = [receive EXCEPT ![c] = "gone"]
            /\ held' = [held EXCEPT ![c] = None]
        BY <2>4, <3>1 DEF Unmark
      <4>2. \A d \in Client \ {c} : held'[d] = held[d]
        BY <4>1 DEF TypeOK
      <4> QED
        BY <1>4, <4>1, <4>2
    <3> QED
      BY <2>1, <2>4, <3>1 DEF Unmark
  <2>5. CASE RecvFails(c) \/ ResetReconnect(c) \/ MarkWaiting(c)
    BY <1>4, <2>5 DEF RecvFails, ResetReconnect, MarkWaiting
  <2>6. CASE Reconnected(c) \/ ReconnectTimeout(c)
    BY <1>4, <2>6 DEF Reconnected, ReconnectTimeout
  <2>7. CASE Cleanup(c)
    BY <1>4, <2>7 DEF Cleanup
  <2> QED
    BY <1>7, <2>2, <2>3, <2>4, <2>5, <2>6, <2>7 DEF Proceeds
<1> QED
  BY <1>1, <1>3, <1>5, <1>6, <1>7, <1>8 DEF client_to_server

\* The send thread of a client that copies has ended, and does not begin again.
LEMMA JoinedStep == ASSUME TypeOK, JoinedBeforeCopy, Next PROVE JoinedBeforeCopy'
<1> USE DEF Session, At, Sender, Goto
<1>1. PICK c \in Client : push_string(c) \/ server_to_client(c) \/ client_to_server(c) \/ Break(c)
  BY DEF Next
<1>2. ASSUME UNCHANGED <<receive, sender>> PROVE JoinedBeforeCopy'
  BY <1>2 DEF JoinedBeforeCopy
<1>3. CASE push_string(c) \/ Send(c) \/ Break(c)
  BY <1>2, <1>3 DEF push_string, Send, Break
<1>4. CASE TerminateSeen(c) \/ SendFails(c) \/ Wakes(c)
  <2>1. sender[c] # "ended" /\ receive' = receive /\ \A d \in Client \ {c} : sender'[d] = sender[d]
    BY <1>4 DEF TerminateSeen, SendFails, Wakes, TypeOK
  <2> QED
    BY <2>1 DEF JoinedBeforeCopy
<1>5. ASSUME NEW place, receive' = [receive EXCEPT ![c] = place], sender' = sender,
             \/ place \notin {"copy", "unmark", "gone"}
             \/ sender[c] = "ended"
             \/ receive[c] \in {"copy", "unmark"}
      PROVE  JoinedBeforeCopy'
  <2>1. receive'[c] = place /\ \A d \in Client \ {c} : receive'[d] = receive[d]
    BY <1>5 DEF TypeOK
  <2> QED
    BY <1>5, <2>1 DEF JoinedBeforeCopy
<1>6. CASE NicknameAccepted(c)
  <2>1. receive'[c] = "password" /\ \A d \in Client \ {c} : receive'[d] = receive[d] /\ sender'[d] = sender[d]
    BY <1>6 DEF NicknameAccepted, TypeOK
  <2> QED
    BY <2>1 DEF JoinedBeforeCopy
<1>7. CASE PasswordAccepted(c)
  <2>1. sender' = sender /\ \E place \in {"terminate", "recv"} : receive' = [receive EXCEPT ![c] = place]
    BY <1>7 DEF PasswordAccepted
  <2> QED
    BY <1>5, <2>1
<1>9. CASE RangeError(c)
  BY <1>5, <1>9 DEF RangeError
<1>8. CASE Proceeds(c)
  <2>1. CASE GoesWrong
    BY <1>2, <2>1 DEF GoesWrong
  <2>2. CASE LoginFails(c) \/ TerminateSender(c)
    BY <1>5, <2>2 DEF LoginFails, TerminateSender
  <2>3. CASE set_socket(c) \/ CopyString(c) \/ SetReconnect(c)
    BY <1>2, <1>5, <2>1, <2>3 DEF set_socket, SenderStopped, CopyString, SetReconnect
  <2>4. CASE Unmark(c)
    BY <1>5, <2>1, <2>4 DEF Unmark
  <2>5. CASE RecvFails(c) \/ ResetReconnect(c) \/ MarkWaiting(c)
    BY <1>5, <2>5 DEF RecvFails, ResetReconnect, MarkWaiting
  <2>6. CASE Reconnected(c) \/ ReconnectTimeout(c)
    BY <1>5, <2>6 DEF Reconnected, ReconnectTimeout
  <2>7. CASE Cleanup(c)
    BY <1>5, <2>7 DEF Cleanup, SenderStopped
  <2> QED
    BY <1>8, <2>2, <2>3, <2>4, <2>5, <2>6, <2>7 DEF Proceeds
<1> QED
  BY <1>1, <1>3, <1>4, <1>6, <1>7, <1>8, <1>9 DEF server_to_client, client_to_server

-----------------------------------------------------------------------------
(* A string is pushed, sent, copied, discarded.                            *)

\* Pushed strings go to the end of the queue of their client, and are a push of Delivery.
LEMMA QueuePush ==
    ASSUME TypeOK, TypeOK', QueueInv, Onward, JoinedBeforeCopy',
           NEW c \in Client, NEW n \in Nat \ {0}, PushMany(c, n),
           UNCHANGED <<sent, discarded>>
    PROVE  QueueInv' /\ Strings!Push(c)
<1> DEFINE new == {<<c, pushed[c] + i>> : i \in 1 .. n}
<1>1. /\ pushed' = [pushed EXCEPT ![c] = pushed[c] + n]
      /\ \A d \in Client \ {c} : queue'[d] = queue[d]
      /\ pushed[c] \in Nat /\ pushed[c] + n <= MaxStrings /\ MaxStrings \in Nat
  BY PushManyType, ConstantsAssumption DEF PushMany, TypeOK
<1>2. /\ \A d \in Client : pushed[d] \in Nat /\ pushed'[d] \in Nat /\ pushed[d] <= pushed'[d]
      /\ pushed'[c] = pushed[c] + n
      /\ \A d \in Client \ {c} : pushed'[d] = pushed[d]
  BY <1>1, ConstantsAssumption DEF TypeOK
<1>3. \A d \in Client : \A s \in Elements(queue[d]) :
         /\ s \in String /\ s[1] \in Client /\ s[2] \in Nat \ {0} /\ s = <<s[1], s[2]>>
         /\ Strings!IsPending(s) /\ s[2] <= pushed[s[1]]
  BY QueueType DEF QueueInv, QueuedIsPending, Strings!IsPending
<1>4. /\ Elements(queue[c])' = Elements(queue[c]) \cup new
      /\ InOrder(queue[c])'
  <2>1. InOrder(queue[c]) /\ \A t \in Elements(queue[c]) : t[1] = c => t[2] <= pushed[c]
    BY <1>3 DEF QueueInv, QueuesInOrder
  <2>2. /\ Elements(queue'[c]) = Elements(queue[c]) \cup new
        /\ InOrder(queue'[c])
    BY <2>1, PushElements
  <2> QED
    BY <2>2 DEF Elements, InOrder
<1>5. \A d \in Client \ {c} :
         /\ Elements(queue[d])' = Elements(queue[d])
         /\ InOrder(queue[d])' <=> InOrder(queue[d])
  BY <1>1 DEF Elements, InOrder
<1>6. \A s \in new : /\ s \in String /\ s[1] = c /\ s[2] \in Nat
                     /\ pushed[c] < s[2] /\ s[2] <= pushed[c] + n
  BY <1>1 DEF String
<1> HIDE DEF new
<1>7. \A s : Strings!IsSent(s)' <=> Strings!IsSent(s)
  BY DEF Strings!IsSent
<1>8. \A s : Strings!IsPending(s)' <=> s[2] <= pushed'[s[1]] /\ ~Strings!IsSent(s) /\ s \notin discarded
  BY <1>7 DEF Strings!IsPending
<1>9. QueuesInOrder'
  BY <1>4, <1>5 DEF QueueInv, QueuesInOrder
<1>10. QueuedIsPending'
  <2>1. ASSUME NEW d \in Client, NEW s \in Elements(queue[d]) PROVE Strings!IsPending(s)'
    <3>1. /\ s[1] \in Client /\ s[2] \in Nat /\ s[2] <= pushed[s[1]]
          /\ ~Strings!IsSent(s) /\ s \notin discarded
      BY <1>3 DEF Strings!IsPending
    <3>2. s[2] <= pushed'[s[1]]
      BY <1>2, <3>1
    <3> QED
      BY <1>8, <3>1, <3>2
  <2>2. ASSUME NEW s \in new PROVE Strings!IsPending(s)'
    <3>1. ~(s[2] <= pushed[s[1]])
      BY <1>1, <1>6
    <3>2. ~Strings!IsSent(s) /\ s \notin discarded
      BY <1>6, <3>1 DEF QueueInv, OncePushed
    <3>3. s[2] <= pushed'[s[1]]
      BY <1>2, <1>6
    <3> QED
      BY <1>8, <3>2, <3>3
  <2> QED
    BY <1>4, <1>5, <2>1, <2>2 DEF QueuedIsPending
<1>11. PendingIsQueued'
  <2> SUFFICES ASSUME NEW s \in String, Strings!IsPending(s)'
               PROVE  \E d \in Client : s \in Elements(queue[d])'
    BY DEF PendingIsQueued
  <2>1. s[1] \in Client /\ s[2] \in Nat /\ s = <<s[1], s[2]>>
    BY DEF String
  <2>2. s[2] <= pushed'[s[1]] /\ ~Strings!IsSent(s) /\ s \notin discarded
    BY <1>8
  <2>3. CASE s[2] <= pushed[s[1]]
    <3>1. PICK d \in Client : s \in Elements(queue[d])
      BY <2>2, <2>3 DEF QueueInv, PendingIsQueued, Strings!IsPending
    <3> QED
      BY <1>4, <1>5, <3>1
  <2>4. CASE ~(s[2] <= pushed[s[1]])
    <3>1. s[1] = c
      BY <1>2, <2>1, <2>2, <2>4
    <3>2. s[2] - pushed[c] \in 1 .. n /\ s[2] = pushed[c] + (s[2] - pushed[c])
      BY <1>1, <1>2, <2>1, <2>2, <2>4, <3>1
    <3>3. s \in new
      BY <2>1, <3>1, <3>2 DEF new
    <3> QED
      BY <1>4, <3>3
  <2> QED
    BY <2>3, <2>4
<1>12. OncePushed'
  <2> SUFFICES ASSUME NEW s \in String, Strings!IsSent(s) \/ s \in discarded
               PROVE  s[2] <= pushed'[s[1]]
    BY <1>7 DEF OncePushed
  <2>1. s[1] \in Client /\ s[2] \in Nat
    BY DEF String
  <2>2. s[2] <= pushed[s[1]]
    BY DEF QueueInv, OncePushed
  <2> QED
    BY <1>2, <2>1, <2>2
<1>13. Copied'
  <2> SUFFICES ASSUME NEW b \in Client, NEW d \in Client, NEW s \in Elements(queue[d])', s[1] = b, d # b
               PROVE  /\ receive'[b] \in {"copy", "unmark", "gone"}
                      /\ receive'[b] = "copy" => held'[b] = d
                      /\ receive'[d] \in Session \cup {"leaving", "gone"}
                      /\ \A t \in Elements(queue[b])' : t[1] = b => s[2] < t[2]
                      /\ \A e \in Client \ {b, d} : \A t \in Elements(queue[e])' : t[1] # b
    BY DEF Copied, Session
  <2>1. s \in Elements(queue[d])
    BY <1>4, <1>5, <1>6
  <2>2. /\ receive[b] \in {"copy", "unmark", "gone"}
        /\ receive[b] = "copy" => held[b] = d
        /\ receive[d] \in Session \cup {"leaving", "gone"}
        /\ \A t \in Elements(queue[b]) : t[1] = b => s[2] < t[2]
        /\ \A e \in Client \ {b, d} : \A t \in Elements(queue[e]) : t[1] # b
    BY <2>1 DEF QueueInv, Copied
  <2>3. \A t \in Elements(queue[b])' : t[1] = b => s[2] < t[2]
    <3>1. ASSUME b = c, NEW t \in new PROVE s[2] < t[2]
      <4>1. s[2] \in Nat /\ s[2] <= pushed[c]
        BY <1>3, <2>1, <3>1
      <4>2. t[2] \in Nat /\ pushed[c] < t[2]
        BY <1>6, <3>1
      <4> QED
        BY <1>1, <4>1, <4>2
    <3> QED
      BY <1>4, <1>5, <2>2, <3>1
  <2>4. \A e \in Client \ {b, d} : \A t \in Elements(queue[e])' : t[1] # b
    BY <1>4, <1>5, <1>6, <2>2
  <2> QED
    BY <2>2, <2>3, <2>4 DEF Onward
<1>14. Strings!Push(c)
  <2>1. pushed[c] + n \in (pushed[c] + 1) .. MaxStrings
    BY <1>1
  <2> QED
    BY <1>1, <2>1 DEF Strings!Push
<1> QED
  BY <1>9, <1>10, <1>11, <1>12, <1>13, <1>14 DEF QueueInv

LEMMA CopiedShrinks ==
    ASSUME Copied, Onward, \A d \in Client : Elements(queue[d])' \subseteq Elements(queue[d])
    PROVE  Copied'
<1> SUFFICES ASSUME NEW c \in Client, NEW d \in Client, NEW s \in Elements(queue[d])', s[1] = c, d # c
             PROVE  /\ receive'[c] \in {"copy", "unmark", "gone"}
                    /\ receive'[c] = "copy" => held'[c] = d
                    /\ receive'[d] \in Session \cup {"leaving", "gone"}
                    /\ \A t \in Elements(queue[c])' : t[1] = c => s[2] < t[2]
                    /\ \A e \in Client \ {c, d} : \A t \in Elements(queue[e])' : t[1] # c
  BY DEF Copied, Session
<1>1. s \in Elements(queue[d])
  OBVIOUS
<1>2. /\ receive[c] \in {"copy", "unmark", "gone"}
      /\ receive[c] = "copy" => held[c] = d
      /\ receive[d] \in Session \cup {"leaving", "gone"}
      /\ \A t \in Elements(queue[c]) : t[1] = c => s[2] < t[2]
      /\ \A e \in Client \ {c, d} : \A t \in Elements(queue[e]) : t[1] # c
  BY <1>1 DEF Copied
<1> QED
  BY <1>2 DEF Onward

\* The front of a queue is the oldest string of its client that is still to be sent.
LEMMA FrontIsNext ==
    ASSUME TypeOK, QueueInv, NEW c \in Client, sender[c] # "ended",
           NEW s \in String, queue[c] # <<>>, s = Head(queue[c])
    PROVE  Strings!IsNext(s)
<1>1. /\ s[1] \in Client /\ s[2] \in Nat \ {0} /\ s = <<s[1], s[2]>>
      /\ s[2] \in 1 .. MaxStrings /\ MaxStrings \in Nat
  BY ConstantsAssumption DEF String
<1>2. queue[c] \in Seq(String) /\ InOrder(queue[c])
  BY DEF TypeOK, QueueInv, QueuesInOrder
<1>3. /\ s \in Elements(queue[c])
      /\ \A t \in Elements(queue[c]) : t # s /\ t[1] = s[1] => s[2] < t[2]
  BY <1>2, TailElements
<1>4. Strings!IsPending(s)
  BY <1>3 DEF QueueInv, QueuedIsPending
<1>5. ASSUME NEW n \in 1 .. (s[2] - 1), Strings!IsPending(<<s[1], n>>) PROVE FALSE
  <2>1. /\ n \in Nat /\ n < s[2] /\ ~(s[2] < n)
        /\ <<s[1], n>> \in String
    BY <1>1 DEF String
  <2>2. PICK d \in Client : <<s[1], n>> \in Elements(queue[d])
    BY <1>5, <2>1 DEF QueueInv, PendingIsQueued
  <2>3. CASE d = c
    BY <1>1, <1>3, <2>1, <2>2, <2>3
  <2>4. CASE d # c /\ s[1] = c
    BY <2>2, <2>4, SendersStrings DEF QueueInv
  <2>5. CASE d # c /\ s[1] # c
    <3>1. /\ \A t \in Elements(queue[s[1]]) : t[1] = s[1] => s[2] < t[2]
          /\ \A e \in Client \ {s[1], c} : \A t \in Elements(queue[e]) : t[1] # s[1]
      BY <1>1, <1>3, <2>5 DEF QueueInv, Copied
    <3>2. d = s[1]
      BY <2>2, <2>5, <3>1
    <3> QED
      BY <2>1, <2>2, <3>1, <3>2
  <2> QED
    BY <2>3, <2>4, <2>5
<1> QED
  BY <1>4, <1>5 DEF Strings!IsNext

\* A turn of the send thread that succeeds is a delivery.
LEMMA QueueSend ==
    ASSUME TypeOK, QueueInv, Onward, JoinedBeforeCopy', NEW c \in Client, Send(c)
    PROVE  QueueInv' /\ \E s \in String, k \in Client : Strings!Deliver(s, k)
<1>1. /\ queue[c] \in Seq(String) /\ queue[c] # <<>>
      /\ InOrder(queue[c])
      /\ sender[c] # "ended"
      /\ socket[c] \in Client
      /\ sent \in [Client -> Seq(String)]
      /\ queue' = [queue EXCEPT ![c] = Tail(queue[c])]
      /\ sent' = [sent EXCEPT ![socket[c]] = Append(sent[socket[c]], Head(queue[c]))]
      /\ pushed' = pushed /\ discarded' = discarded
  BY DEF Send, send_data, Sender, TypeOK, QueueInv, QueuesInOrder
<1>2. PICK s \in String : s = Head(queue[c])
  BY <1>1, HeadTailProperties
<1>3. PICK k \in Client : k = socket[c]
  BY <1>1
<1>4. /\ s \in Elements(queue[c])
      /\ Elements(Tail(queue[c])) = Elements(queue[c]) \ {s}
      /\ InOrder(Tail(queue[c]))
  BY <1>1, <1>2, TailElements
<1>5. /\ Elements(queue[c])' = Elements(queue[c]) \ {s}
      /\ InOrder(queue[c])'
  <2>1. queue'[c] = Tail(queue[c])
    BY <1>1 DEF TypeOK
  <2> QED
    BY <1>4, <2>1 DEF Elements, InOrder
<1>6. \A d \in Client \ {c} : /\ Elements(queue[d])' = Elements(queue[d])
                              /\ InOrder(queue[d])' <=> InOrder(queue[d])
                              /\ s \notin Elements(queue[d])
  <2>1. \A d \in Client \ {c} : queue'[d] = queue[d]
    BY <1>1 DEF TypeOK
  <2>2. \A d \in Client \ {c} : s \notin Elements(queue[d])
    BY <1>4, Disjoint DEF QueueInv
  <2> QED
    BY <2>1, <2>2 DEF Elements, InOrder
<1>7. \A x : Strings!IsSent(x)' <=> Strings!IsSent(x) \/ x = s
  <2>1. /\ sent[k] \in Seq(String)
        /\ sent'[k] = Append(sent[k], s)
        /\ \A d \in Client \ {k} : sent'[d] = sent[d]
    BY <1>1, <1>2, <1>3
  <2>2. /\ Len(sent[k]) \in Nat
        /\ Len(sent'[k]) = Len(sent[k]) + 1
        /\ \A i \in 1 .. Len(sent[k]) : sent'[k][i] = sent[k][i]
        /\ sent'[k][Len(sent[k]) + 1] = s
    BY <2>1, AppendProperties, LenProperties
  <2> SUFFICES ASSUME NEW x PROVE Strings!IsSent(x)' <=> Strings!IsSent(x) \/ x = s
    OBVIOUS
  <2>3. ASSUME Strings!IsSent(x)' PROVE Strings!IsSent(x) \/ x = s
    <3>1. PICK d \in Client : \E i \in 1 .. Len(sent'[d]) : sent'[d][i] = x
      BY <2>3 DEF Strings!IsSent
    <3>2. PICK i \in 1 .. Len(sent'[d]) : sent'[d][i] = x
      BY <3>1
    <3>3. CASE d # k
      BY <2>1, <3>2, <3>3 DEF Strings!IsSent
    <3>4. CASE d = k
      <4>1. i \in 1 .. Len(sent[k]) \/ i = Len(sent[k]) + 1
        BY <2>2, <3>4
      <4> QED
        BY <2>2, <3>2, <3>4, <4>1 DEF Strings!IsSent
    <3> QED
      BY <3>3, <3>4
  <2>4. ASSUME Strings!IsSent(x) PROVE Strings!IsSent(x)'
    <3>1. PICK d \in Client : \E i \in 1 .. Len(sent[d]) : sent[d][i] = x
      BY <2>4 DEF Strings!IsSent
    <3>2. PICK i \in 1 .. Len(sent[d]) : sent[d][i] = x
      BY <3>1
    <3>3. i \in 1 .. Len(sent'[d]) /\ sent'[d][i] = x
      BY <2>1, <2>2, <3>2
    <3> QED
      BY <3>3 DEF Strings!IsSent
  <2>5. Strings!IsSent(s)'
    <3>1. Len(sent[k]) + 1 \in 1 .. Len(sent'[k])
      BY <2>2
    <3> QED
      BY <2>2, <3>1 DEF Strings!IsSent
  <2> QED
    BY <2>3, <2>4, <2>5
<1>8. \A x : Strings!IsPending(x)' <=> Strings!IsPending(x) /\ x # s
  BY <1>1, <1>7 DEF Strings!IsPending
<1>9. QueuesInOrder'
  BY <1>5, <1>6 DEF QueueInv, QueuesInOrder
<1>10. QueuedIsPending'
  BY <1>5, <1>6, <1>8 DEF QueueInv, QueuedIsPending
<1>11. PendingIsQueued'
  <2> SUFFICES ASSUME NEW x \in String, Strings!IsPending(x)'
               PROVE  \E d \in Client : x \in Elements(queue[d])'
    BY DEF PendingIsQueued
  <2>1. x # s /\ Strings!IsPending(x)
    BY <1>8
  <2>2. PICK d \in Client : x \in Elements(queue[d])
    BY <2>1 DEF QueueInv, PendingIsQueued
  <2> QED
    BY <1>5, <1>6, <2>1, <2>2
<1>12. OncePushed'
  <2>1. s[2] <= pushed[s[1]]
    BY <1>4 DEF QueueInv, QueuedIsPending, Strings!IsPending
  <2> QED
    BY <1>1, <1>7, <2>1 DEF QueueInv, OncePushed
<1>13. Copied'
  BY <1>5, <1>6, CopiedShrinks DEF QueueInv
<1>14. Strings!Deliver(s, k)
  <2>1. Strings!IsNext(s)
    BY <1>1, <1>2, FrontIsNext
  <2>2. sent' = [sent EXCEPT ![k] = Append(sent[k], s)]
    BY <1>1, <1>2, <1>3
  <2> QED
    BY <1>1, <2>1, <2>2 DEF Strings!Deliver
<1> QED
  BY <1>9, <1>10, <1>11, <1>12, <1>13, <1>14 DEF QueueInv

\* What was queued for a client that is deleted is discarded.
LEMMA QueueCleanup ==
    ASSUME TypeOK, QueueInv, Onward, JoinedBeforeCopy', NEW c \in Client, Cleanup(c)
    PROVE  QueueInv' /\ Strings!Discard
<1>1. /\ queue' = [queue EXCEPT ![c] = <<>>]
      /\ discarded' = discarded \cup Elements(queue[c])
      /\ pushed' = pushed /\ sent' = sent
  BY DEF Cleanup, Elements
<1>2. /\ Elements(queue[c])' = {}
      /\ InOrder(queue[c])'
  <2>1. queue'[c] = <<>>
    BY <1>1 DEF TypeOK
  <2> QED
    BY <2>1, EmptyElements DEF Elements, InOrder
<1>3. \A d \in Client \ {c} : /\ Elements(queue[d])' = Elements(queue[d])
                              /\ InOrder(queue[d])' <=> InOrder(queue[d])
                              /\ Elements(queue[d]) \cap Elements(queue[c]) = {}
  <2>1. \A d \in Client \ {c} : queue'[d] = queue[d]
    BY <1>1 DEF TypeOK
  <2>2. \A d \in Client \ {c} : Elements(queue[d]) \cap Elements(queue[c]) = {}
    BY Disjoint DEF QueueInv
  <2> QED
    BY <2>1, <2>2 DEF Elements, InOrder
<1>4. \A x : Strings!IsSent(x)' <=> Strings!IsSent(x)
  BY <1>1 DEF Strings!IsSent
<1>5. \A x : Strings!IsPending(x)' <=> Strings!IsPending(x) /\ x \notin Elements(queue[c])
  BY <1>1, <1>4 DEF Strings!IsPending
<1>6. QueuesInOrder'
  BY <1>2, <1>3 DEF QueueInv, QueuesInOrder
<1>7. QueuedIsPending'
  BY <1>2, <1>3, <1>5 DEF QueueInv, QueuedIsPending
<1>8. PendingIsQueued'
  <2> SUFFICES ASSUME NEW x \in String, Strings!IsPending(x)'
               PROVE  \E d \in Client : x \in Elements(queue[d])'
    BY DEF PendingIsQueued
  <2>1. x \notin Elements(queue[c]) /\ Strings!IsPending(x)
    BY <1>5
  <2>2. PICK d \in Client : x \in Elements(queue[d])
    BY <2>1 DEF QueueInv, PendingIsQueued
  <2> QED
    BY <1>3, <2>1, <2>2
<1>9. OncePushed'
  <2>1. \A x \in Elements(queue[c]) : x[2] <= pushed[x[1]]
    BY DEF QueueInv, QueuedIsPending, Strings!IsPending
  <2> QED
    BY <1>1, <1>4, <2>1 DEF QueueInv, OncePushed
<1>10. Copied'
  BY <1>2, <1>3, CopiedShrinks DEF QueueInv
<1>11. Strings!Discard
  <2>1. \A x \in Elements(queue[c]) : x \in String /\ Strings!IsPending(x)
    BY QueueType DEF QueueInv, QueuedIsPending
  <2> QED
    BY <1>1, <2>1 DEF Strings!Discard, Strings!String, String
<1> QED
  BY <1>6, <1>7, <1>8, <1>9, <1>10, <1>11 DEF QueueInv

\* A string that is copied goes to the end of the queue of the old client.
LEMMA QueueCopy ==
    ASSUME TypeOK, Control, QueueInv, Onward, JoinedBeforeCopy', NEW c \in Client,
           CopyString(c), ~OldClientGone(c)
    PROVE  QueueInv' /\ UNCHANGED <<pushed, sent, discarded>>
<1>1. /\ receive[c] = "copy" /\ receive' = receive /\ held' = held
      /\ queue[c] \in Seq(String) /\ queue[c] # <<>> /\ InOrder(queue[c])
      /\ queue' = [queue EXCEPT ![c] = Tail(@), ![held[c]] = Append(@, Head(queue[c]))]
      /\ pushed' = pushed /\ sent' = sent /\ discarded' = discarded
  BY DEF CopyString, At, TypeOK, QueueInv, QueuesInOrder
<1>2. PICK s \in String : s = Head(queue[c])
  BY <1>1, HeadTailProperties
<1>3. PICK old \in Client : /\ old = held[c] /\ old # c
                            /\ receive[old] \in Session \cup {"leaving", "gone"}
  <2>1. receive[c] \in HandingOver
    BY <1>1 DEF HandingOver
  <2> QED
    BY <2>1, HandOver
<1>4. /\ s \in Elements(queue[c])
      /\ Elements(Tail(queue[c])) = Elements(queue[c]) \ {s}
      /\ InOrder(Tail(queue[c]))
      /\ \A t \in Elements(Tail(queue[c])) : t[1] = s[1] => s[2] < t[2]
  BY <1>1, <1>2, TailElements
<1>5. \A t \in Elements(queue[c]) : t[1] = c
  BY <1>1, OwnStrings DEF QueueInv, Session
<1>6. \A t \in Elements(queue[old]) : t[1] = c => t[2] < s[2]
  BY <1>3, <1>4, <1>5 DEF QueueInv, Copied
<1>7. \A d \in Client \ {c, old} : \A t \in Elements(queue[d]) : t[1] # c
  BY <1>1, <1>3 DEF QueueInv, Copied
<1>8. /\ queue'[c] = Tail(queue[c])
      /\ queue'[old] = Append(queue[old], s)
      /\ \A d \in Client \ {c, old} : queue'[d] = queue[d]
  BY <1>1, <1>2, <1>3 DEF TypeOK
<1>9. /\ Elements(queue[c])' = Elements(queue[c]) \ {s}
      /\ InOrder(queue[c])'
  <2>1. Elements(queue[c])' = Elements(Tail(queue[c]))
    BY <1>8 DEF Elements
  <2>2. InOrder(queue[c])'
    BY <1>4, <1>8 DEF InOrder
  <2> QED
    BY <1>4, <2>1, <2>2
<1>10. /\ Elements(queue[old])' = Elements(queue[old]) \cup {s}
       /\ InOrder(queue[old])'
  <2>1. queue[old] \in Seq(String) /\ InOrder(queue[old])
    BY DEF TypeOK, QueueInv, QueuesInOrder
  <2>2. \A t \in Elements(queue[old]) : t[1] = s[1] => t[2] < s[2]
    BY <1>4, <1>5, <1>6
  <2>3. /\ Elements(Append(queue[old], s)) = Elements(queue[old]) \cup {s}
        /\ InOrder(Append(queue[old], s))
    BY <2>1, <2>2, AppendElements
  <2> QED
    BY <1>8, <2>3 DEF Elements, InOrder
<1>11. \A d \in Client \ {c, old} : /\ Elements(queue[d])' = Elements(queue[d])
                                    /\ InOrder(queue[d])' <=> InOrder(queue[d])
  BY <1>8 DEF Elements, InOrder
<1>12. \A x : Strings!IsSent(x)' <=> Strings!IsSent(x)
  BY <1>1 DEF Strings!IsSent
<1>13. \A x : Strings!IsPending(x)' <=> Strings!IsPending(x)
  BY <1>1, <1>12 DEF Strings!IsPending
<1>14. QueuesInOrder'
  BY <1>9, <1>10, <1>11 DEF QueueInv, QueuesInOrder
<1>15. QueuedIsPending'
  BY <1>4, <1>9, <1>10, <1>11, <1>13 DEF QueueInv, QueuedIsPending
<1>16. PendingIsQueued'
  <2> SUFFICES ASSUME NEW x \in String, Strings!IsPending(x)
               PROVE  \E d \in Client : x \in Elements(queue[d])'
    BY <1>13 DEF PendingIsQueued
  <2>1. PICK d \in Client : x \in Elements(queue[d])
    BY DEF QueueInv, PendingIsQueued
  <2> QED
    BY <1>9, <1>10, <1>11, <2>1
<1>17. OncePushed'
  BY <1>1, <1>12 DEF QueueInv, OncePushed
<1>18. Copied'
  <2> SUFFICES ASSUME NEW b \in Client, NEW d \in Client, NEW x \in Elements(queue[d])', x[1] = b, d # b
               PROVE  /\ receive[b] \in {"copy", "unmark", "gone"}
                      /\ receive[b] = "copy" => held[b] = d
                      /\ receive[d] \in Session \cup {"leaving", "gone"}
                      /\ \A t \in Elements(queue[b])' : t[1] = b => x[2] < t[2]
                      /\ \A e \in Client \ {b, d} : \A t \in Elements(queue[e])' : t[1] # b
    BY <1>1 DEF Copied, Session
  <2>1. CASE b = c
    <3>1. d = old
      BY <1>7, <1>11, <2>1
    <3>2. \A t \in Elements(queue[c])' : t[1] = c => x[2] < t[2]
      <4>1. CASE x = s
        BY <1>4, <1>5, <1>9, <4>1
      <4>2. CASE x # s
        <5>1. x \in Elements(queue[old])
          BY <1>10, <3>1, <4>2
        <5> QED
          BY <1>3, <1>9, <2>1, <5>1 DEF QueueInv, Copied
      <4> QED
        BY <4>1, <4>2
    <3>3. \A e \in Client \ {c, old} : \A t \in Elements(queue[e])' : t[1] # c
      BY <1>7, <1>11
    <3> QED
      BY <1>1, <1>3, <2>1, <3>1, <3>2, <3>3
  <2>2. CASE b # c
    <3>1. s[1] # b
      BY <1>4, <1>5, <2>2
    <3>2. \A e \in Client : \A t \in Elements(queue[e])' : t[1] = b => t \in Elements(queue[e])
      BY <1>9, <1>10, <1>11, <3>1
    <3>3. x \in Elements(queue[d])
      BY <3>2
    <3>4. /\ receive[b] \in {"copy", "unmark", "gone"}
          /\ receive[b] = "copy" => held[b] = d
          /\ receive[d] \in Session \cup {"leaving", "gone"}
          /\ \A t \in Elements(queue[b]) : t[1] = b => x[2] < t[2]
          /\ \A e \in Client \ {b, d} : \A t \in Elements(queue[e]) : t[1] # b
      BY <3>3 DEF QueueInv, Copied
    <3> QED
      BY <3>2, <3>4
  <2> QED
    BY <2>1, <2>2
<1> QED
  BY <1>1, <1>14, <1>15, <1>16, <1>17, <1>18 DEF QueueInv

-----------------------------------------------------------------------------
(* Every step.                                                             *)

\* The variables of Delivery.
delivery == <<pushed, sent, discarded>>

LEMMA QueueStep ==
    ASSUME TypeOK, TypeOK', Control, QueueInv, [Next]_vars
    PROVE  QueueInv' /\ [Strings!Next]_delivery
<1>1. CASE UNCHANGED vars
  <2>1. UNCHANGED strings /\ UNCHANGED <<receive, held, sender>>
    BY <1>1 DEF vars
  <2>2. Onward /\ JoinedBeforeCopy'
    BY <2>1 DEF Onward, QueueInv, JoinedBeforeCopy
  <2> QED
    BY <2>1, <2>2, QueueMove DEF strings, delivery
<1>2. CASE Next
  <2>1. Onward /\ JoinedBeforeCopy'
    BY <1>2, OnwardStep, JoinedStep DEF QueueInv
  <2>2. ASSUME UNCHANGED strings PROVE QueueInv' /\ [Strings!Next]_delivery
    BY <2>1, <2>2, QueueMove DEF strings, delivery
  <2>3. PICK c \in Client : push_string(c) \/ server_to_client(c) \/ client_to_server(c) \/ Break(c)
    BY <1>2 DEF Next
  <2>4. ASSUME NEW n \in Nat \ {0}, PushMany(c, n), UNCHANGED <<sent, discarded>>
        PROVE  QueueInv' /\ [Strings!Next]_delivery
    BY <2>1, <2>4, QueuePush DEF Strings!Next
  <2>5. CASE push_string(c)
    BY <2>4, <2>5 DEF push_string
  <2>6. CASE TerminateSeen(c) \/ SendFails(c) \/ Wakes(c) \/ Break(c)
    BY <2>2, <2>6 DEF TerminateSeen, SendFails, Wakes, Break
  <2>7. CASE Send(c)
    <3>1. QueueInv' /\ \E s \in String, k \in Client : Strings!Deliver(s, k)
      BY <2>1, <2>7, QueueSend
    <3> QED
      BY <3>1 DEF Strings!Next, Strings!String, String
  <2>8. CASE NicknameAccepted(c)
    BY <2>2, <2>8 DEF NicknameAccepted
  <2>9. CASE PasswordAccepted(c)
    BY <2>4, <2>9, ConstantsAssumption DEF PasswordAccepted
  <2>10. CASE GoesWrong
    BY <2>2, <2>10 DEF GoesWrong
  <2>17. CASE RangeError(c)
    BY <2>2, <2>17 DEF RangeError
  <2>11. CASE LoginFails(c) \/ TerminateSender(c) \/ set_socket(c) \/ SetReconnect(c) \/ Unmark(c)
    BY <2>2, <2>10, <2>11 DEF LoginFails, TerminateSender, set_socket, SetReconnect, Unmark
  <2>12. CASE CopyString(c)
    <3>1. CASE ~OldClientGone(c)
      BY <2>1, <2>12, <3>1, QueueCopy DEF delivery
    <3> QED
      BY <2>10, <2>12, <3>1 DEF CopyString
  <2>13. CASE RecvFails(c) \/ ResetReconnect(c) \/ MarkWaiting(c)
    BY <2>2, <2>13 DEF RecvFails, ResetReconnect, MarkWaiting
  <2>14. CASE Reconnected(c) \/ ReconnectTimeout(c)
    BY <2>2, <2>14 DEF Reconnected, ReconnectTimeout
  <2>15. CASE Cleanup(c)
    BY <2>1, <2>15, QueueCleanup DEF Strings!Next
  <2>16. CASE Proceeds(c)
    BY <2>11, <2>12, <2>13, <2>14, <2>15, <2>16 DEF Proceeds
  <2> QED
    BY <2>3, <2>5, <2>6, <2>7, <2>8, <2>9, <2>16, <2>17 DEF server_to_client, client_to_server
<1> QED
  BY <1>1, <1>2

LEMMA InitQueues == Init => QueueInv /\ Strings!Init
<1> SUFFICES ASSUME Init PROVE QueueInv /\ Strings!Init
  OBVIOUS
<1>1. /\ \A c \in Client : /\ queue[c] = <<>> /\ pushed[c] = 0 /\ sent[c] = <<>>
                           /\ receive[c] = "none"
      /\ discarded = {}
  BY DEF Init
<1>2. \A c \in Client : Elements(queue[c]) = {} /\ InOrder(queue[c])
  BY <1>1, EmptyElements
<1>3. \A s : ~Strings!IsSent(s)
  BY <1>1 DEF Strings!IsSent
<1>4. \A s \in String : ~Strings!IsPending(s)
  BY <1>1, ConstantsAssumption DEF Strings!IsPending, String
<1>5. QueuesInOrder /\ QueuedIsPending /\ Copied
  BY <1>2 DEF QueuesInOrder, QueuedIsPending, Copied
<1>6. PendingIsQueued /\ OncePushed /\ JoinedBeforeCopy
  BY <1>1, <1>3, <1>4 DEF PendingIsQueued, OncePushed, JoinedBeforeCopy
<1>7. Strings!Init
  BY DEF Init, Strings!Init
<1> QED
  BY <1>5, <1>6, <1>7 DEF QueueInv

-----------------------------------------------------------------------------
(* The theorems.                                                           *)

LEMMA QueuesAndTypes == Spec => [](TypeOK /\ Control /\ QueueInv)
<1>1. Init => QueueInv
  BY InitQueues
<1>2. TypeOK /\ TypeOK' /\ Control /\ QueueInv /\ [Next]_vars => QueueInv'
  BY QueueStep
<1>3. IInv => TypeOK /\ Control
  BY DEF IInv, Control
<1> QED
  BY <1>1, <1>2, <1>3, IInvCorrect, PTL DEF Spec

\* A string that is neither sent nor discarded is in one queue, its own or that of the
\* client its connection was handed to, behind the older strings of its client: QueueInv
\* is an invariant of SendQueue.
THEOREM QueueInvCorrect == Spec => []QueueInv
BY QueuesAndTypes, PTL

\* SendQueue implements Delivery: a string is sent once, on one connection, after those
\* pushed before it to the same client, or dies with its client, through any number of
\* lost connections and hand-overs.
THEOREM DeliveryCorrect == Spec => ImplementsDelivery
<1>1. Init => Strings!Init
  BY InitQueues
<1>2. TypeOK /\ TypeOK' /\ Control /\ QueueInv /\ [Next]_vars => [Strings!Next]_delivery
  BY QueueStep
<1>3. [Strings!Next]_delivery => [Strings!Next]_(Strings!vars)
  BY DEF delivery, Strings!vars
<1> QED
  BY <1>1, <1>2, <1>3, QueuesAndTypes, PTL DEF Spec, ImplementsDelivery, Strings!Spec

=============================================================================

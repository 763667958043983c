----------------------------- MODULE LoginProofs -----------------------------
(***************************************************************************)
(* Login for every number of users, nicknames, passwords and connections:     *)
(* clients and threads keep step, nobody is accepted without the password     *)
(* of his row, and who thinks that he is authorized has been accepted.         *)
(***************************************************************************)
EXTENDS Login, SequenceTheorems, TLAPS

Places == Dialogue \cup Authorizing \cup {"none", "find", "hand_over", "session", "leaving", "gone"}
ClientState == Online \cup Offline \cup {"CONNECTING"}
Link == {"none", "up", "closed", "broken"}

-----------------------------------------------------------------------------
(* Short sequences.                                                        *)

LEMMA One ==
    ASSUME NEW S, NEW x \in S
    PROVE  /\ <<x>> \in Seq(S) /\ <<x>> # <<>>
           /\ Head(<<x>>) = x /\ Tail(<<x>>) = <<>> /\ Append(<<>>, x) = <<x>>
OBVIOUS

LEMMA Two ==
    ASSUME NEW S, NEW x \in S, NEW y \in S
    PROVE  /\ <<x, y>> \in Seq(S) /\ <<x, y>> # <<>>
           /\ Head(<<x, y>>) = x /\ Tail(<<x, y>>) = <<y>>
OBVIOUS

LEMMA NoneBefore ==
    ASSUME NEW S, NEW x \in S, NEW y \in S
    PROVE  <<>> \o <<x>> = <<x>> /\ <<>> \o <<x, y>> = <<x, y>>
OBVIOUS

-----------------------------------------------------------------------------
(* What a client does with an answer.                                       *)

LEMMA AnswerProcessed ==
    ASSUME NEW k \in Conn, NEW s \in Online, NEW a, NEW sent, NEW answer,
           InStep(s, a, k, sent, answer), answer # <<>>
    PROVE  /\ answer \in Seq(Reply)
           /\ InStep(Processed(s, Head(answer)),
                     IF Head(answer)[2] # None THEN Head(answer)[2] ELSE a, k, sent, Tail(answer))
<1>0. None \notin Conn
  BY ConstantsAssumption
<1> DEFINE t(reply) == IF reply[2] # None THEN reply[2] ELSE a
<1>1. CASE s = "NICKNAME_SENT" /\ thread[k] = "WAIT_PASSWORD" /\ answer = <<<<"password?", k>>>>
  <2>1. <<"password?", k>> \in Reply
    BY DEF Reply
  <2>2. Head(answer) = <<"password?", k>> /\ Tail(answer) = <<>> /\ answer \in Seq(Reply)
    BY <1>1, <2>1, One
  <2>3. Processed(s, Head(answer)) = "PASSWORD_ENTER" /\ t(Head(answer)) = k /\ sent = <<>>
    BY <1>0, <1>1, <2>2 DEF Processed, InStep
  <2> QED
    BY <1>1, <2>2, <2>3 DEF InStep
<1>2. CASE s = "NICKNAME_SENT" /\ thread[k] = "WAIT_PASSWORD_REGISTER_FIRST" /\ answer = <<<<"password_first?", None>>>>
  <2>1. <<"password_first?", None>> \in Reply
    BY DEF Reply
  <2>2. Head(answer) = <<"password_first?", None>> /\ Tail(answer) = <<>> /\ answer \in Seq(Reply)
    BY <1>2, <2>1, One
  <2>3. Processed(s, Head(answer)) = "PASSWORD_REGISTER_FIRST_ENTER" /\ sent = <<>>
    BY <1>2, <2>2 DEF Processed, InStep
  <2> QED
    BY <1>2, <2>2, <2>3 DEF InStep
<1>3. CASE s = "PASSWORD_REGISTER_FIRST_SENT"
  <2>0. /\ thread[k] = "WAIT_PASSWORD_REGISTER_SECOND" /\ sent = <<>>
        /\ answer = <<<<"password_second?", k>>>>
    BY <1>3 DEF InStep
  <2>1. <<"password_second?", k>> \in Reply
    BY DEF Reply
  <2>2. Head(answer) = <<"password_second?", k>> /\ Tail(answer) = <<>> /\ answer \in Seq(Reply)
    BY <2>0, <2>1, One
  <2>3. Processed(s, Head(answer)) = "PASSWORD_REGISTER_SECOND_ENTER" /\ t(Head(answer)) = k
    BY <1>0, <2>2 DEF Processed
  <2> QED
    BY <2>0, <2>2, <2>3 DEF InStep
<1>4. CASE s \in {"PASSWORD_REGISTER_SECOND_SENT", "PASSWORD_SENT"} /\ Rejected(k) /\ answer = <<<<"auth_fail!", None>>>>
  <2>1. <<"auth_fail!", None>> \in Reply
    BY DEF Reply
  <2>2. Head(answer) = <<"auth_fail!", None>> /\ Tail(answer) = <<>> /\ answer \in Seq(Reply)
    BY <1>4, <2>1, One
  <2>3. Processed(s, Head(answer)) = "AUTHORIZATION_FAILED"
    BY <2>2 DEF Processed
  <2>4. sent = <<>>
    BY <1>4, <2>2 DEF InStep
  <2> QED
    BY <1>4, <2>2, <2>3, <2>4 DEF InStep
<1>5. CASE s \in {"PASSWORD_REGISTER_SECOND_SENT", "PASSWORD_SENT"} /\ Let_in(k) /\ answer = <<<<"auth_ok!", None>>, Text>>
  <2>1. <<"auth_ok!", None>> \in Reply /\ Text \in Reply
    BY DEF Reply, Text
  <2>2. Head(answer) = <<"auth_ok!", None>> /\ Tail(answer) = <<Text>> /\ answer \in Seq(Reply)
    BY <1>5, <2>1, Two
  <2>3. Processed(s, Head(answer)) = "AUTHORIZED"
    BY <2>2 DEF Processed
  <2> QED
    BY <1>5, <2>2, <2>3 DEF InStep
<1>6. CASE s = "AUTHORIZED"
  <2>0. answer = <<Text>> /\ Let_in(k)
    BY <1>6 DEF InStep
  <2>1. Text \in Reply
    BY DEF Reply, Text
  <2>2. Head(answer) = Text /\ Tail(answer) = <<>> /\ answer \in Seq(Reply)
    BY <2>0, <2>1, One
  <2>3. Processed(s, Head(answer)) = "AUTHORIZED"
    BY <1>6, <2>2 DEF Processed, Text
  <2> QED
    BY <2>0, <2>2, <2>3 DEF InStep
<1> QED
  <2>1. CASE s = "NICKNAME_SENT"
    BY <1>1, <1>2, <2>1 DEF InStep
  <2>2. CASE s \in {"PASSWORD_REGISTER_SECOND_SENT", "PASSWORD_SENT"}
    BY <1>4, <1>5, <2>2 DEF InStep
  <2>3. CASE s \in Enter \cup {"AUTHORIZATION_FAILED"}
    BY <2>3 DEF InStep, Enter
  <2> QED
    BY <1>3, <1>6, <2>1, <2>2, <2>3 DEF Online, Sent, PasswordSent

-----------------------------------------------------------------------------
(* What a client sends.                                                    *)

LEMMA SendEffect ==
    ASSUME TypeOK, NEW u \in User, NEW k \in Conn, conn[u] = k, NEW r \in Request, Send(u, r)
    PROVE  /\ up' \in [Conn -> Seq(Request)] /\ link' \in [Conn -> Link]
           /\ \A j \in Conn \ {k} : up'[j] = up[j] /\ link'[j] = link[j]
           /\ link'[k] = IF link[k] = "closed" THEN "broken" ELSE link[k]
           /\ up'[k] = IF link[k] = "up" THEN Append(up[k], r) ELSE up[k]
<1>1. up \in [Conn -> Seq(Request)] /\ link \in [Conn -> Link]
  BY DEF TypeOK, Link
<1>2. Append(up[k], r) \in Seq(Request)
  BY <1>1, AppendProperties
<1>3. up' = IF link[k] = "up" THEN [up EXCEPT ![k] = Append(up[k], r)] ELSE up
  BY DEF Send, Mine
<1>4. link' = IF link[k] = "closed" THEN [link EXCEPT ![k] = "broken"] ELSE link
  BY DEF Send, Mine
<1> QED
  BY <1>1, <1>2, <1>3, <1>4 DEF Link

\* What the client of u may change at its connection k: the parts of it that the
\* invariant is about.
Sends(k) ==
    /\ up' \in [Conn -> Seq(Request)] /\ link' \in [Conn -> Link]
    /\ typed' \in [Conn -> Password \cup {None}]
    /\ \A j \in Conn \ {k} : up'[j] = up[j] /\ link'[j] = link[j] /\ typed'[j] = typed[j]
    /\ link'[k] \in {link[k], "broken"} /\ (link[k] = "none" => link'[k] = "none")
    /\ typed'[k] # typed[k] => thread[k] \in Dialogue
    /\ thread[k] \in Dialogue =>
          \/ up'[k] = <<>>
          \/ \E request \in Request : up'[k] = <<request>> /\ Asked(k, request)'

LEMMA SendsNothing ==
    ASSUME TypeOK, Requests, NEW k \in Conn, UNCHANGED <<up, link, typed, thread>>
    PROVE  Sends(k)
<1>1. \A request : Asked(k, request)' = Asked(k, request)
  BY DEF Asked
<1> QED
  BY <1>1 DEF TypeOK, Requests, Sends, Link

LEMMA KindOfPassword ==
    ASSUME NEW p \in Password, NEW a \in Conn
    PROVE  /\ <<"password:", <<p, a>>>> \in Request /\ <<"password_second:", <<p, a>>>> \in Request
           /\ <<"password_first:", p>> \in Request
BY DEF Request, Hash

LEMMA ExpectedIs ==
    /\ Expected("WAIT_NICKNAME") = "nickname:"
    /\ Expected("WAIT_PASSWORD") = "password:"
    /\ Expected("WAIT_PASSWORD_REGISTER_FIRST") = "password_first:"
    /\ Expected("WAIT_PASSWORD_REGISTER_SECOND") = "password_second:"
BY DEF Expected

\* The string that a client in the state s sends with the connection up is the one that
\* the thread waits for.
LEMMA PasswordSentInStep ==
    ASSUME TypeOK, NEW u \in User, NEW k \in Conn, conn[u] = k, NEW s, NEW next, NEW p \in Password,
           NEW a, NEW answer, NEW r \in Request, Send(u, r), thread' = thread,
           link[k] = "up", InStep(s, a, k, up[k], answer),
           typed' = [typed EXCEPT ![k] = p],
           \/ /\ s = "PASSWORD_REGISTER_FIRST_ENTER" /\ next = "PASSWORD_REGISTER_FIRST_SENT"
              /\ r = <<"password_first:", p>>
           \/ /\ s = "PASSWORD_REGISTER_SECOND_ENTER" /\ next = "PASSWORD_REGISTER_SECOND_SENT"
              /\ r = <<"password_second:", <<p, a>>>>
           \/ /\ s = "PASSWORD_ENTER" /\ next = "PASSWORD_SENT" /\ r = <<"password:", <<p, a>>>>
    PROVE  Sends(k) /\ InStep(next, a, k, up'[k], answer)
<1>1. /\ up' \in [Conn -> Seq(Request)] /\ link' \in [Conn -> Link]
      /\ \A j \in Conn \ {k} : up'[j] = up[j] /\ link'[j] = link[j]
      /\ link'[k] = "up" /\ up'[k] = Append(up[k], r)
  BY SendEffect
<1>2. up[k] = <<>> /\ answer = <<>> /\ thread[k] \in Dialogue
  BY DEF InStep, Dialogue
<1>3. up'[k] = <<r>> /\ <<r>> # <<>>
  BY <1>1, <1>2, One
<1>4. /\ typed' \in [Conn -> Password \cup {None}] /\ typed'[k] = p
      /\ \A j \in Conn \ {k} : typed'[j] = typed[j]
  BY DEF TypeOK
<1>5. r[1] = Expected(thread[k])
  <2>1. /\ r[1] = "password_first:" => thread[k] = "WAIT_PASSWORD_REGISTER_FIRST"
        /\ r[1] = "password_second:" => thread[k] = "WAIT_PASSWORD_REGISTER_SECOND"
        /\ r[1] = "password:" => thread[k] = "WAIT_PASSWORD"
        /\ r[1] \in {"password_first:", "password_second:", "password:"}
    BY DEF InStep
  <2> QED
    BY <2>1, ExpectedIs
<1>6. r[1] \in {"password:", "password_second:"} => r[2][1] = p
  OBVIOUS
<1>7. Asked(k, r)'
  <2>1. Asked(k, r)' = /\ r[1] = Expected(thread[k])
                       /\ r[1] \in {"password:", "password_second:"} => r[2][1] = typed'[k]
    BY DEF Asked
  <2> QED
    BY <1>4, <1>5, <1>6, <2>1
<1>8. Sends(k)
  BY <1>1, <1>2, <1>3, <1>4, <1>7 DEF Sends
<1>9. InStep(next, a, k, up'[k], answer)
  BY <1>2, <1>3 DEF InStep
<1> QED
  BY <1>8, <1>9

\* On a connection that is not up nothing is sent; the first string after its end is
\* answered with a reset.
LEMMA SentInVain ==
    ASSUME TypeOK, Requests, NEW u \in User, NEW k \in Conn, conn[u] = k, NEW r,
           Send(u, r), UNCHANGED <<thread, typed>>, link[k] # "up"
    PROVE  Sends(k) /\ (link[k] = "broken" => link'[k] = "broken") /\ link'[k] # "up"
<1>1. up' = up /\ link' = IF link[k] = "closed" THEN [link EXCEPT ![k] = "broken"] ELSE link
  BY DEF Send, Mine
<1>2. link' \in [Conn -> Link] /\ \A j \in Conn \ {k} : link'[j] = link[j]
  BY <1>1 DEF TypeOK, Link
<1>3. \A request : Asked(k, request)' = Asked(k, request)
  BY DEF Asked
<1>4. link'[k] \in {link[k], "broken"} /\ (link[k] \in {"none", "broken"} => link'[k] = link[k])
  BY <1>1 DEF TypeOK
<1>5. /\ up' \in [Conn -> Seq(Request)] /\ typed' \in [Conn -> Password \cup {None}]
      /\ \A j \in Conn \ {k} : up'[j] = up[j] /\ typed'[j] = typed[j]
  BY <1>1 DEF TypeOK
<1>6. thread[k] \in Dialogue =>
          \/ up'[k] = <<>>
          \/ \E request \in Request : up'[k] = <<request>> /\ Asked(k, request)'
  BY <1>1, <1>3 DEF Requests
<1>7. Sends(k)
  BY <1>2, <1>4, <1>5, <1>6 DEF Sends
<1> QED
  BY <1>4, <1>7

LEMMA InputInStep ==
    ASSUME TypeOK, Threads, Requests, NEW u \in User, NEW k \in Conn, conn[u] = k,
           NEW s, NEW next, NEW answer, Input(u, s, next),
           salt' \in [User -> Conn \cup {None}], thread' = thread,
           link[k] = "up" => InStep(s, salt'[u], k, up[k], answer)
    PROVE  /\ Sends(k) /\ next \in Sent \cup {"AUTHORIZED"}
           /\ link[k] = "up" => InStep(next, salt'[u], k, up'[k], answer)
           /\ link[k] = "broken" => link'[k] = "broken"
<1>1. CASE s = "NICKNAME_ENTER"
  <2>1. PICK n \in Nickname : Send(u, <<"nickname:", n>>)
    BY <1>1 DEF Input
  <2>2. next = "NICKNAME_SENT" /\ typed' = typed
    BY <1>1 DEF Input
  <2>3. PICK r \in Request : r = <<"nickname:", n>>
    BY DEF Request
  <2>4. CASE link[k] = "up"
    <3>1. /\ up' \in [Conn -> Seq(Request)] /\ link' \in [Conn -> Link]
          /\ \A j \in Conn \ {k} : up'[j] = up[j] /\ link'[j] = link[j]
          /\ link'[k] = "up" /\ up'[k] = Append(up[k], r)
      BY <2>1, <2>3, <2>4, SendEffect
    <3>2. thread[k] = "WAIT_NICKNAME" /\ up[k] = <<>> /\ answer = <<>>
      BY <1>1, <2>4 DEF InStep
    <3>3. up'[k] = <<r>> /\ <<r>> # <<>>
      BY <3>1, <3>2, One
    <3>4. Asked(k, r)'
      <4>1. r[1] = "nickname:" /\ Expected(thread[k]) = "nickname:"
        BY <2>3, <3>2, ExpectedIs
      <4> QED
        BY <4>1 DEF Asked
    <3>5. typed' \in [Conn -> Password \cup {None}]
      BY <2>2 DEF TypeOK
    <3>6. Sends(k)
      BY <2>2, <2>4, <3>1, <3>3, <3>4, <3>5 DEF Sends
    <3>7. InStep(next, salt'[u], k, up'[k], answer)
      BY <2>2, <3>2, <3>3 DEF InStep
    <3> QED
      BY <2>2, <2>4, <3>6, <3>7 DEF Sent
  <2>5. CASE link[k] # "up"
    BY <2>1, <2>2, <2>5, SentInVain DEF Sent
  <2> QED
    BY <2>4, <2>5
<1>2. CASE s \in Enter \ {"NICKNAME_ENTER"}
  <2>1. PICK p \in Password :
          /\ typed' = IF link[k] = "up" THEN [typed EXCEPT ![k] = p] ELSE typed
          /\ \/ /\ s = "PASSWORD_REGISTER_FIRST_ENTER" /\ next = "PASSWORD_REGISTER_FIRST_SENT"
                /\ Send(u, <<"password_first:", p>>)
             \/ /\ s = "PASSWORD_REGISTER_SECOND_ENTER" /\ next = "PASSWORD_REGISTER_SECOND_SENT"
                /\ Send(u, <<"password_second:", <<p, salt'[u]>>>>)
             \/ /\ s = "PASSWORD_ENTER" /\ next = "PASSWORD_SENT"
                /\ Send(u, <<"password:", <<p, salt'[u]>>>>)
    BY <1>2 DEF Input, Enter, Mine
  <2>2. next \in Sent
    BY <2>1 DEF Sent, PasswordSent
  <2>3. CASE link[k] = "up"
    <3>1. s # "PASSWORD_REGISTER_FIRST_ENTER" => salt'[u] \in Conn
      BY <1>2, <2>3 DEF InStep, Enter
    <3>2. PICK r \in Request :
            /\ Send(u, r)
            /\ \/ /\ s = "PASSWORD_REGISTER_FIRST_ENTER" /\ next = "PASSWORD_REGISTER_FIRST_SENT"
                  /\ r = <<"password_first:", p>>
               \/ /\ s = "PASSWORD_REGISTER_SECOND_ENTER" /\ next = "PASSWORD_REGISTER_SECOND_SENT"
                  /\ r = <<"password_second:", <<p, salt'[u]>>>>
               \/ /\ s = "PASSWORD_ENTER" /\ next = "PASSWORD_SENT"
                  /\ r = <<"password:", <<p, salt'[u]>>>>
      <4>1. CASE s = "PASSWORD_REGISTER_FIRST_ENTER"
        BY <2>1, <4>1 DEF Request
      <4>2. CASE s # "PASSWORD_REGISTER_FIRST_ENTER"
        BY <2>1, <3>1, <4>2, KindOfPassword
      <4> QED
        BY <4>1, <4>2
    <3>3. typed' = [typed EXCEPT ![k] = p]
      BY <2>1, <2>3
    <3>4. Sends(k) /\ InStep(next, salt'[u], k, up'[k], answer)
      BY <2>3, <3>2, <3>3, PasswordSentInStep
    <3> QED
      BY <2>2, <2>3, <3>4
  <2>4. CASE link[k] # "up"
    BY <2>1, <2>2, <2>4, SentInVain
  <2> QED
    BY <2>3, <2>4
<1>3. CASE s = "AUTHORIZED"
  <2>1. next = "AUTHORIZED" /\ typed' = typed /\ up[k] = <<>> /\ Send(u, <<"line", None>>)
    BY <1>3 DEF Input, Mine
  <2>2. PICK r \in Request : r = <<"line", None>>
    BY DEF Request
  <2>3. CASE link[k] = "up"
    <3>1. /\ up' \in [Conn -> Seq(Request)] /\ link' \in [Conn -> Link]
          /\ \A j \in Conn \ {k} : up'[j] = up[j] /\ link'[j] = link[j]
          /\ link'[k] = "up"
      BY <2>1, <2>2, <2>3, SendEffect
    <3>2. thread[k] \notin Dialogue
      BY <1>3, <2>3 DEF InStep, Let_in, Accepted, Authorizing, Threads, Dialogue
    <3>3. typed' \in [Conn -> Password \cup {None}]
      BY <2>1 DEF TypeOK
    <3>4. Sends(k)
      BY <2>1, <2>3, <3>1, <3>2, <3>3 DEF Sends
    <3>5. InStep(next, salt'[u], k, up'[k], answer)
      BY <1>3, <2>1, <2>3 DEF InStep
    <3> QED
      BY <2>1, <2>3, <3>4, <3>5
  <2>4. CASE link[k] # "up"
    BY <2>1, <2>4, SentInVain
  <2> QED
    BY <2>3, <2>4
<1> QED
  BY <1>1, <1>2, <1>3 DEF Input, Enter

-----------------------------------------------------------------------------
(* A turn, or a callback, of a client.                                      *)

LEMMA SaltOfReply == \A reply \in Reply : reply[2] \in Conn \cup {None}
BY DEF Reply

LEMMA ProcessedOnline == ASSUME NEW s \in Online, NEW reply PROVE Processed(s, reply) \in Online
BY DEF Processed, Online, Enter

\* A client takes one answer, and goes on in the state that is due.
LEMMA OneTaken ==
    ASSUME TypeOK, NEW u \in User, NEW k \in Conn, state[u] \in Online, down[k] # <<>>,
           TakeSalt(u, Head(down[k])) \/ (state[u] = "AUTHORIZED" /\ salt' = salt),
           down' = [down EXCEPT ![k] = Tail(@)],
           link[k] = "up" => InStep(state[u], salt[u], k, up[k], down[k])
    PROVE  /\ Head(down[k]) \in Reply
           /\ salt' \in [User -> Conn \cup {None}] /\ down' \in [Conn -> Seq(Reply)]
           /\ \A v \in User \ {u} : salt'[v] = salt[v]
           /\ \A j \in Conn \ {k} : down'[j] = down[j]
           /\ link[k] = "up" =>
                  InStep(Processed(state[u], Head(down[k])), salt'[u], k, up[k], down'[k])
<1> DEFINE reply == Head(down[k])
<1>1. down \in [Conn -> Seq(Reply)] /\ salt \in [User -> Conn \cup {None}]
  BY DEF TypeOK
<1>2. reply \in Reply /\ Tail(down[k]) \in Seq(Reply)
  BY <1>1, HeadTailProperties
<1>3. /\ down' \in [Conn -> Seq(Reply)] /\ down'[k] = Tail(down[k])
      /\ \A j \in Conn \ {k} : down'[j] = down[j]
  BY <1>1, <1>2
<1>4. /\ salt' \in [User -> Conn \cup {None}]
      /\ \A v \in User \ {u} : salt'[v] = salt[v]
  BY <1>1, <1>2, SaltOfReply DEF TakeSalt
<1>5. ASSUME link[k] = "up"
      PROVE  InStep(Processed(state[u], reply), salt'[u], k, up[k], down'[k])
  <2>1. InStep(Processed(state[u], reply), IF reply[2] # None THEN reply[2] ELSE salt[u],
               k, up[k], Tail(down[k]))
    BY <1>5, AnswerProcessed
  <2>2. CASE TakeSalt(u, reply)
    <3>1. salt'[u] = IF reply[2] # None THEN reply[2] ELSE salt[u]
      BY <1>1, <2>2 DEF TakeSalt
    <3> QED
      BY <1>3, <2>1, <3>1
  <2>3. CASE state[u] = "AUTHORIZED" /\ salt' = salt
    <3>1. down[k] = <<Text>>
      BY <1>5, <2>3 DEF InStep
    <3>2. reply = Text
      BY <3>1, One
    <3>3. reply[2] = None
      BY <3>2 DEF Text
    <3> QED
      BY <1>3, <2>1, <2>3, <3>3
  <2> QED
    BY <2>2, <2>3
<1> QED
  BY <1>2, <1>3, <1>4, <1>5

LEMMA RecvInStep ==
    ASSUME TypeOK, NEW u \in User, NEW k \in Conn, conn[u] = k, state[u] \in Online,
           NEW s, Recv(u, s), link[k] = "up" => InStep(state[u], salt[u], k, up[k], down[k])
    PROVE  /\ s \in Online \cup {"CONNECTION_LOST"}
           /\ salt' \in [User -> Conn \cup {None}] /\ buffer' \in [User -> Reply \cup {None}]
           /\ down' \in [Conn -> Seq(Reply)]
           /\ \A v \in User \ {u} : salt'[v] = salt[v]
           /\ \A j \in Conn \ {k} : down'[j] = down[j]
           /\ link[k] = "up" => InStep(s, salt'[u], k, up[k], down'[k])
<1>0. /\ salt \in [User -> Conn \cup {None}] /\ buffer \in [User -> Reply \cup {None}]
      /\ down \in [Conn -> Seq(Reply)]
  BY DEF TypeOK
<1>1. CASE link[k] = "up" /\ s = state[u] /\ UNCHANGED <<salt, buffer, down>>
  BY <1>0, <1>1
<1>2. CASE /\ down[k] # <<>>
           /\ buffer' = [buffer EXCEPT ![u] = Head(down[k])]
           /\ down' = [down EXCEPT ![k] = Tail(@)]
           /\ IF state[u] = "AUTHORIZED" THEN s = state[u] /\ UNCHANGED salt
              ELSE s = Processed(state[u], Head(down[k])) /\ TakeSalt(u, Head(down[k]))
  <2>1. /\ Head(down[k]) \in Reply
        /\ salt' \in [User -> Conn \cup {None}] /\ down' \in [Conn -> Seq(Reply)]
        /\ \A v \in User \ {u} : salt'[v] = salt[v]
        /\ \A j \in Conn \ {k} : down'[j] = down[j]
        /\ link[k] = "up" =>
               InStep(Processed(state[u], Head(down[k])), salt'[u], k, up[k], down'[k])
    BY <1>2, OneTaken
  <2>2. buffer' \in [User -> Reply \cup {None}]
    BY <1>0, <1>2, <2>1
  <2>3. s \in Online
    BY <1>2, ProcessedOnline
  <2>4. link[k] = "up" /\ state[u] = "AUTHORIZED" => Processed(state[u], Head(down[k])) = s
    <3>1. SUFFICES ASSUME link[k] = "up", state[u] = "AUTHORIZED"
                   PROVE  Processed(state[u], Head(down[k])) = s
      OBVIOUS
    <3>2. down[k] = <<Text>>
      BY <1>2, <3>1 DEF InStep
    <3>3. Head(down[k]) = Text
      BY <3>2, One
    <3> QED
      BY <1>2, <3>1, <3>3 DEF Processed, Text
  <2> QED
    BY <1>2, <2>1, <2>2, <2>3, <2>4
<1>3. CASE /\ link[k] = "closed"
           /\ UNCHANGED <<buffer, down>>
           /\ IF state[u] = "AUTHORIZED" \/ buffer[u] = None THEN s = state[u] /\ UNCHANGED salt
              ELSE s = Processed(state[u], buffer[u]) /\ TakeSalt(u, buffer[u])
  <2>1. s \in Online
    BY <1>3, ProcessedOnline
  <2>2. /\ salt' \in [User -> Conn \cup {None}]
        /\ \A v \in User \ {u} : salt'[v] = salt[v]
    <3>1. CASE salt' = salt
      BY <1>0, <3>1
    <3>2. CASE buffer[u] # None /\ TakeSalt(u, buffer[u])
      <4>1. buffer[u] \in Reply
        BY <1>0, <3>2
      <4> QED
        BY <1>0, <3>2, <4>1, SaltOfReply DEF TakeSalt
    <3> QED
      BY <1>3, <3>1, <3>2
  <2> QED
    BY <1>0, <1>3, <2>1, <2>2
<1>4. CASE link[k] = "broken" /\ s = "CONNECTION_LOST" /\ UNCHANGED <<salt, buffer, down>>
  BY <1>0, <1>4
<1> QED
  BY <1>1, <1>2, <1>3, <1>4 DEF Recv, Mine

\* What a step of the client of u may change.
Moves(u, k) ==
    /\ conn[u] = k /\ Sends(k)
    /\ UNCHANGED <<conn, server>>
    /\ state' \in [User -> ClientState]
    /\ salt' \in [User -> Conn \cup {None}] /\ buffer' \in [User -> Reply \cup {None}]
    /\ down' \in [Conn -> Seq(Reply)]
    /\ \A v \in User \ {u} : state'[v] = state[v] /\ salt'[v] = salt[v]
    /\ \A j \in Conn \ {k} : down'[j] = down[j]
    /\ link'[k] = "up" => InStep(state'[u], salt'[u], k, up'[k], down'[k])

LEMMA StateSets ==
    /\ Online \subseteq ClientState /\ Sent \subseteq Online
    /\ {"AUTHORIZED"} \subseteq Online
    /\ {"CONNECTION_LOST", "WAIT_RECONNECT", "CONNECT", "QUIT", "CONNECTING"} \subseteq ClientState
    /\ {"CONNECTION_LOST", "WAIT_RECONNECT", "CONNECT", "QUIT", "CONNECTING"} \cap Online = {}
BY DEF ClientState, Online, Offline, Sent, PasswordSent, Enter

\* Offline, nothing is said of the connection.
LEMMA OfflineInStep ==
    ASSUME NEW s \in {"CONNECTION_LOST", "WAIT_RECONNECT", "CONNECT", "QUIT"}, NEW a, NEW k,
           NEW sent, NEW answer
    PROVE  InStep(s, a, k, sent, answer)
BY DEF InStep

LEMMA HungUp ==
    ASSUME TypeOK, Connections, Requests, NEW u \in User, NEW k \in Conn, conn[u] = k,
           link' = [link EXCEPT ![k] = "broken"], UNCHANGED <<up, typed, thread>>
    PROVE  Sends(k)
<1>1. link[k] # "none"
  <2>1. k # 0
    BY ConstantsAssumption DEF Conn
  <2> QED
    BY <2>1 DEF Connections
<1>2. link' \in [Conn -> Link] /\ \A j \in Conn \ {k} : link'[j] = link[j]
  BY DEF TypeOK, Link
<1>3. link'[k] = "broken"
  BY DEF TypeOK
<1>4. \A request : Asked(k, request)' = Asked(k, request)
  BY DEF Asked
<1>5. /\ up' \in [Conn -> Seq(Request)] /\ typed' \in [Conn -> Password \cup {None}]
      /\ \A j \in Conn \ {k} : up'[j] = up[j] /\ typed'[j] = typed[j]
  BY DEF TypeOK
<1> QED
  BY <1>1, <1>2, <1>3, <1>4, <1>5 DEF Sends, Requests

LEMMA TurnMoves ==
    ASSUME IInv, NEW u \in User, Turn(u)
    PROVE  \E k \in Conn : Moves(u, k)
<1>0. TypeOK /\ Connections /\ Threads /\ Requests /\ ClientsInStep
  BY DEF IInv
<1>1. PICK k \in Conn : conn[u] = k
  BY <1>0 DEF Connections, Turn
<1>2. PICK s \in Online \cup {"CONNECTION_LOST"} :
        /\ IF state[u] \in Online THEN Recv(u, s)
           ELSE s = state[u] /\ UNCHANGED <<salt, buffer, down>>
        /\ Switch(u, s)
  BY DEF Turn
<1>3. UNCHANGED <<conn, server>> /\ thread' = thread
  BY DEF Turn, server, server_but_undefined
<1>4. link[k] = "up" => InStep(state[u], salt[u], k, up[k], down[k])
  BY <1>0, <1>1 DEF ClientsInStep
<1>5. /\ salt' \in [User -> Conn \cup {None}] /\ buffer' \in [User -> Reply \cup {None}]
      /\ down' \in [Conn -> Seq(Reply)]
      /\ \A v \in User \ {u} : salt'[v] = salt[v]
      /\ \A j \in Conn \ {k} : down'[j] = down[j]
      /\ link[k] = "up" => InStep(s, salt'[u], k, up[k], down'[k])
  <2>1. CASE state[u] \in Online
    BY <1>0, <1>1, <1>2, <1>4, <2>1, RecvInStep
  <2>2. CASE state[u] \notin Online
    <3>1. s = state[u] /\ UNCHANGED <<salt, buffer, down>>
      BY <1>2, <2>2
    <3>2. s = "CONNECTION_LOST"
      BY <1>2, <2>2, <3>1
    <3> QED
      BY <1>0, <3>1, <3>2, OfflineInStep DEF TypeOK
  <2> QED
    BY <2>1, <2>2
<1>6. CASE /\ s \notin {"CONNECTION_LOST", "AUTHORIZATION_FAILED"}
           /\ state' = [state EXCEPT ![u] = s] /\ UNCHANGED <<typed, up, link>>
  <2>1. Sends(k)
    BY <1>0, <1>3, <1>6, SendsNothing
  <2>2. state' \in [User -> ClientState] /\ state'[u] = s /\ \A v \in User \ {u} : state'[v] = state[v]
    BY <1>0, <1>6, StateSets DEF TypeOK, ClientState
  <2> QED
    BY <1>1, <1>3, <1>5, <1>6, <2>1, <2>2 DEF Moves
<1>7. ASSUME NEW next, Input(u, s, next),
             \/ state' = [state EXCEPT ![u] = next]
             \/ link[k] = "broken" /\ state' = [state EXCEPT ![u] = "CONNECTION_LOST"]
      PROVE  Moves(u, k)
  <2>1. /\ Sends(k) /\ next \in Sent \cup {"AUTHORIZED"}
        /\ link[k] = "up" => InStep(next, salt'[u], k, up'[k], down'[k])
        /\ link[k] = "broken" => link'[k] = "broken"
    BY <1>0, <1>1, <1>3, <1>5, <1>7, InputInStep
  <2>2. /\ state' \in [User -> ClientState] /\ \A v \in User \ {u} : state'[v] = state[v]
        /\ state'[u] = next \/ link[k] = "broken"
    <3>1. state \in [User -> ClientState] /\ next \in ClientState /\ "CONNECTION_LOST" \in ClientState
      BY <1>0, <2>1, StateSets DEF TypeOK, ClientState
    <3> QED
      BY <1>7, <3>1
  <2>3. link'[k] = "up" => link[k] = "up"
    BY <2>1 DEF Sends
  <2> QED
    BY <1>1, <1>3, <1>5, <2>1, <2>2, <2>3 DEF Moves
<1>8. CASE /\ s = "AUTHORIZATION_FAILED"
           /\ state' = [state EXCEPT ![u] = "CONNECTION_LOST"]
           /\ UNCHANGED <<typed, up, link>>
  <2>1. Sends(k)
    BY <1>0, <1>3, <1>8, SendsNothing
  <2>2. /\ state' \in [User -> ClientState] /\ state'[u] = "CONNECTION_LOST"
        /\ \A v \in User \ {u} : state'[v] = state[v]
    BY <1>0, <1>8, StateSets DEF TypeOK, ClientState
  <2> QED
    BY <1>1, <1>3, <1>5, <2>1, <2>2, OfflineInStep DEF Moves
<1>9. CASE /\ link' = [link EXCEPT ![k] = "broken"]
           /\ state' = [state EXCEPT ![u] = "WAIT_RECONNECT"]
           /\ UNCHANGED <<typed, up>>
  <2>1. Sends(k)
    BY <1>0, <1>1, <1>3, <1>9, HungUp
  <2>2. /\ state' \in [User -> ClientState] /\ state'[u] = "WAIT_RECONNECT"
        /\ \A v \in User \ {u} : state'[v] = state[v]
    BY <1>0, <1>9, StateSets DEF TypeOK, ClientState
  <2> QED
    BY <1>1, <1>3, <1>5, <2>1, <2>2, OfflineInStep DEF Moves
<1> QED
  <2>1. Mine(u) = k
    BY <1>1 DEF Mine
  <2> QED
    BY <1>2, <1>6, <1>7, <1>8, <1>9, <2>1 DEF Switch

LEMMA WebMoves ==
    ASSUME IInv, NEW u \in User, Callback(u) \/ inputHandler(u)
    PROVE  \E k \in Conn : Moves(u, k)
<1>0. TypeOK /\ Connections /\ Threads /\ Requests /\ ClientsInStep
  BY DEF IInv
<1>1. state[u] \in Online \cup {"CONNECTING"}
  BY DEF Callback, socketCheckConnectionHandler, serverMessageHandler, socketCloseHandler, inputHandler
<1>2. PICK k \in Conn : conn[u] = k
  BY <1>0, <1>1 DEF Connections
<1>3. link[k] = "up" => InStep(state[u], salt[u], k, up[k], down[k])
  BY <1>0, <1>2 DEF ClientsInStep
<1>4. Mine(u) = k
  BY <1>2 DEF Mine
<1>5. /\ state \in [User -> ClientState] /\ salt \in [User -> Conn \cup {None}]
      /\ buffer \in [User -> Reply \cup {None}] /\ down \in [Conn -> Seq(Reply)]
  BY <1>0 DEF TypeOK, ClientState
<1>6. CASE socketCheckConnectionHandler(u)
  <2>1. /\ state[u] = "CONNECTING" /\ state' = [state EXCEPT ![u] = "NICKNAME_ENTER"]
        /\ UNCHANGED <<conn, salt, buffer, typed, link, up, down, server>>
    BY <1>6 DEF socketCheckConnectionHandler
  <2>2. Sends(k)
    <3>1. thread' = thread
      BY <2>1 DEF server, server_but_undefined
    <3> QED
      BY <1>0, <2>1, <3>1, SendsNothing
  <2>3. "NICKNAME_ENTER" \in ClientState
    BY StateSets DEF Online, Enter
  <2>4. link[k] = "up" => InStep("NICKNAME_ENTER", salt[u], k, up[k], down[k])
    BY <1>3, <2>1 DEF InStep
  <2> QED
    BY <1>2, <1>5, <2>1, <2>2, <2>3, <2>4 DEF Moves
<1>7. CASE serverMessageHandler(u)
  <2>1. /\ state[u] \in Online /\ down[k] # <<>>
        /\ state' = [state EXCEPT ![u] = Processed(@, Head(down[k]))]
        /\ TakeSalt(u, Head(down[k]))
        /\ down' = [down EXCEPT ![k] = Tail(@)]
        /\ UNCHANGED <<conn, buffer, typed, link, up, server>>
    BY <1>4, <1>7 DEF serverMessageHandler
  <2>2. Sends(k)
    <3>1. thread' = thread
      BY <2>1 DEF server, server_but_undefined
    <3> QED
      BY <1>0, <2>1, <3>1, SendsNothing
  <2>3. /\ salt' \in [User -> Conn \cup {None}] /\ down' \in [Conn -> Seq(Reply)]
        /\ \A v \in User \ {u} : salt'[v] = salt[v]
        /\ \A j \in Conn \ {k} : down'[j] = down[j]
        /\ link[k] = "up" =>
               InStep(Processed(state[u], Head(down[k])), salt'[u], k, up[k], down'[k])
    BY <1>0, <1>3, <2>1, OneTaken
  <2>4. Processed(state[u], Head(down[k])) \in ClientState
    BY <2>1, ProcessedOnline, StateSets
  <2>5. /\ state' \in [User -> ClientState] /\ state'[u] = Processed(state[u], Head(down[k]))
        /\ \A v \in User \ {u} : state'[v] = state[v]
    BY <1>5, <2>1, <2>4
  <2> QED
    BY <1>2, <1>5, <2>1, <2>2, <2>3, <2>5 DEF Moves
<1>8. CASE inputHandler(u)
  <2>1. PICK next \in Sent \cup {"AUTHORIZED"} :
           Input(u, state[u], next) /\ state' = [state EXCEPT ![u] = next]
    BY <1>8 DEF inputHandler
  <2>2. UNCHANGED <<conn, salt, buffer, down, server>>
    BY <1>8 DEF inputHandler
  <2>3. thread' = thread
    BY <2>2 DEF server, server_but_undefined
  <2>4. /\ Sends(k)
        /\ link[k] = "up" => InStep(next, salt'[u], k, up'[k], down[k])
    BY <1>0, <1>2, <1>3, <1>5, <2>1, <2>2, <2>3, InputInStep
  <2>5. /\ state' \in [User -> ClientState] /\ state'[u] = next
        /\ \A v \in User \ {u} : state'[v] = state[v]
    BY <1>5, <2>1, StateSets
  <2>6. link'[k] = "up" => link[k] = "up"
    BY <2>4 DEF Sends
  <2> QED
    BY <1>2, <1>5, <2>2, <2>4, <2>5, <2>6 DEF Moves
<1>9. CASE socketCloseHandler(u)
  <2>1. /\ state' = [state EXCEPT ![u] = "WAIT_RECONNECT"]
        /\ link' = [link EXCEPT ![k] = "broken"]
        /\ UNCHANGED <<conn, salt, buffer, typed, up, down, server>>
    BY <1>4, <1>9 DEF socketCloseHandler
  <2>2. Sends(k)
    <3>1. thread' = thread
      BY <2>1 DEF server, server_but_undefined
    <3> QED
      BY <1>0, <1>2, <2>1, <3>1, HungUp
  <2>3. /\ state' \in [User -> ClientState] /\ state'[u] = "WAIT_RECONNECT"
        /\ \A v \in User \ {u} : state'[v] = state[v]
    BY <1>5, <2>1, StateSets
  <2> QED
    BY <1>2, <1>5, <2>1, <2>2, <2>3, OfflineInStep DEF Moves
<1> QED
  BY <1>6, <1>7, <1>8, <1>9 DEF Callback

\* A user who presses a key, or tries in vain to connect.
Idles(u) ==
    /\ UNCHANGED <<conn, salt, buffer, typed, link, up, down, server>>
    /\ \E s \in {"WAIT_RECONNECT", "CONNECT", "QUIT"} : state' = [state EXCEPT ![u] = s]

\* A user who connects.
Starts(u) ==
    /\ Connects(u)
    /\ \E s \in {"NICKNAME_ENTER", "CONNECTING"} : state' = [state EXCEPT ![u] = s]

LEMMA UserSteps ==
    ASSUME IInv, NEW u \in User,
           \/ Turn(u) \/ Key(u) \/ Connect(u)
           \/ connect(u) \/ Callback(u) \/ inputHandler(u)
    PROVE  Idles(u) \/ Starts(u) \/ \E k \in Conn : Moves(u, k)
<1>1. CASE Key(u)
  BY <1>1 DEF Key, Idles
<1>2. CASE Connect(u)
  BY <1>2 DEF Connect, Idles, Starts
<1>3. CASE connect(u)
  BY <1>3 DEF connect, Starts
<1> QED
  BY <1>1, <1>2, <1>3, TurnMoves, WebMoves

-----------------------------------------------------------------------------
(* The steps of the users preserve the invariant.                           *)

LEMMA SameServer ==
    ASSUME UNCHANGED server
    PROVE  UNCHANGED <<thread, nickname, new_password, authorized, waiting_reconnect, socket, held,
                       rows, contended, undefined>>
BY DEF server, server_but_undefined

\* What is about the server alone stays as it is, while what is broken stays broken and
\* what is gone stays gone.
LEMMA ServerKept ==
    ASSUME Threads, Sockets, Waiting, HandOvers, UNCHANGED server,
           \A k \in Conn : link[socket[k]] = "broken" => link'[socket[k]] = "broken"
    PROVE  Threads' /\ Sockets' /\ Waiting' /\ HandOvers'
<1> USE SameServer
<1>1. Threads' /\ HandOvers'
  BY DEF Threads, Accepted, Authorizing, HandOvers
<1>2. Sockets'
  BY DEF Sockets
<1>3. Waiting'
  BY DEF Waiting
<1> QED
  BY <1>1, <1>2, <1>3

LEMMA IdlesKeeps == ASSUME IInv, NEW u \in User, Idles(u) PROVE IInv'
<1>1. /\ UNCHANGED <<conn, salt, buffer, typed, link, up, down, thread, nickname, new_password,
                     authorized, waiting_reconnect, socket, held, rows, contended, undefined>>
      /\ UNCHANGED server
  BY SameServer DEF Idles
<1>2. PICK s \in {"WAIT_RECONNECT", "CONNECT", "QUIT"} : state' = [state EXCEPT ![u] = s]
  BY DEF Idles
<1>3. TypeOK'
  <2>1. state' \in [User -> ClientState]
    BY <1>2, StateSets DEF IInv, TypeOK, ClientState
  <2> QED
    BY <1>1, <2>1 DEF IInv, TypeOK, ClientState
<1>4. /\ state'[u] = s
      /\ \A v \in User \ {u} : state'[v] = state[v]
  BY <1>2 DEF IInv, TypeOK
<1>5. Connections'
  <2>1. s \notin Online \cup {"CONNECTING", "CONNECTION_LOST"}
    BY StateSets
  <2> QED
    BY <1>1, <1>4, <2>1 DEF IInv, Connections
<1>6. Threads' /\ Sockets' /\ Waiting' /\ HandOvers'
  BY <1>1, ServerKept DEF IInv
<1>7. Requests'
  BY <1>1 DEF IInv, Requests, Asked
<1>8. ClientsInStep'
  <2>1. SUFFICES ASSUME NEW v \in User, NEW j \in Conn, conn[v] = j, link[j] = "up"
                 PROVE  InStep(state[v], salt[v], j, up[j], down[j])'
    BY <1>1 DEF ClientsInStep
  <2>2. CASE v = u
    BY <1>4, <2>2, OfflineInStep DEF InStep
  <2>3. CASE v # u
    <3>1. InStep(state[v], salt[v], j, up[j], down[j])
      BY <2>1 DEF IInv, ClientsInStep
    <3> QED
      BY <1>1, <1>4, <2>3, <3>1 DEF InStep, Rejected, Let_in, Accepted, Authorizing
  <2> QED
    BY <2>2, <2>3
<1>9. AuthorizedByPassword' /\ Owned'
  BY <1>1 DEF IInv, AuthorizedByPassword, Accepted, Authorizing, Owned, Owner, Rejected
<1> QED
  BY <1>3, <1>5, <1>6, <1>7, <1>8, <1>9 DEF IInv

LEMMA MovesKeeps ==
    ASSUME IInv, NEW u \in User, NEW k \in Conn, Moves(u, k)
    PROVE  IInv'
<1>0. /\ UNCHANGED <<conn, thread, nickname, new_password, authorized, waiting_reconnect, socket,
                     held, rows, contended, undefined>>
      /\ UNCHANGED server
  BY SameServer DEF Moves
<1>1. conn[u] = k /\ link[k] # "none"
  <2>1. k # 0
    BY ConstantsAssumption DEF Conn
  <2> QED
    BY <2>1 DEF Moves, IInv, Connections
<1>2. /\ up' \in [Conn -> Seq(Request)] /\ link' \in [Conn -> Link]
      /\ typed' \in [Conn -> Password \cup {None}]
      /\ \A j \in Conn \ {k} : up'[j] = up[j] /\ link'[j] = link[j] /\ typed'[j] = typed[j]
      /\ link'[k] \in {link[k], "broken"}
      /\ typed'[k] # typed[k] => thread[k] \in Dialogue
  BY DEF Moves, Sends
<1>3. /\ state' \in [User -> ClientState]
      /\ salt' \in [User -> Conn \cup {None}] /\ buffer' \in [User -> Reply \cup {None}]
      /\ down' \in [Conn -> Seq(Reply)]
      /\ \A v \in User \ {u} : state'[v] = state[v] /\ salt'[v] = salt[v]
      /\ \A j \in Conn \ {k} : down'[j] = down[j]
      /\ link'[k] = "up" => InStep(state'[u], salt'[u], k, up'[k], down'[k])
  BY DEF Moves
<1>4. TypeOK'
  BY <1>0, <1>2, <1>3 DEF IInv, TypeOK, ClientState, Link
<1>5. Connections'
  <2>1. \A j \in Conn : link'[j] = "none" <=> link[j] = "none"
    BY <1>1, <1>2
  <2>2. \A v \in User : conn[v] # 0 => conn[v] \in Conn
    BY ConstantsAssumption DEF IInv, TypeOK, Conn
  <2>3. \A v \in User : state'[v] \in Online \cup {"CONNECTING", "CONNECTION_LOST"} => conn[v] \in Conn
    BY <1>1, <1>3 DEF IInv, Connections
  <2>4. \A j \in Conn : link[j] = "none" => up'[j] = up[j] /\ down'[j] = down[j]
    BY <1>1, <1>2, <1>3
  <2> QED
    BY <1>0, <2>1, <2>2, <2>3, <2>4 DEF IInv, Connections
<1>6. Threads' /\ Sockets' /\ Waiting' /\ HandOvers'
  <2>1. \A j \in Conn : link[socket[j]] = "broken" => link'[socket[j]] = "broken"
    <3>1. \A j \in Conn : socket[j] \in Conn
      BY DEF IInv, TypeOK
    <3> QED
      BY <1>2, <3>1
  <2> QED
    BY <1>0, <2>1, ServerKept DEF IInv
<1>7. Requests'
  <2>1. SUFFICES ASSUME NEW j \in Conn, thread[j] \in Dialogue
                 PROVE  \/ up'[j] = <<>>
                        \/ \E request \in Request : up'[j] = <<request>> /\ Asked(j, request)'
    BY <1>0 DEF Requests
  <2>2. CASE j = k
    BY <2>1, <2>2 DEF Moves, Sends
  <2>3. CASE j # k
    BY <1>0, <1>2, <2>1, <2>3 DEF IInv, Requests, Asked
  <2> QED
    BY <2>2, <2>3
<1>8. ClientsInStep'
  <2>1. SUFFICES ASSUME NEW v \in User, NEW j \in Conn, conn[v] = j, link'[j] = "up"
                 PROVE  InStep(state[v], salt[v], j, up[j], down[j])'
    BY <1>0 DEF ClientsInStep
  <2>2. CASE v = u
    <3>1. j = k /\ InStep(state'[u], salt'[u], k, up'[k], down'[k])
      BY <1>1, <1>3, <2>1, <2>2
    <3> QED
      BY <1>0, <2>2, <3>1 DEF InStep, Rejected, Let_in, Accepted, Authorizing
  <2>3. CASE v # u
    <3>1. j # k
      <4>1. conn[u] # 0
        BY <1>1, ConstantsAssumption DEF Conn
      <4> QED
        BY <1>1, <2>1, <2>3, <4>1 DEF IInv, Connections
    <3>2. InStep(state[v], salt[v], j, up[j], down[j])
      BY <1>2, <2>1, <3>1 DEF IInv, ClientsInStep
    <3>3. /\ state'[v] = state[v] /\ salt'[v] = salt[v] /\ up'[j] = up[j] /\ down'[j] = down[j]
          /\ thread' = thread /\ authorized' = authorized
      BY <1>0, <1>2, <1>3, <2>3, <3>1
    <3> QED
      BY <3>2, <3>3 DEF InStep, Rejected, Let_in, Accepted, Authorizing
  <2> QED
    BY <2>2, <2>3
<1>9. AuthorizedByPassword'
  <2>1. \A j \in Conn : Accepted(j) => typed'[j] = typed[j]
    <3>1. \A j \in Conn : Accepted(j) => thread[j] \notin Dialogue
      BY DEF IInv, Threads, Accepted, Authorizing, Dialogue
    <3> QED
      BY <1>2, <3>1
  <2>2. \A j \in Conn : Accepted(j)' = Accepted(j)
    BY <1>0 DEF Accepted
  <2> QED
    BY <1>0, <2>1, <2>2 DEF IInv, AuthorizedByPassword
<1>10. Owned'
  <2>1. \A j \in Conn : link'[j] = "up" => link[j] = "up"
    BY <1>2
  <2> QED
    BY <1>0, <2>1 DEF IInv, Owned, Owner, Accepted, Authorizing, Rejected
<1> QED
  BY <1>4, <1>5, <1>6, <1>7, <1>8, <1>9, <1>10 DEF IInv

LEMMA StartsKeeps == ASSUME IInv, NEW u \in User, Starts(u) PROVE IInv'
<1>1. PICK k \in Conn :
        /\ \A d \in Conn : link[d] = "none" <=> d >= k
        /\ conn' = [conn EXCEPT ![u] = k]
        /\ link' = [link EXCEPT ![k] = "up"]
        /\ thread' = [thread EXCEPT ![k] = "WAIT_NICKNAME"]
        /\ UNCHANGED <<salt, buffer, typed, up, down, nickname, new_password, authorized,
                       waiting_reconnect, socket, held, rows, contended, undefined>>
  BY DEF Starts, Connects
<1>2. PICK s \in {"NICKNAME_ENTER", "CONNECTING"} : state' = [state EXCEPT ![u] = s]
  BY DEF Starts
<1>3. k \in Nat /\ k # 0
  BY ConstantsAssumption DEF Conn
<1>4. /\ link[k] = "none" /\ thread[k] = "none" /\ up[k] = <<>> /\ down[k] = <<>>
      /\ \A v \in User : conn[v] # k
  <2>1. link[k] = "none"
    BY <1>1, <1>3
  <2> QED
    BY <1>3, <2>1 DEF IInv, Connections
<1>5. /\ ~authorized[k] /\ socket[k] = k
      /\ \A j \in Conn : socket[j] = k => j = k
      /\ \A j \in Conn : held[j] # k
  <2>1. ~authorized[k] /\ socket[k] = k
    BY <1>4 DEF IInv, Threads, Accepted, Authorizing, Sockets
  <2>2. \A j \in Conn : socket[j] = k => j = k
    BY <1>4 DEF IInv, Sockets
  <2>3. \A j \in Conn : held[j] # k
    BY <1>3, <1>4, ConstantsAssumption DEF IInv, Waiting
  <2> QED
    BY <2>1, <2>2, <2>3
<1>6. /\ thread'[k] = "WAIT_NICKNAME" /\ \A j \in Conn \ {k} : thread'[j] = thread[j]
      /\ link'[k] = "up" /\ \A j \in Conn \ {k} : link'[j] = link[j]
      /\ conn'[u] = k /\ \A v \in User \ {u} : conn'[v] = conn[v]
      /\ state'[u] = s /\ \A v \in User \ {u} : state'[v] = state[v]
  BY <1>1, <1>2 DEF IInv, TypeOK
<1>7. TypeOK'
  <2>1. state' \in [User -> ClientState]
    <3>1. s \in ClientState
      BY DEF ClientState, Online, Enter
    <3> QED
      BY <1>2, <3>1 DEF IInv, TypeOK, ClientState
  <2>2. conn' \in [User -> 0 .. MaxConnections]
    BY <1>1, ConstantsAssumption DEF IInv, TypeOK, Conn
  <2>3. link' \in [Conn -> Link] /\ thread' \in [Conn -> Places]
    BY <1>1 DEF IInv, TypeOK, Link, Places, Authorizing, Dialogue
  <2> QED
    BY <1>1, <2>1, <2>2, <2>3 DEF IInv, TypeOK, ClientState, Link, Places, Authorizing
<1>8. Connections'
  <2>1. /\ \A v \in User : state'[v] \in Online \cup {"CONNECTING", "CONNECTION_LOST"} => conn'[v] \in Conn
        /\ \A v \in User : conn'[v] # 0 => link'[conn'[v]] # "none"
    <3> SUFFICES ASSUME NEW v \in User
                 PROVE  /\ state'[v] \in Online \cup {"CONNECTING", "CONNECTION_LOST"} => conn'[v] \in Conn
                        /\ conn'[v] # 0 => link'[conn'[v]] # "none"
      OBVIOUS
    <3>1. CASE v = u
      BY <1>6, <3>1
    <3>2. CASE v # u
      <4>1. conn'[v] = conn[v] /\ state'[v] = state[v] /\ conn[v] # k
        BY <1>4, <1>6, <3>2
      <4>2. conn[v] # 0 => conn[v] \in Conn
        BY ConstantsAssumption DEF IInv, TypeOK, Conn
      <4>3. conn[v] # 0 => link'[conn[v]] = link[conn[v]]
        BY <1>6, <4>1, <4>2
      <4> QED
        BY <4>1, <4>2, <4>3 DEF IInv, Connections
    <3> QED
      BY <3>1, <3>2
  <2>2. \A v, w \in User : conn'[v] = conn'[w] /\ conn'[v] # 0 => v = w
    BY <1>4, <1>6 DEF IInv, Connections
  <2>3. \A j \in Conn : /\ link'[j] = "none" <=> thread'[j] = "none"
                        /\ link'[j] = "none" => up'[j] = <<>> /\ down'[j] = <<>>
    BY <1>1, <1>6 DEF IInv, Connections
  <2> QED
    BY <2>1, <2>2, <2>3 DEF Connections
<1>9. Threads' /\ Sockets' /\ HandOvers'
  <2>1. held[k] = None
    BY <1>4 DEF IInv, Threads, Accepted, Authorizing
  <2>2. Threads'
    BY <1>1, <1>5, <1>6, <2>1 DEF IInv, Threads, Accepted, Authorizing, Dialogue
  <2>3. Sockets'
    BY <1>1, <1>4, <1>5, <1>6 DEF IInv, Sockets, TypeOK
  <2>4. HandOvers'
    <3>1. \A j \in Conn : held[j] # None => held[j] \in Conn /\ thread'[held[j]] = thread[held[j]]
      BY <1>5, <1>6 DEF IInv, TypeOK
    <3> QED
      BY <1>1, <3>1 DEF IInv, HandOvers
  <2> QED
    BY <2>2, <2>3, <2>4
<1>10. Waiting'
  <2>1. \A j \in Conn : held[j] # None => held[j] \in Conn /\ thread'[held[j]] = thread[held[j]]
    BY <1>5, <1>6 DEF IInv, TypeOK
  <2>2. \A j \in Conn : waiting_reconnect[j] => thread'[j] = thread[j] /\ link'[socket[j]] = link[socket[j]]
    <3> SUFFICES ASSUME NEW j \in Conn, waiting_reconnect[j]
                 PROVE  thread'[j] = thread[j] /\ link'[socket[j]] = link[socket[j]]
      OBVIOUS
    <3>1. j # k
      BY <1>4 DEF IInv, Waiting
    <3>2. socket[j] \in Conn /\ socket[j] # k
      BY <1>5, <3>1 DEF IInv, TypeOK
    <3> QED
      BY <1>6, <3>1, <3>2
  <2> QED
    BY <1>1, <2>1, <2>2 DEF IInv, Waiting
<1>11. Requests'
  <2>1. SUFFICES ASSUME NEW j \in Conn, thread'[j] \in Dialogue
                 PROVE  \/ up'[j] = <<>>
                        \/ \E request \in Request : up'[j] = <<request>> /\ Asked(j, request)'
    BY DEF Requests
  <2>2. CASE j = k
    BY <1>1, <1>4, <2>2
  <2>3. CASE j # k
    <3>1. thread'[j] = thread[j] /\ typed'[j] = typed[j] /\ up'[j] = up[j]
      BY <1>1, <1>6, <2>3
    <3> QED
      BY <2>1, <3>1 DEF IInv, Requests, Asked
  <2> QED
    BY <2>2, <2>3
<1>12. ClientsInStep'
  <2>1. SUFFICES ASSUME NEW v \in User, NEW j \in Conn, conn'[v] = j, link'[j] = "up"
                 PROVE  InStep(state[v], salt[v], j, up[j], down[j])'
    BY DEF ClientsInStep
  <2>2. CASE v = u
    BY <1>1, <1>4, <1>6, <2>1, <2>2 DEF InStep
  <2>3. CASE v # u
    <3>1. j # k /\ conn[v] = j
      BY <1>4, <1>6, <2>1, <2>3
    <3>2. InStep(state[v], salt[v], j, up[j], down[j])
      BY <1>6, <2>1, <3>1 DEF IInv, ClientsInStep
    <3>3. /\ state'[v] = state[v] /\ salt'[v] = salt[v] /\ up'[j] = up[j] /\ down'[j] = down[j]
          /\ thread'[j] = thread[j] /\ authorized'[j] = authorized[j]
      BY <1>1, <1>6, <2>3, <3>1
    <3> QED
      BY <3>2, <3>3 DEF InStep, Rejected, Let_in, Accepted, Authorizing
  <2> QED
    BY <2>2, <2>3
<1>13. AuthorizedByPassword'
  BY <1>1 DEF IInv, AuthorizedByPassword, Accepted, Authorizing
<1>14. Owned'
  <2>1. ASSUME ~contended, NEW j \in Conn, link'[j] = "up", thread'[j] \notin Dialogue
        PROVE  Rejected(j)' \/ \E c \in Conn : Owner(j, c)'
    <3>1. j # k
      BY <1>6, <2>1 DEF Dialogue
    <3>2. thread'[j] = thread[j] /\ link[j] = "up"
      BY <1>6, <2>1, <3>1
    <3>3. \A c \in Conn : Owner(j, c) => Owner(j, c)'
      BY <1>1, <1>5, <1>6, <3>1 DEF Owner, Accepted, Authorizing
    <3> QED
      BY <1>1, <2>1, <3>2, <3>3 DEF IInv, Owned, Rejected
  <2> QED
    BY <1>1, <2>1 DEF Owned
<1> QED
  BY <1>7, <1>8, <1>9, <1>10, <1>11, <1>12, <1>13, <1>14 DEF IInv

-----------------------------------------------------------------------------
(* The dialogue preserves the invariant.                                    *)

\* Nobody has the socket of a thread in the dialogue, or is about to hand over to it.
LEMMA InDialogue ==
    ASSUME IInv, NEW k \in Conn, thread[k] \in Dialogue
    PROVE  /\ ~authorized[k] /\ ~waiting_reconnect[k] /\ socket[k] = k /\ held[k] = None
           /\ \A j \in Conn : socket[j] = k => j = k
           /\ \A j \in Conn : held[j] # k
<1>1. ~authorized[k] /\ ~waiting_reconnect[k] /\ held[k] = None
  BY DEF IInv, Threads, Accepted, Authorizing, Waiting, Dialogue
<1>2. socket[k] = k /\ \A j \in Conn : socket[j] = k => j = k
  BY <1>1 DEF IInv, Sockets, Dialogue
<1>3. \A j \in Conn : held[j] # k
  BY ConstantsAssumption DEF IInv, Waiting, Dialogue
<1> QED
  BY <1>1, <1>2, <1>3

\* The string that a thread in the dialogue receives is the only one under way, and
\* nothing is under way to its client.
LEMMA RequestTaken ==
    ASSUME IInv, NEW k \in Conn, thread[k] \in Dialogue, up[k] # <<>>
    PROVE  \E request \in Request :
              /\ up[k] = <<request>> /\ Head(up[k]) = request /\ Tail(up[k]) = <<>>
              /\ Asked(k, request)
<1>1. PICK request \in Request : up[k] = <<request>> /\ Asked(k, request)
  BY DEF IInv, Requests
<1>2. Head(up[k]) = request /\ Tail(up[k]) = <<>>
  BY <1>1, One
<1> QED
  BY <1>1, <1>2

\* What the thread k may change when it receives a string of the dialogue.
Answers(k) ==
    /\ thread[k] \in Dialogue /\ up[k] # <<>> /\ Take(k)
    /\ UNCHANGED <<user, link, authorized, waiting_reconnect, socket, held, contended, undefined>>
    /\ TypeOK'
    /\ \A j \in Conn \ {k} :
          thread'[j] = thread[j] /\ nickname'[j] = nickname[j] /\ down'[j] = down[j]
    /\ thread'[k] \in (Dialogue \ {"WAIT_NICKNAME"}) \cup Authorizing \cup {"leaving"}
    /\ thread'[k] # "leaving" => nickname'[k] \in Nickname
    /\ \A s, a : InStep(s, a, k, up[k], down[k]) => InStep(s, a, k, up[k], down[k])'

LEMMA AnswersKeeps ==
    ASSUME IInv, NEW k \in Conn, Answers(k), AuthorizedByPassword'
    PROVE  IInv'
<1>1. /\ ~authorized[k] /\ ~waiting_reconnect[k] /\ socket[k] = k /\ held[k] = None
      /\ \A j \in Conn : socket[j] = k => j = k
      /\ \A j \in Conn : held[j] # k
  BY InDialogue DEF Answers
<1>2. up'[k] = <<>> /\ \A j \in Conn \ {k} : up'[j] = up[j]
  <2>1. Tail(up[k]) = <<>>
    BY RequestTaken DEF Answers
  <2> QED
    BY <2>1 DEF Answers, Take, IInv, TypeOK
<1>3. /\ UNCHANGED <<state, conn, salt, buffer, typed, link, authorized, waiting_reconnect, socket,
                       held, contended, undefined>>
      /\ thread[k] \in Dialogue /\ TypeOK'
      /\ \A j \in Conn \ {k} :
            thread'[j] = thread[j] /\ nickname'[j] = nickname[j] /\ down'[j] = down[j]
      /\ thread'[k] \in (Dialogue \ {"WAIT_NICKNAME"}) \cup Authorizing \cup {"leaving"}
      /\ thread'[k] # "leaving" => nickname'[k] \in Nickname
  BY DEF Answers, user
<1>4. thread'[k] \notin {"none", "find", "hand_over", "session", "gone"}
  BY <1>3 DEF Dialogue, Authorizing
<1>5. Connections'
  <2>1. link[k] # "none"
    BY <1>3 DEF IInv, Connections, Dialogue
  <2> QED
    BY <1>2, <1>3, <1>4, <2>1 DEF IInv, Connections
<1>6. Threads'
  <2>1. SUFFICES ASSUME NEW j \in Conn
                 PROVE  /\ authorized'[j] => thread'[j] \in {"find", "hand_over", "session", "leaving"}
                        /\ thread'[j] \in {"find", "hand_over", "session"} => authorized'[j]
                        /\ Accepted(j)' \/ thread'[j] \in Dialogue \ {"WAIT_NICKNAME"}
                              => nickname'[j] \in Nickname
                        /\ thread'[j] = "hand_over" <=> held'[j] # None
    BY DEF Threads
  <2>2. CASE j = k
    <3>1. thread'[k] = "leaving" => ~Accepted(k)' /\ thread'[k] \notin Dialogue
      BY <1>1, <1>3 DEF Accepted, Dialogue, Authorizing
    <3> QED
      BY <1>1, <1>3, <1>4, <2>2, <3>1
  <2>3. CASE j # k
    <3>1. Accepted(j)' = Accepted(j)
      BY <1>3, <2>3 DEF Accepted
    <3> QED
      BY <1>3, <2>3, <3>1 DEF IInv, Threads
  <2> QED
    BY <2>2, <2>3
<1>7. Sockets'
  <2>1. \A j \in Conn \ {k} : socket[j] \in Conn \ {k}
    BY <1>1 DEF IInv, TypeOK
  <2> QED
    BY <1>1, <1>3, <2>1 DEF IInv, Sockets
<1>8. Waiting'
  <2>1. \A j \in Conn : held[j] # None => thread'[held[j]] = thread[held[j]]
    <3>1. \A j \in Conn : held[j] # None => held[j] \in Conn \ {k}
      BY <1>1 DEF IInv, TypeOK
    <3> QED
      BY <1>3, <3>1
  <2>2. \A j \in Conn : waiting_reconnect[j] => j # k
    BY <1>1
  <2> QED
    BY <1>3, <2>1, <2>2 DEF IInv, Waiting
<1>9. HandOvers'
  <2>1. \A j \in Conn : held[j] # None => thread'[held[j]] = thread[held[j]]
    <3>1. \A j \in Conn : held[j] # None => held[j] \in Conn \ {k}
      BY <1>1 DEF IInv, TypeOK
    <3> QED
      BY <1>3, <3>1
  <2> QED
    BY <1>3, <2>1 DEF IInv, HandOvers
<1>10. Requests'
  <2>1. ASSUME NEW j \in Conn \ {k}
        PROVE  \A request : Asked(j, request)' = Asked(j, request)
    BY <1>3 DEF Asked
  <2> QED
    BY <1>2, <1>3, <2>1 DEF IInv, Requests
<1>11. ClientsInStep'
  <2>1. SUFFICES ASSUME NEW v \in User, NEW j \in Conn, conn[v] = j, link[j] = "up"
                 PROVE  InStep(state[v], salt[v], j, up[j], down[j])'
    BY <1>3 DEF ClientsInStep
  <2>2. InStep(state[v], salt[v], j, up[j], down[j])
    BY <2>1 DEF IInv, ClientsInStep
  <2>3. CASE j = k
    <3>1. InStep(state[v], salt[v], k, up[k], down[k])
             => InStep(state[v], salt[v], k, up[k], down[k])'
      BY <1>3 DEF Answers
    <3> QED
      BY <2>2, <2>3, <3>1
  <2>4. CASE j # k
    <3>1. /\ state'[v] = state[v] /\ salt'[v] = salt[v] /\ up'[j] = up[j] /\ down'[j] = down[j]
          /\ thread'[j] = thread[j] /\ authorized'[j] = authorized[j]
      BY <1>2, <1>3, <2>4
    <3> QED
      BY <2>2, <3>1 DEF InStep, Rejected, Let_in, Accepted, Authorizing
  <2> QED
    BY <2>3, <2>4
<1>12. Owned'
  <2>1. ASSUME ~contended', NEW j \in Conn, link[j] = "up", thread'[j] \notin Dialogue
        PROVE  Rejected(j)' \/ \E c \in Conn : Owner(j, c)'
    <3>1. CASE j = k
      <4>1. thread'[k] = "leaving" => Rejected(k)'
        BY <1>1, <1>3 DEF Rejected
      <4>2. thread'[k] \in Authorizing => Owner(k, k)'
        BY <1>1, <1>3 DEF Owner, Accepted
      <4> QED
        BY <1>3, <2>1, <3>1, <4>1, <4>2
    <3>2. CASE j # k
      <4>1. Rejected(j) \/ \E c \in Conn : Owner(j, c)
        BY <1>3, <2>1, <3>2 DEF IInv, Owned
      <4>2. \A c \in Conn : Owner(j, c) => Owner(j, c)'
        BY <1>1, <1>3, <3>2 DEF Owner, Accepted, Authorizing
      <4> QED
        BY <1>3, <3>2, <4>1, <4>2 DEF Rejected
    <3> QED
      BY <3>1, <3>2
  <2> QED
    BY <1>3, <2>1 DEF Owned
<1> QED
  BY <1>3, <1>5, <1>6, <1>7, <1>8, <1>9, <1>10, <1>11, <1>12 DEF IInv

LEMMA RequestContent ==
    \A request \in Request :
        /\ request[1] = "nickname:" => request[2] \in Nickname
        /\ request[1] = "password_first:" => request[2] \in Password
        /\ request[1] \in {"password:", "password_second:"} => request[2][1] \in Password
BY DEF Request, Hash

\* Which client has sent what is under way to a thread in the dialogue.
LEMMA WhoSent ==
    ASSUME Threads, NEW k \in Conn, thread[k] \in Dialogue, up[k] # <<>>, NEW s, NEW a,
           InStep(s, a, k, up[k], down[k])
    PROVE  \/ s = "NICKNAME_SENT" /\ thread[k] = "WAIT_NICKNAME" /\ down[k] = <<>>
           \/ /\ s = "PASSWORD_REGISTER_FIRST_SENT" /\ thread[k] = "WAIT_PASSWORD_REGISTER_FIRST"
              /\ down[k] = <<>>
           \/ /\ s = "PASSWORD_REGISTER_SECOND_SENT" /\ thread[k] = "WAIT_PASSWORD_REGISTER_SECOND"
              /\ down[k] = <<>>
           \/ s = "PASSWORD_SENT" /\ thread[k] = "WAIT_PASSWORD" /\ down[k] = <<>>
           \/ s \notin Online \cup {"CONNECTING"}
<1>1. ~Let_in(k) /\ ~Rejected(k)
  BY DEF Let_in, Accepted, Authorizing, Rejected, Threads, Dialogue
<1>2. CASE s \in Enter \cup {"CONNECTING", "AUTHORIZED", "AUTHORIZATION_FAILED"}
  BY <1>1, <1>2 DEF InStep, Enter
<1>3. CASE s \in Sent
  BY <1>1, <1>3 DEF InStep, Sent, PasswordSent
<1> QED
  BY <1>2, <1>3 DEF Online

LEMMA NothingSaid ==
    ASSUME NEW s, s \notin Online \cup {"CONNECTING"}, NEW a, NEW k, NEW sent, NEW answer
    PROVE  InStep(s, a, k, sent, answer)
BY DEF InStep, Online, Enter, Sent, PasswordSent

LEMMA TakeEffect ==
    ASSUME IInv, NEW k \in Conn, thread[k] \in Dialogue, up[k] # <<>>, Take(k)
    PROVE  up' \in [Conn -> Seq(Request)] /\ up'[k] = <<>>
<1>1. Tail(up[k]) = <<>>
  BY RequestTaken
<1> QED
  BY <1>1 DEF Take, IInv, TypeOK

LEMMA PushEffect ==
    ASSUME TypeOK, NEW k \in Conn, NEW replies \in Seq(Reply), Push(k, replies)
    PROVE  /\ down' \in [Conn -> Seq(Reply)] /\ down'[k] = down[k] \o replies
           /\ \A j \in Conn \ {k} : down'[j] = down[j]
<1>1. down[k] \o replies \in Seq(Reply)
  BY ConcatProperties DEF TypeOK
<1> QED
  BY <1>1 DEF Push, TypeOK

LEMMA ReplyWords ==
    /\ \A k \in Conn : <<"password?", k>> \in Reply /\ <<"password_second?", k>> \in Reply
    /\ <<"password_first?", None>> \in Reply /\ <<"auth_ok!", None>> \in Reply
    /\ <<"auth_fail!", None>> \in Reply /\ Text \in Reply
BY DEF Reply, Text

\* A nickname is refused, or the database fails.
LEMMA LeavesDialogue ==
    ASSUME IInv, NEW k \in Conn, thread[k] \in Dialogue, up[k] # <<>>, Take(k), Goto(k, "leaving"),
           NEW n \in Nickname \cup {None}, nickname' = [nickname EXCEPT ![k] = n],
           UNCHANGED <<user, link, down, new_password, authorized, waiting_reconnect, socket, held,
                       rows, contended, undefined>>,
           thread[k] # "WAIT_PASSWORD_REGISTER_FIRST"
    PROVE  IInv'
<1>1. /\ thread' \in [Conn -> Places] /\ thread'[k] = "leaving"
      /\ \A j \in Conn \ {k} : thread'[j] = thread[j]
  BY DEF Goto, IInv, TypeOK, Places, Authorizing
<1>2. up' \in [Conn -> Seq(Request)] /\ up'[k] = <<>>
  BY TakeEffect
<1>3. /\ nickname' \in [Conn -> Nickname \cup {None}]
      /\ \A j \in Conn \ {k} : nickname'[j] = nickname[j]
  BY DEF IInv, TypeOK
<1>4. TypeOK'
  BY <1>1, <1>2, <1>3 DEF IInv, TypeOK, Places, Authorizing, user
<1>5. ~authorized[k] /\ held[k] = None
  BY InDialogue
<1>6. ASSUME NEW s, NEW a, InStep(s, a, k, up[k], down[k])
      PROVE  InStep(s, a, k, up[k], down[k])'
  <2>1. Rejected(k)'
    BY <1>1, <1>5 DEF Rejected
  <2>2. CASE s \in {"NICKNAME_SENT", "PASSWORD_REGISTER_SECOND_SENT", "PASSWORD_SENT"} /\ down[k] = <<>>
    BY <1>2, <2>1, <2>2 DEF InStep
  <2>3. CASE s \notin Online \cup {"CONNECTING"}
    BY <2>3 DEF InStep, Online, Enter, Sent, PasswordSent
  <2> QED
    BY <1>6, <2>2, <2>3, WhoSent DEF IInv
<1>7. Answers(k)
  BY <1>1, <1>3, <1>4, <1>6 DEF Answers
<1>8. \A j \in Conn : Accepted(j)' => Accepted(j) /\ j # k
  BY <1>1, <1>5 DEF Accepted, Authorizing
<1>9. AuthorizedByPassword'
  BY <1>3, <1>8 DEF IInv, AuthorizedByPassword, user
<1> QED
  BY <1>7, <1>9, AnswersKeeps

LEMMA RefusedKeeps == ASSUME IInv, NEW k \in Conn, NicknameRefused(k) PROVE IInv'
<1>1. /\ thread[k] \in Dialogue /\ up[k] # <<>> /\ thread[k] # "WAIT_PASSWORD_REGISTER_FIRST"
      /\ Take(k) /\ Goto(k, "leaving")
      /\ UNCHANGED <<user, link, down, nickname, new_password, authorized, waiting_reconnect,
                     socket, held, rows, contended, undefined>>
  BY DEF NicknameRefused, Received, Dialogue
<1>2. nickname[k] \in Nickname \cup {None} /\ nickname' = [nickname EXCEPT ![k] = nickname[k]]
  BY <1>1 DEF IInv, TypeOK
<1> QED
  BY <1>1, <1>2, LeavesDialogue

LEMMA AcceptedKeeps == ASSUME IInv, NEW k \in Conn, NicknameAccepted(k) PROVE IInv'
<1>1. /\ thread[k] = "WAIT_NICKNAME" /\ thread[k] \in Dialogue /\ up[k] # <<>> /\ Take(k)
      /\ Head(up[k])[1] = "nickname:"
      /\ nickname' = [nickname EXCEPT ![k] = Content(k)]
      /\ UNCHANGED <<user, link, new_password, authorized, waiting_reconnect, socket, held, rows,
                     contended, undefined>>
  BY DEF NicknameAccepted, Received, Dialogue
<1>2. Content(k) \in Nickname
  BY <1>1, RequestTaken, RequestContent DEF Content
<1>3. CASE Goto(k, "leaving") /\ UNCHANGED down
  BY <1>1, <1>2, <1>3, LeavesDialogue
<1>4. ASSUME NEW reply \in Reply, NEW place, Push(k, <<reply>>), Goto(k, place),
             \/ place = "WAIT_PASSWORD" /\ reply = <<"password?", k>>
             \/ place = "WAIT_PASSWORD_REGISTER_FIRST" /\ reply = <<"password_first?", None>>
      PROVE  IInv'
  <2>1. /\ thread' \in [Conn -> Places] /\ thread'[k] = place
        /\ \A j \in Conn \ {k} : thread'[j] = thread[j]
    BY <1>4 DEF Goto, IInv, TypeOK, Places, Authorizing, Dialogue
  <2>2. up' \in [Conn -> Seq(Request)] /\ up'[k] = <<>>
    BY <1>1, TakeEffect
  <2>3. /\ nickname' \in [Conn -> Nickname \cup {None}] /\ nickname'[k] \in Nickname
        /\ \A j \in Conn \ {k} : nickname'[j] = nickname[j]
    BY <1>1, <1>2 DEF IInv, TypeOK
  <2>4. /\ down' \in [Conn -> Seq(Reply)] /\ down'[k] = down[k] \o <<reply>>
        /\ \A j \in Conn \ {k} : down'[j] = down[j]
    BY <1>4, One, PushEffect DEF IInv
  <2>5. TypeOK'
    BY <1>1, <2>1, <2>2, <2>3, <2>4 DEF IInv, TypeOK, Places, Authorizing, user
  <2>6. ~authorized[k] /\ held[k] = None
    BY <1>1, InDialogue
  <2>7. ASSUME NEW s, NEW a, InStep(s, a, k, up[k], down[k])
        PROVE  InStep(s, a, k, up[k], down[k])'
    <3>1. CASE s = "NICKNAME_SENT" /\ down[k] = <<>>
      <4>1. down'[k] = <<reply>>
        BY <2>4, <3>1, NoneBefore
      <4> QED
        BY <1>4, <2>1, <2>2, <3>1, <4>1 DEF InStep
    <3>2. CASE s \notin Online \cup {"CONNECTING"}
      BY <3>2 DEF InStep, Online, Enter, Sent, PasswordSent
    <3> QED
      BY <1>1, <2>7, <3>1, <3>2, WhoSent DEF IInv
  <2>8. place \in Dialogue \ {"WAIT_NICKNAME"}
    BY <1>4 DEF Dialogue
  <2>9. Answers(k)
    BY <1>1, <2>1, <2>3, <2>4, <2>5, <2>7, <2>8 DEF Answers
  <2>10. AuthorizedByPassword'
    <3>1. \A j \in Conn : Accepted(j)' => Accepted(j) /\ j # k
      BY <1>1, <2>1, <2>6, <2>8 DEF Accepted, Authorizing, Dialogue
    <3> QED
      BY <1>1, <2>3, <3>1 DEF IInv, AuthorizedByPassword, user
  <2> QED
    BY <2>9, <2>10, AnswersKeeps
<1> QED
  <2>1. \/ Push(k, <<<<"password?", k>>>>) /\ Goto(k, "WAIT_PASSWORD")
        \/ Push(k, <<<<"password_first?", None>>>>) /\ Goto(k, "WAIT_PASSWORD_REGISTER_FIRST")
        \/ Goto(k, "leaving") /\ UNCHANGED down
    BY DEF NicknameAccepted
  <2> QED
    BY <1>3, <1>4, <2>1, ReplyWords

LEMMA FirstKeeps == ASSUME IInv, NEW k \in Conn, FirstPassword(k) PROVE IInv'
<1>1. /\ thread[k] = "WAIT_PASSWORD_REGISTER_FIRST" /\ thread[k] \in Dialogue /\ up[k] # <<>>
      /\ Head(up[k])[1] = "password_first:" /\ Take(k)
      /\ new_password' = [new_password EXCEPT ![k] = Content(k)]
      /\ Push(k, <<<<"password_second?", k>>>>) /\ Goto(k, "WAIT_PASSWORD_REGISTER_SECOND")
      /\ UNCHANGED <<user, link, nickname, authorized, waiting_reconnect, socket, held, rows,
                     contended, undefined>>
  BY DEF FirstPassword, Received, Dialogue
<1>2. Content(k) \in Password
  BY <1>1, RequestTaken, RequestContent DEF Content
<1>3. /\ thread' \in [Conn -> Places] /\ thread'[k] = "WAIT_PASSWORD_REGISTER_SECOND"
      /\ \A j \in Conn \ {k} : thread'[j] = thread[j]
  BY <1>1 DEF Goto, IInv, TypeOK, Places, Authorizing, Dialogue
<1>4. up' \in [Conn -> Seq(Request)] /\ up'[k] = <<>>
  BY <1>1, TakeEffect
<1>5. new_password' \in [Conn -> Password \cup {None}]
  BY <1>1, <1>2 DEF IInv, TypeOK
<1>6. PICK reply \in Reply : reply = <<"password_second?", k>>
  BY ReplyWords
<1>7. /\ down' \in [Conn -> Seq(Reply)] /\ down'[k] = down[k] \o <<reply>>
      /\ \A j \in Conn \ {k} : down'[j] = down[j]
  BY <1>1, <1>6, One, PushEffect DEF IInv
<1>8. TypeOK'
  BY <1>1, <1>3, <1>4, <1>5, <1>7 DEF IInv, TypeOK, Places, Authorizing, user
<1>9. ~authorized[k] /\ held[k] = None /\ nickname[k] \in Nickname
  BY <1>1, InDialogue DEF IInv, Threads, Accepted, Authorizing, Dialogue
<1>10. ASSUME NEW s, NEW a, InStep(s, a, k, up[k], down[k])
       PROVE  InStep(s, a, k, up[k], down[k])'
  <2>1. CASE s = "PASSWORD_REGISTER_FIRST_SENT" /\ down[k] = <<>>
    <3>1. down'[k] = <<reply>>
      BY <1>7, <2>1, NoneBefore
    <3> QED
      BY <1>3, <1>4, <1>6, <2>1, <3>1 DEF InStep
  <2>2. CASE s \notin Online \cup {"CONNECTING"}
    BY <2>2 DEF InStep, Online, Enter, Sent, PasswordSent
  <2> QED
    BY <1>1, <1>10, <2>1, <2>2, WhoSent DEF IInv
<1>11. Answers(k)
  BY <1>1, <1>3, <1>7, <1>8, <1>9, <1>10 DEF Answers, Dialogue
<1>12. AuthorizedByPassword'
  <2>1. \A j \in Conn : Accepted(j)' => Accepted(j)
    BY <1>1, <1>3 DEF Accepted, Authorizing
  <2> QED
    BY <1>1, <2>1 DEF IInv, AuthorizedByPassword, user
<1> QED
  BY <1>11, <1>12, AnswersKeeps

LEMMA FailsKeeps ==
    ASSUME IInv, NEW k \in Conn, thread[k] \in {"WAIT_PASSWORD", "WAIT_PASSWORD_REGISTER_SECOND"},
           up[k] # <<>>, Take(k), Fails(k),
           UNCHANGED <<user, link, nickname, new_password, authorized, waiting_reconnect, socket,
                       held, contended, undefined>>
    PROVE  IInv'
<1>1. thread[k] \in Dialogue
  BY DEF Dialogue
<1>2. /\ thread' \in [Conn -> Places] /\ thread'[k] = "leaving"
      /\ \A j \in Conn \ {k} : thread'[j] = thread[j]
  BY DEF Fails, Goto, IInv, TypeOK, Places, Authorizing
<1>3. up' \in [Conn -> Seq(Request)] /\ up'[k] = <<>>
  BY <1>1, TakeEffect
<1>4. PICK reply \in Reply : reply = <<"auth_fail!", None>>
  BY ReplyWords
<1>5. /\ down' \in [Conn -> Seq(Reply)] /\ down'[k] = down[k] \o <<reply>>
      /\ \A j \in Conn \ {k} : down'[j] = down[j]
  BY <1>4, One, PushEffect DEF Fails, IInv
<1>6. rows' = rows
  BY DEF Fails
<1>7. TypeOK'
  BY <1>2, <1>3, <1>5, <1>6 DEF IInv, TypeOK, Places, Authorizing, user
<1>8. ~authorized[k] /\ held[k] = None
  BY <1>1, InDialogue
<1>9. ASSUME NEW s, NEW a, InStep(s, a, k, up[k], down[k])
      PROVE  InStep(s, a, k, up[k], down[k])'
  <2>1. CASE s \in {"PASSWORD_REGISTER_SECOND_SENT", "PASSWORD_SENT"} /\ down[k] = <<>>
    <3>1. down'[k] = <<reply>>
      BY <1>5, <2>1, NoneBefore
    <3>2. Rejected(k)'
      BY <1>2, <1>8 DEF Rejected
    <3> QED
      BY <1>3, <1>4, <2>1, <3>1, <3>2 DEF InStep
  <2>2. CASE s \notin Online \cup {"CONNECTING"}
    BY <2>2 DEF InStep, Online, Enter, Sent, PasswordSent
  <2> QED
    BY <1>1, <1>9, <2>1, <2>2, WhoSent DEF IInv
<1>10. Answers(k)
  BY <1>1, <1>2, <1>5, <1>7, <1>9 DEF Answers
<1>11. AuthorizedByPassword'
  <2>1. \A j \in Conn : Accepted(j)' => Accepted(j)
    BY <1>2 DEF Accepted, Authorizing
  <2> QED
    BY <1>6, <2>1 DEF IInv, AuthorizedByPassword, user
<1> QED
  BY <1>10, <1>11, AnswersKeeps

\* A hash that a thread in the dialogue accepts is one of the password typed last.
LEMMA AcceptedTyped ==
    ASSUME IInv, NEW k \in Conn, thread[k] \in {"WAIT_PASSWORD", "WAIT_PASSWORD_REGISTER_SECOND"},
           up[k] # <<>>, NEW p, Content(k) = <<p, k>>
    PROVE  typed[k] = p /\ typed[k] # None
<1>1. PICK request \in Request : Head(up[k]) = request /\ Asked(k, request)
  BY RequestTaken DEF Dialogue
<1>2. request[1] \in {"password:", "password_second:"}
  BY <1>1, ExpectedIs DEF Asked
<1>3. request[2] = <<p, k>>
  BY <1>1 DEF Content
<1>4. request[2][1] \in Password /\ request[2][1] = typed[k]
  BY <1>1, <1>2, RequestContent DEF Asked
<1> QED
  BY <1>3, <1>4, ConstantsAssumption

\* The password of the row of its nickname, which others keep, is accepted.
LEMMA AdmittedKeeps ==
    ASSUME IInv, NEW k \in Conn, thread[k] \in {"WAIT_PASSWORD", "WAIT_PASSWORD_REGISTER_SECOND"},
           up[k] # <<>>, Take(k), Push(k, <<<<"auth_ok!", None>>, Text>>),
           NEW place \in Authorizing, Goto(k, place),
           UNCHANGED <<user, link, nickname, new_password, authorized, waiting_reconnect, socket,
                       held, contended, undefined>>,
           rows' \in [Nickname -> Password \cup {None}],
           Content(k) = <<rows'[nickname[k]], k>>,
           \A n \in Nickname : rows[n] # None => rows'[n] = rows[n]
    PROVE  IInv'
<1>1. thread[k] \in Dialogue \ {"WAIT_NICKNAME"}
  BY DEF Dialogue
<1>2. /\ thread' \in [Conn -> Places] /\ thread'[k] = place
      /\ \A j \in Conn \ {k} : thread'[j] = thread[j]
  BY DEF Goto, IInv, TypeOK, Places
<1>3. up' \in [Conn -> Seq(Request)] /\ up'[k] = <<>>
  BY <1>1, TakeEffect
<1>4. PICK reply \in Reply : reply = <<"auth_ok!", None>>
  BY ReplyWords
<1>5. /\ down' \in [Conn -> Seq(Reply)] /\ down'[k] = down[k] \o <<reply, Text>>
      /\ \A j \in Conn \ {k} : down'[j] = down[j]
  <2>1. <<reply, Text>> \in Seq(Reply)
    BY <1>4, ReplyWords, Two
  <2> QED
    BY <1>4, <2>1, PushEffect DEF IInv
<1>6. nickname[k] \in Nickname
  BY <1>1 DEF IInv, Threads
<1>7. TypeOK'
  BY <1>2, <1>3, <1>5 DEF IInv, TypeOK, Places, user
<1>8. ASSUME NEW s, NEW a, InStep(s, a, k, up[k], down[k])
      PROVE  InStep(s, a, k, up[k], down[k])'
  <2>1. CASE s \in {"PASSWORD_REGISTER_SECOND_SENT", "PASSWORD_SENT"} /\ down[k] = <<>>
    <3>1. down'[k] = <<reply, Text>>
      BY <1>5, <2>1, ReplyWords, NoneBefore
    <3>2. Let_in(k)'
      BY <1>2 DEF Let_in, Accepted
    <3> QED
      BY <1>3, <1>4, <2>1, <3>1, <3>2 DEF InStep, Text
  <2>2. CASE s \notin Online \cup {"CONNECTING"}
    BY <2>2 DEF InStep, Online, Enter, Sent, PasswordSent
  <2> QED
    BY <1>1, <1>8, <2>1, <2>2, WhoSent DEF IInv
<1>9. Answers(k)
  BY <1>1, <1>2, <1>5, <1>6, <1>7, <1>8 DEF Answers
<1>10. AuthorizedByPassword'
  <2>1. SUFFICES ASSUME NEW j \in Conn, Accepted(j)'
                 PROVE  typed[j] # None /\ typed[j] = rows'[nickname[j]]
    BY DEF AuthorizedByPassword, user
  <2>2. CASE j = k
    BY <2>2, AcceptedTyped
  <2>3. CASE j # k
    <3>1. Accepted(j)
      BY <1>2, <2>1, <2>3 DEF Accepted
    <3>2. typed[j] # None /\ typed[j] = rows[nickname[j]]
      BY <3>1 DEF IInv, AuthorizedByPassword
    <3>3. nickname[j] \in Nickname
      BY <3>1 DEF IInv, Threads
    <3> QED
      BY <3>2, <3>3
  <2> QED
    BY <2>2, <2>3
<1> QED
  BY <1>9, <1>10, AnswersKeeps

LEMMA SecondKeeps == ASSUME IInv, NEW k \in Conn, SecondPassword(k) PROVE IInv'
<1>1. /\ thread[k] = "WAIT_PASSWORD_REGISTER_SECOND" /\ up[k] # <<>> /\ Take(k)
      /\ UNCHANGED <<user, link, nickname, new_password, authorized, waiting_reconnect, socket,
                     held, contended, undefined>>
  BY DEF SecondPassword, Received
<1>2. thread[k] \in Dialogue
  BY <1>1 DEF Dialogue
<1>3. CASE Fails(k)
  BY <1>1, <1>3, FailsKeeps
<1>4. CASE Goto(k, "leaving") /\ UNCHANGED <<down, rows>>
  <2>1. nickname[k] \in Nickname \cup {None} /\ nickname' = [nickname EXCEPT ![k] = nickname[k]]
    BY <1>1 DEF IInv, TypeOK
  <2> QED
    BY <1>1, <1>2, <1>4, <2>1, LeavesDialogue
<1>5. CASE /\ Content(k) = <<new_password[k], k>>
           /\ db_add_client(nickname[k], new_password[k])
           /\ Push(k, <<<<"auth_ok!", None>>, Text>>)
           /\ Goto(k, "authorize_registered")
  <2>1. nickname[k] \in Nickname /\ new_password[k] \in Password \cup {None}
    BY <1>1 DEF IInv, Threads, Dialogue, TypeOK
  <2>2. /\ rows' \in [Nickname -> Password \cup {None}]
        /\ rows[nickname[k]] = None /\ rows'[nickname[k]] = new_password[k]
        /\ \A n \in Nickname : n # nickname[k] => rows'[n] = rows[n]
    BY <1>5, <2>1 DEF db_add_client, IInv, TypeOK
  <2>3. \A n \in Nickname : rows[n] # None => rows'[n] = rows[n]
    BY <2>2
  <2>4. "authorize_registered" \in Authorizing
    BY DEF Authorizing
  <2> QED
    BY <1>1, <1>5, <2>2, <2>3, <2>4, AdmittedKeeps
<1> QED
  BY <1>3, <1>4, <1>5 DEF SecondPassword

LEMMA LoginKeeps == ASSUME IInv, NEW k \in Conn, LoginPassword(k) PROVE IInv'
<1>1. /\ thread[k] = "WAIT_PASSWORD" /\ up[k] # <<>> /\ Take(k)
      /\ UNCHANGED <<user, link, nickname, new_password, authorized, waiting_reconnect, socket,
                     held, contended, undefined>>
  BY DEF LoginPassword, Received
<1>2. thread[k] \in Dialogue
  BY <1>1 DEF Dialogue
<1>3. CASE Fails(k)
  BY <1>1, <1>3, FailsKeeps
<1>4. CASE Goto(k, "leaving") /\ UNCHANGED <<down, rows>>
  <2>1. nickname[k] \in Nickname \cup {None} /\ nickname' = [nickname EXCEPT ![k] = nickname[k]]
    BY <1>1 DEF IInv, TypeOK
  <2> QED
    BY <1>1, <1>2, <1>4, <2>1, LeavesDialogue
<1>5. CASE /\ Matches(k) /\ Push(k, <<<<"auth_ok!", None>>, Text>>)
           /\ Goto(k, "authorize") /\ rows' = rows
  <2>1. "authorize" \in Authorizing /\ rows \in [Nickname -> Password \cup {None}]
    BY DEF Authorizing, IInv, TypeOK
  <2>2. Content(k) = <<rows'[nickname[k]], k>>
    BY <1>5 DEF Matches
  <2> QED
    BY <1>1, <1>5, <2>1, <2>2, AdmittedKeeps
<1> QED
  BY <1>3, <1>4, <1>5 DEF LoginPassword

\* After auth_ok! the thread goes on, into a session, to leave, or to hand over to the client h.
LEMMA LetInKeeps ==
    ASSUME IInv, NEW k \in Conn, thread[k] \in Authorizing \cup {"find"},
           authorized' = [authorized EXCEPT ![k] = TRUE],
           NEW place \in {"find", "session", "leaving", "hand_over"}, Goto(k, place),
           NEW h \in Conn \cup {None}, held' = [held EXCEPT ![k] = h],
           place = "hand_over" <=> h # None,
           contended' \in BOOLEAN, contended => contended',
           h # None => waiting_reconnect[h] /\ (contended' \/ \A j \in Conn : held[j] # h),
           UNCHANGED <<user, link, up, down, nickname, new_password, waiting_reconnect, socket,
                       rows, undefined>>
    PROVE  IInv'
<1>0. UNCHANGED <<state, conn, salt, buffer, typed>>
  BY DEF user
<1>1. /\ thread' \in [Conn -> Places] /\ thread'[k] = place
      /\ \A j \in Conn \ {k} : thread'[j] = thread[j]
  BY DEF Goto, IInv, TypeOK, Places
<1>2. /\ authorized' \in [Conn -> BOOLEAN] /\ authorized'[k]
      /\ \A j \in Conn \ {k} : authorized'[j] = authorized[j]
  BY DEF IInv, TypeOK
<1>3. /\ held' \in [Conn -> Conn \cup {None}] /\ held'[k] = h
      /\ \A j \in Conn \ {k} : held'[j] = held[j]
  BY DEF IInv, TypeOK
<1>4. /\ Accepted(k) /\ ~Rejected(k) /\ ~waiting_reconnect[k] /\ socket[k] = k
      /\ \A j \in Conn : held[j] # k
      /\ thread[k] \notin Dialogue \cup {"none", "session", "leaving", "gone"}
  <2>1. thread[k] \notin Dialogue \cup {"none", "session", "leaving", "gone"}
    BY DEF Authorizing, Dialogue
  <2>2. Accepted(k) /\ ~Rejected(k)
    BY <2>1 DEF Accepted, Rejected, IInv, Threads
  <2>3. ~waiting_reconnect[k] /\ \A j \in Conn : held[j] # k
    BY <2>1, ConstantsAssumption DEF IInv, Waiting
  <2>4. socket[k] = k
    <3>1. CASE thread[k] = "find"
      BY <3>1 DEF IInv, Sockets
    <3>2. CASE thread[k] \in Authorizing
      BY <2>1, <3>2 DEF IInv, Sockets, Threads, Authorizing
    <3> QED
      BY <3>1, <3>2
  <2> QED
    BY <2>1, <2>2, <2>3, <2>4
<1>5. place \notin Dialogue \cup {"none", "gone"}
  BY DEF Dialogue
<1>6. \A j \in Conn : /\ Accepted(j)' = Accepted(j) /\ Rejected(j)' = Rejected(j)
                      /\ thread'[j] = "gone" <=> thread[j] = "gone"
                      /\ thread'[j] \in Dialogue <=> thread[j] \in Dialogue
  <2>1. SUFFICES ASSUME NEW j \in Conn
                 PROVE  /\ Accepted(j)' = Accepted(j) /\ Rejected(j)' = Rejected(j)
                        /\ thread'[j] = "gone" <=> thread[j] = "gone"
                        /\ thread'[j] \in Dialogue <=> thread[j] \in Dialogue
    OBVIOUS
  <2>2. CASE j = k
    <3>1. Accepted(k)' /\ ~Rejected(k)'
      BY <1>2 DEF Accepted, Rejected
    <3>2. Accepted(k)' = Accepted(k) /\ Rejected(k)' = Rejected(k)
      BY <1>4, <3>1 DEF Accepted, Rejected, IInv, TypeOK
    <3> QED
      BY <1>1, <1>4, <1>5, <2>2, <3>2
  <2>3. CASE j # k
    BY <1>1, <1>2, <2>3 DEF Accepted, Rejected
  <2> QED
    BY <2>2, <2>3
<1>7. TypeOK'
  BY <1>0, <1>1, <1>2, <1>3 DEF IInv, TypeOK, Places
<1>8. Connections'
  <2>1. \A j \in Conn : thread'[j] = "none" <=> thread[j] = "none"
    BY <1>1, <1>4, <1>5
  <2> QED
    BY <1>0, <2>1 DEF IInv, Connections
<1>9. Threads'
  <2>1. SUFFICES ASSUME NEW j \in Conn
                 PROVE  /\ authorized'[j] => thread'[j] \in {"find", "hand_over", "session", "leaving"}
                        /\ thread'[j] \in {"find", "hand_over", "session"} => authorized'[j]
                        /\ Accepted(j)' \/ thread'[j] \in Dialogue \ {"WAIT_NICKNAME"}
                              => nickname'[j] \in Nickname
                        /\ thread'[j] = "hand_over" <=> held'[j] # None
    BY DEF Threads
  <2>2. Accepted(k) => nickname[k] \in Nickname
    BY DEF IInv, Threads
  <2>3. CASE j = k
    BY <1>1, <1>2, <1>3, <1>4, <2>2, <2>3
  <2>4. CASE j # k
    BY <1>1, <1>2, <1>3, <1>6, <2>4 DEF IInv, Threads
  <2> QED
    BY <2>3, <2>4
<1>10. Sockets'
  <2>1. SUFFICES ASSUME NEW j \in Conn
                 PROVE  /\ thread'[j] # "gone" /\ ~authorized'[j] => socket[j] = j
                        /\ thread'[j] \in {"find", "hand_over"} => socket[j] = j
                        /\ socket[j] # j => thread'[socket[j]] = "gone"
    BY DEF Sockets
  <2>2. socket[j] # j => thread'[socket[j]] = "gone"
    BY <1>6 DEF IInv, Sockets, TypeOK
  <2>3. CASE j = k
    BY <1>4, <2>2, <2>3
  <2>4. CASE j # k
    BY <1>1, <1>2, <2>2, <2>4 DEF IInv, Sockets
  <2> QED
    BY <2>3, <2>4
<1>11. Waiting'
  <2>1. ASSUME NEW j \in Conn, waiting_reconnect[j]
        PROVE  /\ thread'[j] \in {"session", "leaving"} /\ authorized'[j]
               /\ link[socket[j]] = "broken"
    BY <1>1, <1>2, <1>4, <2>1 DEF IInv, Waiting
  <2>2. ASSUME NEW j \in Conn, held'[j] # None
        PROVE  \/ thread'[held'[j]] = "gone"
               \/ thread'[held'[j]] \in {"session", "leaving"} /\ authorized'[held'[j]]
    <3>1. CASE j = k
      <4>1. h \in Conn /\ waiting_reconnect[h] /\ held'[j] = h
        BY <1>3, <2>2, <3>1
      <4> QED
        BY <2>1, <4>1
    <3>2. CASE j # k
      <4>1. held'[j] = held[j] /\ held[j] \in Conn \ {k}
        BY <1>3, <1>4, <2>2, <3>2 DEF IInv, TypeOK
      <4> QED
        BY <1>1, <1>2, <2>2, <4>1 DEF IInv, Waiting
    <3> QED
      BY <3>1, <3>2
  <2> QED
    BY <2>1, <2>2 DEF Waiting
<1>12. HandOvers'
  <2>1. SUFFICES ASSUME ~contended', NEW j \in Conn, held'[j] # None
                 PROVE  /\ thread'[held'[j]] # "gone" => waiting_reconnect[held'[j]]
                        /\ \A d \in Conn : held'[d] = held'[j] => d = j
    BY DEF HandOvers
  <2>2. CASE j = k
    BY <1>3, <2>1, <2>2
  <2>3. CASE j # k
    <3>1. held'[j] = held[j] /\ held[j] \in Conn
      BY <1>3, <2>1, <2>3 DEF IInv, TypeOK
    <3>2. /\ thread[held[j]] # "gone" => waiting_reconnect[held[j]]
          /\ \A d \in Conn : held[d] = held[j] => d = j
      BY <2>1, <3>1 DEF IInv, HandOvers
    <3>3. h # held[j]
      BY <2>1, <3>1, ConstantsAssumption
    <3>4. \A d \in Conn : held'[d] = held[j] => d = j
      BY <1>3, <3>2, <3>3
    <3> QED
      BY <1>6, <3>1, <3>2, <3>4
  <2> QED
    BY <2>2, <2>3
<1>13. Requests'
  <2>1. \A j \in Conn : thread'[j] \in Dialogue => thread'[j] = thread[j]
    BY <1>1, <1>5
  <2> QED
    BY <1>0, <2>1 DEF IInv, Requests, Asked
<1>14. ClientsInStep'
  <2>1. SUFFICES ASSUME NEW v \in User, NEW j \in Conn, conn[v] = j, link[j] = "up"
                 PROVE  InStep(state[v], salt[v], j, up[j], down[j])'
    BY <1>0 DEF ClientsInStep
  <2>2. InStep(state[v], salt[v], j, up[j], down[j])
    BY <2>1 DEF IInv, ClientsInStep
  <2>3. Rejected(j)' = Rejected(j) /\ Let_in(j)' = Let_in(j)
    BY <1>6 DEF Let_in
  <2>4. CASE j = k
    BY <1>0, <1>4, <2>2, <2>3, <2>4 DEF InStep, Dialogue
  <2>5. CASE j # k
    BY <1>0, <1>1, <2>2, <2>3, <2>5 DEF InStep
  <2> QED
    BY <2>4, <2>5
<1>15. AuthorizedByPassword'
  BY <1>0, <1>6 DEF IInv, AuthorizedByPassword
<1>16. Owned'
  BY <1>6 DEF IInv, Owned, Owner
<1> QED
  BY <1>7, <1>8, <1>9, <1>10, <1>11, <1>12, <1>13, <1>14, <1>15, <1>16 DEF IInv

LEMMA SetAuthorizedKeeps == ASSUME IInv, NEW k \in Conn, SetAuthorized(k) PROVE IInv'
<1>1. thread[k] \in Authorizing
  BY DEF SetAuthorized, Authorizing
<1>2. PICK place \in {"find", "session", "leaving"} : Goto(k, place)
  BY DEF SetAuthorized
<1>3. PICK h \in Conn \cup {None} : h = None
  OBVIOUS
<1>4. held[k] = None
  BY <1>1 DEF IInv, Threads, Authorizing
<1>5. held' = [held EXCEPT ![k] = h]
  BY <1>3, <1>4 DEF SetAuthorized, IInv, TypeOK
<1>6. contended' \in BOOLEAN /\ (contended => contended')
  BY DEF SetAuthorized, IInv, TypeOK
<1>7. /\ place \in {"find", "session", "leaving", "hand_over"} /\ (place = "hand_over" <=> h # None)
      /\ h # None => waiting_reconnect[h] /\ (contended' \/ \A j \in Conn : held[j] # h)
  BY <1>3
<1> QED
  BY <1>1, <1>2, <1>5, <1>6, <1>7, LetInKeeps DEF SetAuthorized

LEMMA FindKeeps == ASSUME IInv, NEW k \in Conn, FindWaiting(k) PROVE IInv'
<1>1. /\ thread[k] = "find"
      /\ UNCHANGED <<user, link, up, down, nickname, new_password, authorized, waiting_reconnect,
                     socket, rows, undefined>>
  BY DEF FindWaiting
<1>2. authorized' = [authorized EXCEPT ![k] = TRUE] /\ held[k] = None
  BY <1>1 DEF IInv, TypeOK, Threads
<1>3. CASE Goto(k, "session") /\ UNCHANGED <<held, contended>>
  <2>1. PICK h \in Conn \cup {None} : h = None
    OBVIOUS
  <2>2. held' = [held EXCEPT ![k] = h]
    BY <1>2, <1>3, <2>1 DEF IInv, TypeOK
  <2>3. contended' \in BOOLEAN /\ (contended => contended')
    BY <1>3 DEF IInv, TypeOK
  <2>4. /\ "session" = "hand_over" <=> h # None
        /\ h # None => waiting_reconnect[h] /\ (contended' \/ \A j \in Conn : held[j] # h)
    BY <2>1
  <2> QED
    BY <1>1, <1>2, <1>3, <2>2, <2>3, <2>4, LetInKeeps
<1>4. ASSUME NEW old_client \in find_nickname_waiting_reconnect(nickname[k]),
             held' = [held EXCEPT ![k] = old_client],
             contended' = (contended \/ old_client \in {held[d] : d \in Conn}),
             Goto(k, "hand_over")
      PROVE  IInv'
  <2>1. old_client \in Conn /\ waiting_reconnect[old_client] /\ old_client # None
    BY ConstantsAssumption DEF find_nickname_waiting_reconnect
  <2>2. contended' \in BOOLEAN /\ (contended => contended')
    BY <1>4 DEF IInv, TypeOK
  <2>3. contended' \/ \A j \in Conn : held[j] # old_client
    BY <1>4
  <2> QED
    BY <1>1, <1>2, <1>4, <2>1, <2>2, <2>3, LetInKeeps
<1> QED
  BY <1>3, <1>4 DEF FindWaiting

LEMMA WrongNever == ASSUME IInv, NEW k \in Conn PROVE ~WrongMessage(k)
<1>1. SUFFICES ASSUME thread[k] \in Dialogue, up[k] # <<>>, Head(up[k])[1] # Expected(thread[k])
               PROVE  FALSE
  BY DEF WrongMessage
<1> QED
  BY <1>1, RequestTaken DEF Asked

-----------------------------------------------------------------------------
(* Hand-over, session and end preserve the invariant.                       *)

LEMMA LineKeeps == ASSUME IInv, NEW k \in Conn, Line(k) PROVE IInv'
<1> DEFINE s == socket[k]
<1>1. /\ thread[k] = "session" /\ up' = [up EXCEPT ![s] = Tail(@)] /\ up[s] # <<>>
      /\ UNCHANGED <<state, conn, salt, buffer, typed, link, down, server>>
  BY DEF Line, Take, user
<1>2. UNCHANGED <<thread, nickname, new_password, authorized, waiting_reconnect, socket, held,
                  rows, contended, undefined>>
  BY <1>1, SameServer
<1>3. s \in Conn
  BY DEF IInv, TypeOK
<1>4. thread[s] \notin Dialogue
  BY <1>1, <1>3, InDialogue DEF Dialogue
<1>5. /\ up' \in [Conn -> Seq(Request)] /\ \A j \in Conn \ {s} : up'[j] = up[j]
  <2>1. Tail(up[s]) \in Seq(Request)
    BY <1>1, <1>3, HeadTailProperties DEF IInv, TypeOK
  <2> QED
    BY <1>1, <2>1 DEF IInv, TypeOK
<1> HIDE DEF s
<1>6. TypeOK'
  BY <1>1, <1>2, <1>5 DEF IInv, TypeOK
<1>7. Connections'
  BY <1>1, <1>2, <1>3, <1>5 DEF IInv, Connections
<1>8. Threads' /\ Sockets' /\ Waiting' /\ HandOvers'
  BY <1>1, ServerKept DEF IInv
<1>9. Requests'
  BY <1>1, <1>2, <1>4, <1>5 DEF IInv, Requests, Asked
<1>10. ClientsInStep'
  <2>1. SUFFICES ASSUME NEW v \in User, NEW j \in Conn, conn[v] = j, link[j] = "up"
                 PROVE  InStep(state[v], salt[v], j, up[j], down[j])'
    BY <1>1 DEF ClientsInStep
  <2>2. InStep(state[v], salt[v], j, up[j], down[j])
    BY <2>1 DEF IInv, ClientsInStep
  <2>3. CASE j = s
    <3>1. up[j] # <<>> /\ thread[j] \notin Dialogue
      BY <1>1, <1>4, <2>3
    <3>2. state[v] \notin Online \ {"AUTHORIZED"} /\ state[v] # "CONNECTING"
      BY <2>2, <3>1 DEF InStep, Online, Enter, Sent, PasswordSent, Dialogue
    <3> QED
      BY <1>1, <1>2, <2>2, <3>2 DEF InStep, Let_in, Accepted, Authorizing, Online, Enter, Sent, PasswordSent
  <2>4. CASE j # s
    <3>1. /\ state'[v] = state[v] /\ salt'[v] = salt[v] /\ up'[j] = up[j] /\ down'[j] = down[j]
          /\ thread' = thread /\ authorized' = authorized
      BY <1>1, <1>2, <1>5, <2>4
    <3> QED
      BY <2>2, <3>1 DEF InStep, Rejected, Let_in, Accepted, Authorizing
  <2> QED
    BY <2>3, <2>4
<1>11. AuthorizedByPassword' /\ Owned'
  BY <1>1, <1>2 DEF IInv, AuthorizedByPassword, Accepted, Authorizing, Owned, Owner, Rejected
<1> QED
  BY <1>6, <1>7, <1>8, <1>9, <1>10, <1>11 DEF IInv

LEMMA BreakKeeps == ASSUME IInv, NEW k \in Conn, Break(k) PROVE IInv'
<1>1. /\ link[k] \in {"up", "closed"} /\ link' = [link EXCEPT ![k] = "broken"]
      /\ UNCHANGED <<state, conn, salt, buffer, typed, up, down, server>>
  BY DEF Break, user
<1>2. UNCHANGED <<thread, nickname, new_password, authorized, waiting_reconnect, socket, held,
                  rows, contended, undefined>>
  BY <1>1, SameServer
<1>3. /\ link' \in [Conn -> Link] /\ link'[k] = "broken"
      /\ \A j \in Conn \ {k} : link'[j] = link[j]
  BY <1>1 DEF IInv, TypeOK, Link
<1>4. TypeOK'
  BY <1>1, <1>2, <1>3 DEF IInv, TypeOK, Link
<1>5. Connections'
  <2>1. \A j \in Conn : link'[j] = "none" <=> link[j] = "none"
    BY <1>1, <1>3
  <2>2. \A v \in User : conn[v] # 0 => conn[v] \in Conn
    BY ConstantsAssumption DEF IInv, TypeOK, Conn
  <2> QED
    BY <1>1, <1>2, <2>1, <2>2 DEF IInv, Connections
<1>6. Threads' /\ Sockets' /\ Waiting' /\ HandOvers'
  <2>1. \A j \in Conn : link[socket[j]] = "broken" => link'[socket[j]] = "broken"
    BY <1>3 DEF IInv, TypeOK
  <2> QED
    BY <1>1, <2>1, ServerKept DEF IInv
<1>7. Requests'
  BY <1>1, <1>2 DEF IInv, Requests, Asked
<1>8. ClientsInStep'
  <2>1. SUFFICES ASSUME NEW v \in User, NEW j \in Conn, conn[v] = j, link'[j] = "up"
                 PROVE  InStep(state[v], salt[v], j, up[j], down[j])'
    BY <1>1 DEF ClientsInStep
  <2>2. InStep(state[v], salt[v], j, up[j], down[j])
    BY <1>3, <2>1 DEF IInv, ClientsInStep
  <2> QED
    BY <1>1, <1>2, <2>2 DEF InStep, Rejected, Let_in, Accepted, Authorizing
<1>9. AuthorizedByPassword'
  BY <1>1, <1>2 DEF IInv, AuthorizedByPassword, Accepted, Authorizing
<1>10. Owned'
  <2>1. \A j \in Conn : link'[j] = "up" => link[j] = "up"
    BY <1>3
  <2> QED
    BY <1>2, <2>1 DEF IInv, Owned, Owner, Accepted, Authorizing, Rejected
<1> QED
  BY <1>4, <1>5, <1>6, <1>7, <1>8, <1>9, <1>10 DEF IInv

LEMMA LeavesKeeps ==
    ASSUME IInv, NEW k \in Conn, Goto(k, "leaving"),
           thread[k] = "session" \/ (thread[k] \in Dialogue /\ link[k] = "broken"),
           UNCHANGED <<user, link, up, down, nickname, new_password, authorized, waiting_reconnect,
                       socket, held, rows, contended, undefined>>
    PROVE  IInv'
<1>1. UNCHANGED <<state, conn, salt, buffer, typed>>
  BY DEF user
<1>2. /\ thread' \in [Conn -> Places] /\ thread'[k] = "leaving"
      /\ \A j \in Conn \ {k} : thread'[j] = thread[j]
  BY DEF Goto, IInv, TypeOK, Places, Authorizing
<1>3. thread[k] = "session" => authorized[k]
  BY DEF IInv, Threads, Accepted, Authorizing
<1>4. thread[k] \in Dialogue => ~authorized[k] /\ socket[k] = k /\ \A j \in Conn : held[j] # k
  BY InDialogue
<1>5. TypeOK'
  BY <1>1, <1>2 DEF IInv, TypeOK, Places, Authorizing
<1>6. Connections'
  <2>1. thread[k] # "none"
    BY DEF Dialogue
  <2> QED
    BY <1>1, <1>2, <2>1 DEF IInv, Connections
<1>7. Threads'
  <2>1. held[k] = None
    BY DEF IInv, Threads, Accepted, Authorizing, Dialogue
  <2> QED
    BY <1>2, <2>1 DEF IInv, Threads, Accepted, Authorizing, Dialogue
<1>8. Sockets'
  <2>1. thread[k] # "gone"
    BY DEF Dialogue
  <2>2. \A j \in Conn : thread'[j] = "gone" <=> thread[j] = "gone"
    BY <1>2, <2>1
  <2>3. \A j \in Conn : socket[j] \in Conn
    BY DEF IInv, TypeOK
  <2> QED
    BY <1>2, <2>2, <2>3 DEF IInv, Sockets
<1>9. Waiting' /\ HandOvers'
  <2>1. thread[k] # "gone"
    BY DEF Dialogue
  <2>2. \A j \in Conn : thread'[j] = "gone" <=> thread[j] = "gone"
    BY <1>2, <2>1
  <2>3. \A j \in Conn : held[j] # None => held[j] \in Conn
    BY DEF IInv, TypeOK
  <2>4. \A j \in Conn : thread[j] \in {"session", "leaving"} => thread'[j] \in {"session", "leaving"}
    BY <1>2
  <2> QED
    BY <2>2, <2>3, <2>4 DEF IInv, Waiting, HandOvers
<1>10. Requests'
  BY <1>1, <1>2 DEF IInv, Requests, Asked, Dialogue
<1>11. ClientsInStep'
  <2>1. SUFFICES ASSUME NEW v \in User, NEW j \in Conn, conn[v] = j, link[j] = "up"
                 PROVE  InStep(state[v], salt[v], j, up[j], down[j])'
    BY <1>1 DEF ClientsInStep
  <2>2. InStep(state[v], salt[v], j, up[j], down[j])
    BY <2>1 DEF IInv, ClientsInStep
  <2>3. CASE j = k
    <3>1. thread[k] = "session" /\ authorized[k]
      BY <1>3, <2>1, <2>3
    <3> QED
      BY <1>1, <1>2, <2>2, <2>3, <3>1 DEF InStep, Rejected, Let_in, Accepted, Authorizing
  <2>4. CASE j # k
    BY <1>1, <1>2, <2>2, <2>4 DEF InStep, Rejected, Let_in, Accepted, Authorizing
  <2> QED
    BY <2>3, <2>4
<1>12. thread[k] \notin Authorizing /\ \A j \in Conn : Accepted(j)' = Accepted(j)
  <2>1. thread[k] \notin Authorizing /\ "leaving" \notin Authorizing
    BY DEF Dialogue, Authorizing
  <2> QED
    BY <1>2, <2>1 DEF Accepted
<1>14. AuthorizedByPassword'
  BY <1>1, <1>12 DEF IInv, AuthorizedByPassword
<1>13. Owned'
  <2>1. ASSUME ~contended, NEW j \in Conn, link[j] = "up", thread'[j] \notin Dialogue
        PROVE  Rejected(j)' \/ \E c \in Conn : Owner(j, c)'
    <3>1. thread[j] \notin Dialogue
      <4>1. CASE j = k
        BY <2>1, <4>1 DEF Dialogue
      <4>2. CASE j # k
        BY <1>2, <2>1, <4>2
      <4> QED
        BY <4>1, <4>2
    <3>2. Rejected(j) \/ \E c \in Conn : Owner(j, c)
      BY <2>1, <3>1 DEF IInv, Owned
    <3>3. Rejected(j) => Rejected(j)'
      BY <1>2 DEF Rejected
    <3>4. \A c \in Conn : Owner(j, c) => Owner(j, c)'
      BY <1>12 DEF Owner
    <3> QED
      BY <3>2, <3>3, <3>4
  <2> QED
    BY <2>1 DEF Owned
<1> QED
  BY <1>5, <1>6, <1>7, <1>8, <1>9, <1>10, <1>11, <1>13, <1>14 DEF IInv

LEMMA TimeoutKeeps == ASSUME IInv, NEW k \in Conn, ReconnectTimeout(k) PROVE IInv'
BY LeavesKeeps DEF ReconnectTimeout

LEMMA LossKeeps == ASSUME IInv, NEW k \in Conn, Loss(k) PROVE IInv'
<1>1. /\ link[socket[k]] = "broken"
      /\ UNCHANGED <<user, link, up, down, nickname, new_password, authorized, socket, held, rows,
                     contended, undefined>>
  BY DEF Loss
<1>2. CASE thread[k] \in Dialogue /\ Goto(k, "leaving") /\ UNCHANGED waiting_reconnect
  <2>1. link[k] = "broken"
    BY <1>1, <1>2, InDialogue
  <2> QED
    BY <1>1, <1>2, <2>1, LeavesKeeps
<1>3. CASE /\ thread[k] = "session"
           /\ waiting_reconnect' = [waiting_reconnect EXCEPT ![k] = TRUE] /\ UNCHANGED thread
  <2>1. /\ waiting_reconnect' \in [Conn -> BOOLEAN] /\ waiting_reconnect'[k]
        /\ \A j \in Conn \ {k} : waiting_reconnect'[j] = waiting_reconnect[j]
    BY <1>3 DEF IInv, TypeOK
  <2>2. UNCHANGED <<state, conn, salt, buffer, typed, thread>>
    BY <1>1, <1>3 DEF user
  <2>3. authorized[k]
    BY <1>3 DEF IInv, Threads, Accepted, Authorizing
  <2>4. TypeOK'
    BY <1>1, <2>1, <2>2 DEF IInv, TypeOK
  <2>5. Connections' /\ Threads' /\ Sockets'
    BY <1>1, <2>2 DEF IInv, Connections, Threads, Accepted, Authorizing, Sockets
  <2>6. Waiting'
    BY <1>1, <1>3, <2>1, <2>2, <2>3 DEF IInv, Waiting
  <2>7. HandOvers'
    <3>1. \A j \in Conn : waiting_reconnect[j] => waiting_reconnect'[j]
      BY <2>1
    <3>2. \A j \in Conn : held[j] # None => held[j] \in Conn
      BY DEF IInv, TypeOK
    <3> QED
      BY <1>1, <2>2, <3>1, <3>2 DEF IInv, HandOvers
  <2>8. Requests'
    BY <1>1, <2>2 DEF IInv, Requests, Asked
  <2>9. ClientsInStep'
    <3>1. SUFFICES ASSUME NEW v \in User, NEW j \in Conn, conn[v] = j, link[j] = "up"
                   PROVE  InStep(state[v], salt[v], j, up[j], down[j])'
      BY <1>1, <2>2 DEF ClientsInStep
    <3>2. InStep(state[v], salt[v], j, up[j], down[j])
      BY <3>1 DEF IInv, ClientsInStep
    <3> QED
      BY <1>1, <2>2, <3>2 DEF InStep, Rejected, Let_in, Accepted, Authorizing
  <2>10. AuthorizedByPassword' /\ Owned'
    BY <1>1, <2>2 DEF IInv, AuthorizedByPassword, Accepted, Authorizing, Owned, Owner, Rejected
  <2> QED
    BY <2>4, <2>5, <2>6, <2>7, <2>8, <2>9, <2>10 DEF IInv
<1> QED
  BY <1>2, <1>3 DEF Loss

\* What the end of an object leaves of it.
LEMMA Deleted ==
    ASSUME TypeOK, NEW k \in Conn, Delete(k)
    PROVE  /\ thread' \in [Conn -> Places] /\ thread'[k] = "gone"
           /\ nickname' \in [Conn -> Nickname \cup {None}]
           /\ new_password' \in [Conn -> Password \cup {None}]
           /\ authorized' \in [Conn -> BOOLEAN] /\ ~authorized'[k]
           /\ held' \in [Conn -> Conn \cup {None}] /\ held'[k] = None
           /\ \A j \in Conn \ {k} :
                 /\ thread'[j] = thread[j] /\ nickname'[j] = nickname[j]
                 /\ new_password'[j] = new_password[j] /\ authorized'[j] = authorized[j]
                 /\ held'[j] = held[j]
BY DEF TypeOK, Delete, Goto, Places, Authorizing

LEMMA HandOverKeeps == ASSUME IInv, NEW k \in Conn, HandOver(k) PROVE IInv'
<1>1. thread[k] = "hand_over" /\ held[k] \in Conn /\ socket[k] = k /\ authorized[k]
  BY DEF HandOver, IInv, Threads, Accepted, Authorizing, Sockets, TypeOK
<1>2. UNCHANGED <<user, state, conn, salt, buffer, typed, link, up, down>>
  BY DEF HandOver, user
<1>3. CASE thread[held[k]] = "gone"
  <2>1. undefined' = TRUE /\ UNCHANGED server_but_undefined
    BY <1>3 DEF HandOver
  <2>2. UNCHANGED <<thread, nickname, new_password, authorized, waiting_reconnect, socket, held,
                    rows, contended>>
    BY <2>1 DEF server_but_undefined
  <2>3. TypeOK' /\ Connections' /\ Threads' /\ Sockets' /\ Waiting' /\ HandOvers' /\ Requests'
    BY <1>2, <2>1, <2>2 DEF IInv, TypeOK, Connections, Threads, Accepted, Authorizing, Sockets, Waiting, HandOvers, Requests, Asked
  <2>4. ClientsInStep'
    <3>1. SUFFICES ASSUME NEW v \in User, NEW j \in Conn, conn[v] = j, link[j] = "up"
                   PROVE  InStep(state[v], salt[v], j, up[j], down[j])'
      BY <1>2 DEF ClientsInStep
    <3>2. InStep(state[v], salt[v], j, up[j], down[j])
      BY <3>1 DEF IInv, ClientsInStep
    <3> QED
      BY <1>2, <2>2, <3>2 DEF InStep, Rejected, Let_in, Accepted, Authorizing
  <2>5. AuthorizedByPassword' /\ Owned'
    BY <1>2, <2>2 DEF IInv, AuthorizedByPassword, Accepted, Authorizing, Owned, Owner, Rejected
  <2> QED
    BY <2>3, <2>4, <2>5 DEF IInv
<1>4. CASE thread[held[k]] # "gone"
  <2>1. PICK h \in Conn : h = held[k]
    BY <1>1
  <2>2. /\ thread[h] \in {"session", "leaving"} /\ authorized[h] /\ h # k
        /\ ~contended => waiting_reconnect[h] /\ \A d \in Conn : held[d] = h => d = k
    BY <1>1, <1>4, <2>1, ConstantsAssumption DEF IInv, Waiting, HandOvers
  <2>3. /\ socket' = [socket EXCEPT ![h] = k]
        /\ waiting_reconnect' = [waiting_reconnect EXCEPT ![h] = FALSE]
        /\ Delete(k) /\ UNCHANGED <<rows, contended, undefined>>
    BY <1>4, <2>1 DEF HandOver
  <2>4. /\ thread' \in [Conn -> Places] /\ thread'[k] = "gone"
        /\ nickname' \in [Conn -> Nickname \cup {None}]
        /\ new_password' \in [Conn -> Password \cup {None}]
        /\ authorized' \in [Conn -> BOOLEAN] /\ ~authorized'[k]
        /\ held' \in [Conn -> Conn \cup {None}] /\ held'[k] = None
        /\ \A j \in Conn \ {k} :
              /\ thread'[j] = thread[j] /\ nickname'[j] = nickname[j]
              /\ authorized'[j] = authorized[j] /\ held'[j] = held[j]
    BY <2>3, Deleted DEF IInv
  <2>5. /\ socket' \in [Conn -> Conn] /\ socket'[h] = k
        /\ \A j \in Conn \ {h} : socket'[j] = socket[j]
        /\ waiting_reconnect' \in [Conn -> BOOLEAN] /\ ~waiting_reconnect'[h]
        /\ \A j \in Conn \ {h} : waiting_reconnect'[j] = waiting_reconnect[j]
    BY <2>3 DEF IInv, TypeOK
  <2>6. TypeOK'
    BY <1>2, <2>3, <2>4, <2>5 DEF IInv, TypeOK, Places, Authorizing
  <2>7. Connections'
    <3>1. \A j \in Conn : thread'[j] = "none" <=> thread[j] = "none"
      BY <1>1, <2>4
    <3> QED
      BY <1>2, <3>1 DEF IInv, Connections
  <2>8. Threads'
    <3>1. SUFFICES ASSUME NEW j \in Conn
                   PROVE  /\ authorized'[j] => thread'[j] \in {"find", "hand_over", "session", "leaving"}
                          /\ thread'[j] \in {"find", "hand_over", "session"} => authorized'[j]
                          /\ Accepted(j)' \/ thread'[j] \in Dialogue \ {"WAIT_NICKNAME"}
                                => nickname'[j] \in Nickname
                          /\ thread'[j] = "hand_over" <=> held'[j] # None
      BY DEF Threads
    <3>2. CASE j = k
      BY <2>4, <3>2 DEF Dialogue, Accepted, Authorizing
    <3>3. CASE j # k
      <4>1. Accepted(j)' = Accepted(j)
        BY <2>4, <3>3 DEF Accepted
      <4> QED
        BY <2>4, <3>3, <4>1 DEF IInv, Threads
    <3> QED
      BY <3>2, <3>3
  <2>9. Sockets'
    <3>1. SUFFICES ASSUME NEW j \in Conn
                   PROVE  /\ thread'[j] # "gone" /\ ~authorized'[j] => socket'[j] = j
                          /\ thread'[j] \in {"find", "hand_over"} => socket'[j] = j
                          /\ socket'[j] # j => thread'[socket'[j]] = "gone"
      BY DEF Sockets
    <3>2. CASE j = h
      BY <2>2, <2>4, <2>5, <3>2
    <3>3. CASE j = k
      BY <1>1, <2>2, <2>4, <2>5, <3>3
    <3>4. CASE j \notin {h, k}
      <4>1. socket'[j] = socket[j] /\ thread'[j] = thread[j] /\ authorized'[j] = authorized[j]
        BY <2>4, <2>5, <3>4
      <4>2. socket[j] \in Conn
        BY DEF IInv, TypeOK
      <4>3. thread[socket[j]] = "gone" => thread'[socket[j]] = "gone"
        BY <2>4, <4>2
      <4> QED
        BY <4>1, <4>3 DEF IInv, Sockets
    <3> QED
      BY <3>2, <3>3, <3>4
  <2>10. Waiting'
    <3>1. ASSUME NEW j \in Conn, waiting_reconnect'[j]
          PROVE  /\ thread'[j] \in {"session", "leaving"} /\ authorized'[j]
                 /\ link'[socket'[j]] = "broken"
      <4>1. j # h /\ waiting_reconnect[j]
        BY <2>5, <3>1
      <4>2. j # k
        BY <1>1, <4>1 DEF IInv, Waiting
      <4> QED
        BY <1>2, <2>4, <2>5, <4>1, <4>2 DEF IInv, Waiting
    <3>2. ASSUME NEW j \in Conn, held'[j] # None
          PROVE  \/ thread'[held'[j]] = "gone"
                 \/ thread'[held'[j]] \in {"session", "leaving"} /\ authorized'[held'[j]]
      <4>1. j # k /\ held'[j] = held[j] /\ held[j] \in Conn
        BY <2>4, <3>2 DEF IInv, TypeOK
      <4>2. CASE held[j] = k
        BY <2>4, <4>1, <4>2
      <4>3. CASE held[j] # k
        BY <2>4, <3>2, <4>1, <4>3 DEF IInv, Waiting
      <4> QED
        BY <4>2, <4>3
    <3> QED
      BY <3>1, <3>2 DEF Waiting
  <2>11. HandOvers'
    <3>1. SUFFICES ASSUME ~contended, NEW j \in Conn, held'[j] # None
                   PROVE  /\ thread'[held'[j]] # "gone" => waiting_reconnect'[held'[j]]
                          /\ \A d \in Conn : held'[d] = held'[j] => d = j
      BY <2>3 DEF HandOvers
    <3>2. j # k /\ held'[j] = held[j] /\ held[j] \in Conn
      BY <2>4, <3>1 DEF IInv, TypeOK
    <3>3. /\ thread[held[j]] # "gone" => waiting_reconnect[held[j]]
          /\ \A d \in Conn : held[d] = held[j] => d = j
      BY <3>1, <3>2 DEF IInv, HandOvers
    <3>4. held[j] # h
      BY <2>1, <3>2, <3>3
    <3>5. thread'[held[j]] # "gone" => thread[held[j]] # "gone"
      BY <2>4, <3>2
    <3>6. \A d \in Conn : held'[d] = held[j] => d = j
      BY <2>4, <3>1, <3>2, <3>3
    <3> QED
      BY <2>5, <3>2, <3>3, <3>4, <3>5, <3>6
  <2>12. Requests'
    <3>1. ASSUME NEW j \in Conn, thread'[j] \in Dialogue
          PROVE  thread'[j] = thread[j]
      BY <2>4, <3>1 DEF Dialogue
    <3> QED
      BY <1>2, <3>1 DEF IInv, Requests, Asked
  <2>13. ClientsInStep'
    <3>1. SUFFICES ASSUME NEW v \in User, NEW j \in Conn, conn[v] = j, link[j] = "up"
                   PROVE  InStep(state[v], salt[v], j, up[j], down[j])'
      BY <1>2 DEF ClientsInStep
    <3>2. InStep(state[v], salt[v], j, up[j], down[j])
      BY <3>1 DEF IInv, ClientsInStep
    <3>3. CASE j = k
      <4>1. Let_in(k)' /\ ~Rejected(k) /\ thread[k] \notin Dialogue
        BY <1>1, <2>4 DEF Let_in, Accepted, Authorizing, Rejected, Dialogue
      <4> QED
        BY <1>2, <3>2, <3>3, <4>1 DEF InStep, Dialogue
    <3>4. CASE j # k
      BY <1>2, <2>4, <3>2, <3>4 DEF InStep, Rejected, Let_in, Accepted, Authorizing
    <3> QED
      BY <3>3, <3>4
  <2>14. AuthorizedByPassword'
    <3>1. \A j \in Conn : Accepted(j)' => Accepted(j) /\ nickname'[j] = nickname[j]
      BY <2>4 DEF Accepted, Authorizing
    <3> QED
      BY <1>2, <2>3, <3>1 DEF IInv, AuthorizedByPassword
  <2>15. Owned'
    <3>1. SUFFICES ASSUME ~contended, NEW j \in Conn, link[j] = "up", thread'[j] \notin Dialogue
                   PROVE  Rejected(j)' \/ \E c \in Conn : Owner(j, c)'
      BY <1>2, <2>3 DEF Owned
    <3>2. CASE j = k
      <4>1. Owner(k, h)'
        BY <2>2, <2>4, <2>5 DEF Owner, Accepted, Authorizing
      <4> QED
        BY <3>2, <4>1
    <3>3. CASE j # k
      <4>1. Rejected(j) \/ \E c \in Conn : Owner(j, c)
        BY <2>4, <3>1, <3>3 DEF IInv, Owned
      <4>2. link[socket[h]] = "broken"
        BY <2>2, <3>1 DEF IInv, Waiting
      <4>3. ASSUME NEW c \in Conn, Owner(j, c)
            PROVE  Owner(j, c)'
        <5>1. c # k /\ c # h
          BY <1>1, <3>1, <3>3, <4>2, <4>3 DEF Owner, Accepted, Authorizing
        <5> QED
          BY <2>4, <2>5, <4>3, <5>1 DEF Owner, Accepted, Authorizing
      <4>4. Rejected(j) => Rejected(j)'
        BY <2>4, <3>3 DEF Rejected
      <4> QED
        BY <4>1, <4>3, <4>4
    <3> QED
      BY <3>2, <3>3
  <2> QED
    BY <2>6, <2>7, <2>8, <2>9, <2>10, <2>11, <2>12, <2>13, <2>14, <2>15 DEF IInv
<1> QED
  BY <1>3, <1>4

LEMMA CleanupKeeps == ASSUME IInv, NEW k \in Conn, Cleanup(k) PROVE IInv'
<1>1. PICK s \in Conn : s = socket[k]
  BY DEF IInv, TypeOK
<1>2. PICK n \in 0 .. Len(down[s]) : down' = [down EXCEPT ![s] = SubSeq(@, 1, n)]
  BY <1>1 DEF Cleanup
<1>3. /\ thread[k] = "leaving" /\ Delete(k)
      /\ waiting_reconnect' = [waiting_reconnect EXCEPT ![k] = FALSE]
      /\ up' = [up EXCEPT ![s] = <<>>]
      /\ link' = [link EXCEPT ![s] = IF @ = "broken" \/ up[s] # <<>> THEN "broken" ELSE "closed"]
      /\ UNCHANGED <<user, state, conn, salt, buffer, typed, socket, rows, contended, undefined>>
  BY <1>1 DEF Cleanup, user
<1>4. /\ thread' \in [Conn -> Places] /\ thread'[k] = "gone"
      /\ nickname' \in [Conn -> Nickname \cup {None}]
      /\ new_password' \in [Conn -> Password \cup {None}]
      /\ authorized' \in [Conn -> BOOLEAN] /\ ~authorized'[k]
      /\ held' \in [Conn -> Conn \cup {None}] /\ held'[k] = None
      /\ \A j \in Conn \ {k} :
            /\ thread'[j] = thread[j] /\ nickname'[j] = nickname[j]
            /\ authorized'[j] = authorized[j] /\ held'[j] = held[j]
  BY <1>3, Deleted DEF IInv
<1>5. down' \in [Conn -> Seq(Reply)] /\ \A j \in Conn \ {s} : down'[j] = down[j]
  <2>1. down[s] \in Seq(Reply) /\ n \in Nat /\ n <= Len(down[s]) /\ Len(down[s]) \in Nat
    BY LenProperties DEF IInv, TypeOK
  <2>2. \A i \in 1 .. n : down[s][i] \in Reply
    BY <2>1, ElementOfSeq
  <2>3. SubSeq(down[s], 1, n) \in Seq(Reply)
    BY <2>1, <2>2, SubSeqProperties
  <2> QED
    BY <1>2, <2>3 DEF IInv, TypeOK
<1>6. /\ up' \in [Conn -> Seq(Request)] /\ up'[s] = <<>>
      /\ link' \in [Conn -> Link] /\ link'[s] \in {"closed", "broken"}
      /\ link[s] = "broken" => link'[s] = "broken"
      /\ \A j \in Conn \ {s} : up'[j] = up[j] /\ link'[j] = link[j]
      /\ waiting_reconnect' \in [Conn -> BOOLEAN] /\ ~waiting_reconnect'[k]
      /\ \A j \in Conn \ {k} : waiting_reconnect'[j] = waiting_reconnect[j]
  <2>1. <<>> \in Seq(Request)
    OBVIOUS
  <2>2. up' \in [Conn -> Seq(Request)] /\ up'[s] = <<>> /\ \A j \in Conn \ {s} : up'[j] = up[j]
    BY <1>3, <2>1 DEF IInv, TypeOK
  <2>3. /\ link' \in [Conn -> Link] /\ link'[s] \in {"closed", "broken"}
        /\ link[s] = "broken" => link'[s] = "broken"
        /\ \A j \in Conn \ {s} : link'[j] = link[j]
    BY <1>3 DEF IInv, TypeOK, Link
  <2>4. /\ waiting_reconnect' \in [Conn -> BOOLEAN] /\ ~waiting_reconnect'[k]
        /\ \A j \in Conn \ {k} : waiting_reconnect'[j] = waiting_reconnect[j]
    BY <1>3 DEF IInv, TypeOK
  <2> QED
    BY <2>2, <2>3, <2>4
<1>7. thread[s] \notin Dialogue \cup {"none"} /\ link[s] # "none"
  <2>1. s # k => thread[s] = "gone"
    BY <1>1 DEF IInv, Sockets
  <2>2. thread[s] \notin Dialogue \cup {"none"}
    BY <1>3, <2>1 DEF Dialogue
  <2> QED
    BY <2>2 DEF IInv, Connections
<1>8. TypeOK'
  BY <1>3, <1>4, <1>5, <1>6 DEF IInv, TypeOK, Places, Authorizing, Link
<1>9. Connections'
  <2>1. \A j \in Conn : link'[j] = "none" <=> link[j] = "none"
    BY <1>6, <1>7
  <2>2. \A j \in Conn : thread'[j] = "none" <=> thread[j] = "none"
    BY <1>3, <1>4
  <2>3. \A v \in User : conn[v] # 0 => conn[v] \in Conn
    BY ConstantsAssumption DEF IInv, TypeOK, Conn
  <2>4. \A j \in Conn : link[j] = "none" => up'[j] = up[j] /\ down'[j] = down[j]
    BY <1>5, <1>6, <1>7
  <2> QED
    BY <1>3, <2>1, <2>2, <2>3, <2>4 DEF IInv, Connections
<1>10. Threads'
  <2>1. SUFFICES ASSUME NEW j \in Conn
                 PROVE  /\ authorized'[j] => thread'[j] \in {"find", "hand_over", "session", "leaving"}
                        /\ thread'[j] \in {"find", "hand_over", "session"} => authorized'[j]
                        /\ Accepted(j)' \/ thread'[j] \in Dialogue \ {"WAIT_NICKNAME"}
                              => nickname'[j] \in Nickname
                        /\ thread'[j] = "hand_over" <=> held'[j] # None
    BY DEF Threads
  <2>2. CASE j = k
    BY <1>4, <2>2 DEF Dialogue, Accepted, Authorizing
  <2>3. CASE j # k
    <3>1. Accepted(j)' = Accepted(j)
      BY <1>4, <2>3 DEF Accepted
    <3> QED
      BY <1>4, <2>3, <3>1 DEF IInv, Threads
  <2> QED
    BY <2>2, <2>3
<1>11. Sockets'
  <2>1. SUFFICES ASSUME NEW j \in Conn
                 PROVE  /\ thread'[j] # "gone" /\ ~authorized'[j] => socket[j] = j
                        /\ thread'[j] \in {"find", "hand_over"} => socket[j] = j
                        /\ socket[j] # j => thread'[socket[j]] = "gone"
    BY <1>3 DEF Sockets
  <2>2. thread[socket[j]] = "gone" => thread'[socket[j]] = "gone"
    BY <1>4 DEF IInv, TypeOK
  <2>3. CASE j = k
    BY <1>4, <2>2, <2>3 DEF IInv, Sockets
  <2>4. CASE j # k
    BY <1>4, <2>2, <2>4 DEF IInv, Sockets
  <2> QED
    BY <2>3, <2>4
<1>12. Waiting'
  <2>1. ASSUME NEW j \in Conn, waiting_reconnect'[j]
        PROVE  thread'[j] \in {"session", "leaving"} /\ authorized'[j] /\ link'[socket[j]] = "broken"
    <3>1. j # k /\ waiting_reconnect[j]
      BY <1>6, <2>1
    <3>2. link[socket[j]] = "broken" /\ socket[j] \in Conn
      BY <3>1 DEF IInv, Waiting, TypeOK
    <3>3. link'[socket[j]] = "broken"
      BY <1>6, <3>2
    <3> QED
      BY <1>4, <3>1, <3>3 DEF IInv, Waiting
  <2>2. ASSUME NEW j \in Conn, held'[j] # None
        PROVE  \/ thread'[held'[j]] = "gone"
               \/ thread'[held'[j]] \in {"session", "leaving"} /\ authorized'[held'[j]]
    <3>1. j # k /\ held'[j] = held[j] /\ held[j] \in Conn
      BY <1>4, <2>2 DEF IInv, TypeOK
    <3>2. CASE held[j] = k
      BY <1>4, <3>1, <3>2
    <3>3. CASE held[j] # k
      BY <1>4, <2>2, <3>1, <3>3 DEF IInv, Waiting
    <3> QED
      BY <3>2, <3>3
  <2> QED
    BY <1>3, <2>1, <2>2 DEF Waiting
<1>13. HandOvers'
  <2>1. SUFFICES ASSUME ~contended, NEW j \in Conn, held'[j] # None
                 PROVE  /\ thread'[held'[j]] # "gone" => waiting_reconnect'[held'[j]]
                        /\ \A d \in Conn : held'[d] = held'[j] => d = j
    BY <1>3 DEF HandOvers
  <2>2. j # k /\ held'[j] = held[j] /\ held[j] \in Conn
    BY <1>4, <2>1 DEF IInv, TypeOK
  <2>3. /\ thread[held[j]] # "gone" => waiting_reconnect[held[j]]
        /\ \A d \in Conn : held[d] = held[j] => d = j
    BY <2>1, <2>2 DEF IInv, HandOvers
  <2>4. thread'[held[j]] # "gone" => held[j] # k /\ thread[held[j]] # "gone"
    BY <1>4, <2>2
  <2>5. \A d \in Conn : held'[d] = held[j] => d = j
    BY <1>4, <2>1, <2>2, <2>3
  <2> QED
    BY <1>6, <2>2, <2>3, <2>4, <2>5
<1>14. Requests'
  <2>1. ASSUME NEW j \in Conn, thread'[j] \in Dialogue
        PROVE  thread'[j] = thread[j] /\ up'[j] = up[j]
    <3>1. thread'[j] = thread[j]
      BY <1>4, <2>1 DEF Dialogue
    <3> QED
      BY <1>6, <1>7, <2>1, <3>1
  <2> QED
    BY <1>3, <2>1 DEF IInv, Requests, Asked
<1>15. ClientsInStep'
  <2>1. SUFFICES ASSUME NEW v \in User, NEW j \in Conn, conn[v] = j, link'[j] = "up"
                 PROVE  InStep(state[v], salt[v], j, up[j], down[j])'
    BY <1>3 DEF ClientsInStep
  <2>2. j # s /\ up'[j] = up[j] /\ down'[j] = down[j] /\ link[j] = "up"
    BY <1>5, <1>6, <2>1
  <2>3. InStep(state[v], salt[v], j, up[j], down[j])
    BY <2>1, <2>2 DEF IInv, ClientsInStep
  <2>4. CASE j = k
    <3>1. authorized[k]
      BY <1>1, <1>3, <2>2, <2>4 DEF IInv, Sockets
    <3>2. Let_in(k)' /\ ~Rejected(k) /\ thread[k] \notin Dialogue
      BY <1>3, <1>4, <3>1 DEF Let_in, Accepted, Authorizing, Rejected, Dialogue
    <3> QED
      BY <1>3, <2>2, <2>3, <2>4, <3>2 DEF InStep, Dialogue
  <2>5. CASE j # k
    BY <1>3, <1>4, <2>2, <2>3, <2>5 DEF InStep, Rejected, Let_in, Accepted, Authorizing
  <2> QED
    BY <2>4, <2>5
<1>16. AuthorizedByPassword'
  <2>1. \A j \in Conn : Accepted(j)' => Accepted(j) /\ nickname'[j] = nickname[j]
    BY <1>4 DEF Accepted, Authorizing
  <2> QED
    BY <1>3, <2>1 DEF IInv, AuthorizedByPassword
<1>17. Owned'
  <2>1. SUFFICES ASSUME ~contended, NEW j \in Conn, link'[j] = "up", thread'[j] \notin Dialogue
                 PROVE  Rejected(j)' \/ \E c \in Conn : Owner(j, c)'
    BY <1>3 DEF Owned
  <2>2. j # s /\ link[j] = "up"
    BY <1>6, <2>1
  <2>3. Rejected(j) \/ \E c \in Conn : Owner(j, c)
    BY <1>3, <1>4, <2>1, <2>2 DEF IInv, Owned, Dialogue
  <2>4. ASSUME NEW c \in Conn, Owner(j, c)
        PROVE  Owner(j, c)'
    <3>1. c # k
      BY <1>1, <2>2, <2>4 DEF Owner, Accepted, Authorizing
    <3> QED
      BY <1>3, <1>4, <2>4, <3>1 DEF Owner, Accepted, Authorizing
  <2>5. Rejected(j) => Rejected(j)'
    <3>1. Rejected(j) => j # k
      BY <1>1, <1>3, <2>2 DEF Rejected, IInv, Sockets
    <3> QED
      BY <1>4, <3>1 DEF Rejected
  <2> QED
    BY <2>3, <2>4, <2>5
<1> QED
  BY <1>8, <1>9, <1>10, <1>11, <1>12, <1>13, <1>14, <1>15, <1>16, <1>17 DEF IInv

-----------------------------------------------------------------------------
(* The theorems.                                                           *)

\* No step of a user or of a thread, and no failure of the network, leaves the invariant.
LEMMA StepKeeps == ASSUME IInv, [Next]_vars PROVE IInv'
<1>1. CASE UNCHANGED vars
  <2>1. UNCHANGED <<state, conn, salt, buffer, typed, link, up, down, thread, nickname, new_password,
                    authorized, waiting_reconnect, socket, held, rows, contended, undefined>>
    BY <1>1 DEF vars, user, server, server_but_undefined
  <2>2. TypeOK' /\ Connections' /\ Threads' /\ Sockets' /\ Waiting' /\ HandOvers' /\ Requests'
    BY <2>1 DEF IInv, TypeOK, Connections, Threads, Accepted, Authorizing, Sockets, Waiting, HandOvers, Requests, Asked
  <2>3. ClientsInStep'
    <3>1. SUFFICES ASSUME NEW v \in User, NEW j \in Conn, conn[v] = j, link[j] = "up"
                   PROVE  InStep(state[v], salt[v], j, up[j], down[j])'
      BY <2>1 DEF ClientsInStep
    <3>2. InStep(state[v], salt[v], j, up[j], down[j])
      BY <3>1 DEF IInv, ClientsInStep
    <3> QED
      BY <2>1, <3>2 DEF InStep, Rejected, Let_in, Accepted, Authorizing
  <2>4. AuthorizedByPassword' /\ Owned'
    BY <2>1 DEF IInv, AuthorizedByPassword, Accepted, Authorizing, Owned, Owner, Rejected
  <2> QED
    BY <2>2, <2>3, <2>4 DEF IInv
<1>2. ASSUME NEW u \in User,
             \/ Turn(u) \/ Key(u) \/ Connect(u)
             \/ connect(u) \/ Callback(u) \/ inputHandler(u)
      PROVE  IInv'
  BY <1>2, UserSteps, IdlesKeeps, StartsKeeps, MovesKeeps
<1>3. ASSUME NEW k \in Conn, client_to_server(k)
      PROVE  IInv'
  <2>1. CASE NicknameRefused(k) \/ NicknameAccepted(k) \/ FirstPassword(k)
    BY <2>1, RefusedKeeps, AcceptedKeeps, FirstKeeps
  <2>2. CASE SecondPassword(k) \/ LoginPassword(k) \/ WrongMessage(k)
    BY <2>2, SecondKeeps, LoginKeeps, WrongNever
  <2>5. CASE SetAuthorized(k) \/ FindWaiting(k)
    BY <2>5, SetAuthorizedKeeps, FindKeeps
  <2>3. CASE HandOver(k) \/ Line(k) \/ Loss(k)
    BY <2>3, HandOverKeeps, LineKeeps, LossKeeps
  <2>4. CASE ReconnectTimeout(k) \/ Cleanup(k)
    BY <2>4, TimeoutKeeps, CleanupKeeps
  <2> QED
    BY <1>3, <2>1, <2>2, <2>3, <2>4, <2>5 DEF client_to_server
<1>4. ASSUME NEW k \in Conn, Break(k)
      PROVE  IInv'
  BY <1>4, BreakKeeps
<1> QED
  BY <1>1, <1>2, <1>3, <1>4 DEF Next

LEMMA InitHolds == ASSUME Init PROVE IInv
<1>0. None \notin Conn /\ MaxConnections \in Nat /\ Conn = 1 .. MaxConnections
  BY ConstantsAssumption DEF Conn
<1>1. TypeOK
  <2>1. state \in [User -> ClientState]
    BY DEF Init, ClientState, Offline
  <2>2. /\ up \in [Conn -> Seq(Request)] /\ down \in [Conn -> Seq(Reply)]
        /\ conn \in [User -> 0 .. MaxConnections]
    BY <1>0 DEF Init
  <2> QED
    BY <2>1, <2>2 DEF Init, TypeOK, ClientState
<1>2. Connections
  <2>1. \A u \in User : state[u] \in Offline \ {"CONNECTION_LOST"}
    BY DEF Init, Offline
  <2>2. (Offline \ {"CONNECTION_LOST"}) \cap (Online \cup {"CONNECTING", "CONNECTION_LOST"}) = {}
    BY DEF Offline, Online, Enter, Sent, PasswordSent
  <2> QED
    BY <2>1, <2>2 DEF Init, Connections
<1>3. Threads /\ Sockets /\ Waiting /\ HandOvers
  BY DEF Init, Threads, Accepted, Authorizing, Sockets, Waiting, HandOvers, Dialogue
<1>4. Requests
  BY DEF Init, Requests, Dialogue
<1>5. ClientsInStep /\ AuthorizedByPassword /\ Owned
  BY DEF Init, ClientsInStep, AuthorizedByPassword, Accepted, Authorizing, Owned
<1> QED
  BY <1>1, <1>2, <1>3, <1>4, <1>5 DEF IInv

\* The invariant: clients and threads keep step over every connection that is up, and
\* every socket and every object that waits belongs to a client that may have it.
THEOREM IInvCorrect == Spec => []IInv
<1>1. Init => IInv
  BY InitHolds
<1>2. IInv /\ [Next]_vars => IInv'
  BY StepKeeps
<1> QED
  BY <1>1, <1>2, PTL DEF Spec

\* What the clients, the threads and the database hold keeps its type; above all, a
\* password is never the string with what introduces it, nor a salt missing when it is due.
THEOREM TypeCorrect == Spec => []TypeOK
<1>1. IInv => TypeOK
  BY DEF IInv
<1> QED
  BY <1>1, IInvCorrect, PTL

\* No thread ever receives another message than the one it waits for: the exit of
\* client_to_server for a wrong message is dead code as long as both clients are these.
THEOREM ExpectedCorrect == Spec => []ExpectedOnly
<1>1. ASSUME IInv PROVE ExpectedOnly
  BY <1>1, RequestTaken DEF ExpectedOnly, Asked
<1> QED
  BY <1>1, IInvCorrect, PTL

\* Whoever is sent auth_ok! has sent the password in the row of his nickname, however many
\* register that nickname at a time.
THEOREM PasswordCorrect == Spec => []AuthorizedByPassword
<1>1. IInv => AuthorizedByPassword
  BY DEF IInv
<1> QED
  BY <1>1, IInvCorrect, PTL

\* A client that says it is authorized, over a connection that nobody has closed, was
\* accepted, though auth_ok! may be there before set_authorized(true), and a thread of the
\* server has his socket, through every hand-over but two to one client at a time.
THEOREM ServerCorrect == Spec => []AuthorizedByServer
<1>1. ASSUME IInv PROVE AuthorizedByServer
  <2>1. SUFFICES ASSUME NEW u \in User, state[u] = "AUTHORIZED", link[Mine(u)] = "up", ~contended
                 PROVE  \E k \in Conn : Accepted(k) /\ socket[k] = Mine(u)
    BY DEF AuthorizedByServer
  <2>2. PICK k \in Conn : k = conn[u]
    BY <1>1, <2>1 DEF IInv, Connections, Online
  <2>3. Let_in(k)
    <3>1. InStep(state[u], salt[u], k, up[k], down[k])
      BY <1>1, <2>1, <2>2 DEF IInv, ClientsInStep, Mine
    <3> QED
      BY <2>1, <3>1 DEF InStep
  <2>4. thread[k] \notin Dialogue /\ ~Rejected(k)
    BY <1>1, <2>3 DEF IInv, Threads, Accepted, Authorizing, Let_in, Rejected, Dialogue
  <2> QED
    BY <1>1, <2>1, <2>2, <2>4 DEF IInv, Owned, Owner, Mine
<1> QED
  BY <1>1, IInvCorrect, PTL

=============================================================================

------------------------------- MODULE Delivery -------------------------------
(***************************************************************************)
(* What becomes of the strings pushed to the clients of one nickname: each  *)
(* is accepted by one connection at most and once, those pushed to the same *)
(* client in the order of their pushes, or is discarded with its queue.     *)
(***************************************************************************)
EXTENDS Naturals, Sequences

CONSTANTS Client, MaxStrings

VARIABLES
    pushed,      \* how many strings have been pushed to a client
    sent,        \* what a connection has accepted, in order
    discarded

vars == <<pushed, sent, discarded>>

String == Client \X (1 .. MaxStrings)

IsSent(s) == \E k \in Client : \E i \in 1 .. Len(sent[k]) : sent[k][i] = s

IsPending(s) == s[2] <= pushed[s[1]] /\ ~IsSent(s) /\ s \notin discarded

\* The oldest pending string of the client it was pushed to.
IsNext(s) == IsPending(s) /\ \A n \in 1 .. (s[2] - 1) : ~IsPending(<<s[1], n>>)

Init ==
    /\ pushed = [c \in Client |-> 0]
    /\ sent = [c \in Client |-> <<>>]
    /\ discarded = {}

Push(c) ==
    /\ \E n \in (pushed[c] + 1) .. MaxStrings : pushed' = [pushed EXCEPT ![c] = n]
    /\ UNCHANGED <<sent, discarded>>

Deliver(s, k) ==
    /\ sent' = [sent EXCEPT ![k] = Append(@, s)]
    /\ IsNext(s)
    /\ UNCHANGED <<pushed, discarded>>

Discard ==
    /\ UNCHANGED <<pushed, sent>>
    /\ discarded \subseteq discarded'
    /\ \A s \in discarded' \ discarded : s \in String /\ IsPending(s)

Next ==
    \/ \E c \in Client : Push(c)
    \/ \E s \in String, k \in Client : Deliver(s, k)
    \/ Discard

Spec == Init /\ [][Next]_vars

=============================================================================

------------------------------- MODULE Transfer -------------------------------
(***************************************************************************)
(* What the games do to the ratings: a loser gives some points to a winner,  *)
(* in one step, or the points of the winner are kept and the loss is not      *)
(* (the database failed).  A row that was used by two games at once is none   *)
(* of those that the promise is about any more; the others still are, and     *)
(* get what they win or lose even against it.                                *)
(***************************************************************************)
EXTENDS Integers

CONSTANTS Row, RATING_K, DEFAULT_RATING

VARIABLE rating           \* of the rows that the promise is about

Init == rating = [r \in Row |-> DEFAULT_RATING]

Give(winner, loser) ==
    /\ winner # loser
    /\ \E delta \in 0 .. RATING_K :
          rating' = [r \in DOMAIN rating |->
                        rating[r] + (IF r = winner THEN delta ELSE 0) - (IF r = loser THEN delta ELSE 0)]

ForgetLoss(loser) ==
    \E delta \in 0 .. RATING_K :
        rating' = [r \in DOMAIN rating |-> rating[r] + (IF r = loser THEN delta ELSE 0)]

Exclude(Rows) == rating' = [r \in DOMAIN rating \ Rows |-> rating[r]]

Next ==
    \/ \E winner, loser \in Row : Give(winner, loser)
    \/ \E loser \in Row : ForgetLoss(loser)
    \/ \E Rows \in SUBSET Row : Exclude(Rows)

Spec == Init /\ [][Next]_rating

=============================================================================

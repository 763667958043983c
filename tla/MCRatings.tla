------------------------------ MODULE MCRatings ------------------------------
(***************************************************************************)
(* Ratings for TLC.                                                        *)
(***************************************************************************)
EXTENDS Ratings, TLC

\* No client, row or game is told from another: CHOOSE is applied to singletons
\* only, wherever its value matters.
Symmetry == Permutations(Client) \cup Permutations(Row) \cup Permutations(Duel)

=============================================================================

--------------------------- MODULE MCCombinations ---------------------------
(***************************************************************************)
(* Combinations over every deal of at most MaxDealt cards: the two hands   *)
(* are dealt card by card from the shuffled deck (generate_cards), so any  *)
(* set of cards is a union of both hands.  The invariants compare the      *)
(* search for the best combination with its definition over all bids.      *)
(***************************************************************************)
EXTENDS Combinations

CONSTANTS
    MaxDealt,       \* bound of a deal from all suits: the code deals up to 52
    DealtSuits,     \* a deal from these suits only may have any number of cards
    DealtRanks      \* bound of a deal from all suits: the highest ranks

VARIABLE cards

CardIndex(c) == c[1] * SUITS + c[2]

\* Equal ranks need all the suits, flushes and straights need many ranks.
IsDealt(deal) ==
    \/ \A c \in deal : c[2] \in DealtSuits
    \/ Cardinality(deal) <= MaxDealt /\ \A c \in deal : c[1] >= RANKS - DealtRanks

Init == cards = {}

\* The order of the deck does not matter to a Hand: cards come in index order.
Next ==
    \E c \in Card :
        /\ \A d \in cards : CardIndex(d) < CardIndex(c)
        /\ IsDealt(cards \cup {c})
        /\ cards' = cards \cup {c}

Spec == Init /\ [][Next]_cards

AllBids == Bids

\* The bids a reveal finds in the hand.
True(h) == {c \in AllBids : check_combination(h, c)}

\* What /b announces as the best combination is in the hand, and it is one
\* that a player could have bid (parse_m_command accepts its text).
BestIsInHand ==
    LET h == Hand(cards)
        best == find_best_combination(h)
    IN  cards # {} => /\ check_combination(h, best)
                      /\ ParseError(format_m_command(best)) = ""

\* A full house of three and two of the same rank: parse_m_command accepts the bid, and
\* check_full_house takes it for true if three cards of the rank are there.
Degenerate(c) == c[1] = FULL_HOUSE /\ c[2] = c[3]

\* No true bid beats the best combination, but for a full house of one rank.
NothingBeatsBest ==
    LET h == Hand(cards)
        best == find_best_combination(h)
    IN  \A c \in True(h) :
            less_combination(best, c) => Degenerate(c)

\* Whatever is dealt, /b takes a true bid, two pairs aside, for the best combination if
\* and only if no true bid beats it: a full house of one rank, which no search finds, is
\* neither taken for the best nor counted as one that beats.
BlockIsJudgedRight ==
    LET h == Hand(cards)
        T == True(h)
    IN  \A c \in T : c[1] # TWO_PAIRS =>
            (is_best_combination(h, c) <=>
                /\ ~Degenerate(c)
                /\ \A d \in T : ~Degenerate(d) => ~less_combination(c, d))

\* game.cpp:413-427: two pairs are told not to be the best combination only if
\* some other bid is better.
BlockRecognisesTwoPairs ==
    LET h == Hand(cards)
        T == True(h)
    IN  \A c \in T : c[1] = TWO_PAIRS /\ (\A d \in T : ~less_combination(c, d)) =>
            is_best_combination(h, c)

=============================================================================

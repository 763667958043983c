---------------------------- MODULE Combinations ----------------------------
(***************************************************************************)
(* The hands and combinations of src/CardBluffServer/combinations.cpp: what *)
(* a hand contains, its best combination, the order of bids, and the bids  *)
(* that /m accepts.  A combination is the vector of the code, a sequence   *)
(* <<type, rank ... , suit>>; vectors are indexed from 1 here.             *)
(* RANKS and SUITS are 13 and 4 in the code; smaller decks keep the runs   *)
(* small.  The ace is RANKS - 1, and five cards make a straight as there.  *)
(***************************************************************************)
EXTENDS Integers, Sequences, FiniteSets

CONSTANTS RANKS, SUITS

ASSUME DeckAssumption == RANKS \in Nat \ (0 .. 5) /\ SUITS \in Nat \ {0}

Rank == 0 .. RANKS - 1
Suit == 0 .. SUITS - 1
Card == Rank \X Suit           \* card / 4 and card % 4 of the code

FIVE == 3
SEVEN == 5
ACE == RANKS - 1

NOTHING == 0        HIGH_CARD == 1     PAIR == 2      TWO_PAIRS == 3
SET == 4            STRAIGHT == 5      FLUSH == 6     FULL_HOUSE == 7
SQUARE == 8         STRAIGHT_FLUSH == 9

COMBINATIONS == NOTHING .. STRAIGHT_FLUSH
HAS_SUIT == {FLUSH, STRAIGHT_FLUSH}
IS_STRAIGHT_TYPE == {STRAIGHT, STRAIGHT_FLUSH}
IS_FLUSH_TYPE == {FLUSH}
HOW_MANY_RANKS ==
    [t \in COMBINATIONS |-> CASE t = NOTHING -> 0
                              [] t \in {TWO_PAIRS, FULL_HOUSE} -> 2
                              [] OTHER -> 1]
SuitsOf(t) == IF t \in HAS_SUIT THEN 1 ELSE 0
COMBINATION_SIZE == [t \in COMBINATIONS |-> 1 + HOW_MANY_RANKS[t] + SuitsOf(t)]

LeastOf(S) == CHOOSE x \in S : \A y \in S : x <= y
GreatestOf(S) == CHOOSE x \in S : \A y \in S : x >= y

-----------------------------------------------------------------------------
(* The class Hand, built from the set of cards dealt to both players.      *)

Decreasing(S) ==
    [i \in 1 .. Cardinality(S) |->
        CHOOSE x \in S : Cardinality({y \in S : y > x}) = i - 1]

Hand(cards) ==
    LET number(r) == Cardinality({c \in cards : c[1] = r}) IN
    [suit_rank_b |-> [s \in Suit |-> [r \in Rank |-> <<r, s>> \in cards]],
     suit_rank   |-> [s \in Suit |-> Decreasing({r \in Rank : <<r, s>> \in cards})],
     rank_number |-> [r \in Rank |-> number(r)],
     number_rank |-> [n \in 0 .. 3 |-> Decreasing({r \in Rank : number(r) > n})]]

\* The ranks at the head of five consecutive entries of a decreasing sequence.
StraightHeads(v) == {v[x - 4] : x \in {y \in 5 .. Len(v) : v[y - 4] - 4 = v[y]}}

\* Mutant: 5-4-3-2 makes a straight without the ace.
TopStraightWithoutAce(h, s) ==
    LET v == h.suit_rank[s]
        n == Len(v)
    IN  IF StraightHeads(v) # {} THEN GreatestOf(StraightHeads(v))
        ELSE IF n >= 4 /\ v[n - 3] = FIVE THEN FIVE
        ELSE -1

\* Where the index of find_best_straight_flush stops in suit s: at the first
\* straight of the suit, else past its end if that is 5-4-3-2 and the ace is there.
TopStraight(h, s) ==
    LET v == h.suit_rank[s]
        n == Len(v)
    IN  IF StraightHeads(v) # {} THEN GreatestOf(StraightHeads(v))
        ELSE IF n >= 4 /\ h.suit_rank_b[s][ACE] /\ v[n - 3] = FIVE THEN FIVE
        ELSE -1

find_best_straight_flush(h) ==
    LET best == GreatestOf({TopStraight(h, s) : s \in Suit}) IN
    IF best = -1 THEN <<-1, -1>>
    ELSE <<best, LeastOf({s \in Suit : TopStraight(h, s) = best})>>

check_straight_flush(h, rank, suit) ==
    IF rank = FIVE
    THEN /\ \A r \in 0 .. 3 : h.suit_rank_b[suit][r]
         /\ h.suit_rank_b[suit][ACE]
    ELSE \A r \in rank - 4 .. rank : h.suit_rank_b[suit][r]

\* find_best_four_of_a_kind, _three_of_a_kind, _pair and _high_card
find_best_of_number(h, n) ==
    IF h.number_rank[n - 1] # <<>> THEN Head(h.number_rank[n - 1]) ELSE -1

\* check_four_of_a_kind, _three_of_a_kind, _pair and _high_card
check_number(h, n, rank) == h.rank_number[rank] >= n

\* The loops take the first rank three times held that leaves a pair of another.
find_best_full_house(h) ==
    LET three == h.number_rank[2]
        two == h.number_rank[1]
        Pairs(i) == {j \in DOMAIN two : two[j] # three[i]}
        found == {i \in DOMAIN three : Pairs(i) # {}}
    IN  IF found = {} THEN <<-1, -1>>
        ELSE <<three[LeastOf(found)], two[LeastOf(Pairs(LeastOf(found)))]>>

check_full_house(h, rank3, rank2) ==
    h.rank_number[rank3] >= 3 /\ h.rank_number[rank2] >= 2

\* The fifth card of a suit from below.
FlushRank(h, s) == h.suit_rank[s][Len(h.suit_rank[s]) - 4]

FlushSuits(h) == {s \in Suit : Len(h.suit_rank[s]) >= 5}

\* Mutant: the flush of the highest rank is taken for the best.
find_highest_flush(h) ==
    IF FlushSuits(h) = {} THEN <<-1, -1>>
    ELSE LET rank == GreatestOf({FlushRank(h, s) : s \in FlushSuits(h)}) IN
         <<rank, LeastOf({s \in FlushSuits(h) : FlushRank(h, s) = rank})>>

find_best_flush(h) ==
    IF FlushSuits(h) = {} THEN <<-1, -1>>
    ELSE LET rank == LeastOf({FlushRank(h, s) : s \in FlushSuits(h)}) IN
         <<rank, LeastOf({s \in FlushSuits(h) : FlushRank(h, s) = rank})>>

check_flush(h, rank, suit) ==
    h.suit_rank_b[suit][rank] /\ suit \in FlushSuits(h) /\ FlushRank(h, suit) <= rank

check_straight(h, rank) ==
    IF rank = FIVE
    THEN (\A r \in 0 .. rank : h.rank_number[r] # 0) /\ h.rank_number[ACE] # 0
    ELSE \A r \in rank - 4 .. rank : h.rank_number[r] # 0

find_best_straight(h) ==
    LET heads == StraightHeads(h.number_rank[0]) IN
    IF heads # {} THEN GreatestOf(heads)
    ELSE IF check_straight(h, FIVE) THEN FIVE
    ELSE -1

find_best_two_pairs(h) ==
    LET two == h.number_rank[1] IN
    IF Len(two) >= 2 THEN <<two[1], two[2]>> ELSE <<-1, -1>>

check_two_pairs(h, rank1, rank2) ==
    h.rank_number[rank1] >= 2 /\ h.rank_number[rank2] >= 2

find_best_combination(h) ==
    LET c9 == find_best_straight_flush(h)
        c8 == find_best_of_number(h, 4)
        c7 == find_best_full_house(h)
        c6 == find_best_flush(h)
        c5 == find_best_straight(h)
        c4 == find_best_of_number(h, 3)
        c3 == find_best_two_pairs(h)
        c2 == find_best_of_number(h, 2)
        c1 == find_best_of_number(h, 1)
    IN  IF c9[1] # -1 THEN <<STRAIGHT_FLUSH>> \o c9
        ELSE IF c8 # -1 THEN <<SQUARE, c8>>
        ELSE IF c7[1] # -1 THEN <<FULL_HOUSE>> \o c7
        ELSE IF c6[1] # -1 THEN <<FLUSH>> \o c6
        ELSE IF c5 # -1 THEN <<STRAIGHT, c5>>
        ELSE IF c4 # -1 THEN <<SET, c4>>
        ELSE IF c3[1] # -1 THEN <<TWO_PAIRS>> \o c3
        ELSE IF c2 # -1 THEN <<PAIR, c2>>
        ELSE IF c1 # -1 THEN <<HIGH_CARD, c1>>
        ELSE <<NOTHING>>

check_combination(h, c) ==
    CASE c[1] = NOTHING -> TRUE
      [] c[1] = HIGH_CARD -> check_number(h, 1, c[2])
      [] c[1] = PAIR -> check_number(h, 2, c[2])
      [] c[1] = TWO_PAIRS -> check_two_pairs(h, c[2], c[3])
      [] c[1] = SET -> check_number(h, 3, c[2])
      [] c[1] = STRAIGHT -> check_straight(h, c[2])
      [] c[1] = FLUSH -> check_flush(h, c[2], c[3])
      [] c[1] = FULL_HOUSE -> check_full_house(h, c[2], c[3])
      [] c[1] = SQUARE -> check_number(h, 4, c[2])
      [] c[1] = STRAIGHT_FLUSH -> check_straight_flush(h, c[2], c[3])

\* Mutant: the suit takes part in the comparison.
keep_suit(c) == c

remove_suit(c) == IF c[1] \in HAS_SUIT THEN SubSeq(c, 1, Len(c) - 1) ELSE c

is_best_combination(h, c) ==
    /\ check_combination(h, c)
    /\ remove_suit(find_best_combination(h)) = remove_suit(c)

-----------------------------------------------------------------------------
(* Bids: the order of less_combination, and what parse_m_command accepts.  *)

\* operator< of two vectors
LexLess(u, v) ==
    \E i \in 1 .. Len(v) :
        /\ \A j \in 1 .. i - 1 : j <= Len(u) /\ u[j] = v[j]
        /\ i > Len(u) \/ u[i] < v[i]

\* A flush of lower rank is the better one.
OrderKey(c) ==
    LET k == remove_suit(c) IN
    IF k[1] = FLUSH THEN <<k[1], -k[2]>> ELSE k

less_combination(u, v) == LexLess(OrderKey(u), OrderKey(v))

\* A text is the sequence of what its symbols stand for at their places, with
\* Unknown for a symbol that WCHAR_TO_COMBINATION, _RANK or _SUIT lacks.
Unknown == -1

TypeSymbol == HIGH_CARD .. STRAIGHT_FLUSH   \* NOTHING has no symbol

\* The first complaint of parse_m_command, "" for none.
ParseError(text) ==
    IF text = <<>> THEN "MISSING_COMBINATION"
    ELSE IF text[1] \notin TypeSymbol THEN "INCORRECT_COMBINATION"
    ELSE
    LET t == text[1]
        n == HOW_MANY_RANKS[t]
        badRank == {i \in 2 .. n + 1 : i > Len(text) \/ text[i] \notin Rank}
    IN  IF badRank # {}
        THEN IF LeastOf(badRank) > Len(text) THEN "MISSING_RANK" ELSE "INCORRECT_RANK"
        ELSE IF t \in HAS_SUIT /\ Len(text) <= n + 1 THEN "MISSING_SUIT"
        ELSE IF t \in HAS_SUIT /\ text[n + 2] \notin Suit THEN "INCORRECT_SUIT"
        ELSE IF Len(text) > COMBINATION_SIZE[t] THEN "INCORRECT_SUIT"
        ELSE IF t \in IS_STRAIGHT_TYPE /\ text[2] < FIVE THEN "LITTLE_STRAIGHT_RANK"
        ELSE IF t \in IS_FLUSH_TYPE /\ text[2] < SEVEN THEN "LITTLE_FLUSH_RANK"
        ELSE IF t = TWO_PAIRS /\ text[2] = text[3] THEN "COINCIDING_RANKS"
        ELSE ""

\* The combination parsed from a text without error: two pairs are sorted.
ParsedCombination(text) ==
    IF text[1] = TWO_PAIRS
    THEN <<TWO_PAIRS, LeastOf({text[2], text[3]}), GreatestOf({text[2], text[3]})>>
    ELSE text

\* The text format_m_command gives a combination.
format_m_command(c) == c

\* Every text of the right length for its type, and those that are off by one
\* symbol or hold an unknown one.
Texts ==
    LET Symbols == {Unknown} \cup Rank \cup Suit
    IN  {<<>>} \cup
        UNION {{<<t>> \o rest : rest \in UNION {[1 .. k -> Symbols] : k \in 0 .. 3}} :
               t \in TypeSymbol \cup {Unknown}}

\* The combinations a player can bid.
Bids == {ParsedCombination(t) : t \in {x \in Texts : ParseError(x) = ""}}

=============================================================================

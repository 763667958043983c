------------------------- MODULE CombinationsProofs -------------------------
(***************************************************************************)
(* The search for the best combination of a hand agrees with the checks and  *)
(* the order of bids, for every deck of six ranks or more, every number of  *)
(* suits and every deal.                                                    *)
(***************************************************************************)
EXTENDS MCCombinations, FiniteSetTheorems, SequenceTheorems, TLAPS

-----------------------------------------------------------------------------
(* Finite sets of integers, and the sequences of their elements.           *)

Above(S, x) == {y \in S : y > x}

\* The elements of a finite set are told apart by how many there are above them, and
\* these numbers leave no gap: no two of the at most n elements above share one.
LEMMA Ranked ==
    ASSUME NEW S \in SUBSET Int, IsFiniteSet(S)
    PROVE  /\ Cardinality(S) \in Nat
           /\ \A x \in S : Cardinality(Above(S, x)) \in 0 .. Cardinality(S) - 1
           /\ \A x, y \in S : x < y => Cardinality(Above(S, y)) < Cardinality(Above(S, x))
           /\ \A i \in 0 .. Cardinality(S) - 1 : \E x \in S : Cardinality(Above(S, x)) = i
<1> DEFINE n == Cardinality(S)
           f == [x \in S |-> Cardinality(Above(S, x))]
<1>1. n \in Nat
  BY FS_CardinalityType
<1>2. ASSUME NEW x \in S
      PROVE  /\ IsFiniteSet(Above(S, x))
             /\ Cardinality(Above(S, x)) \in Nat
             /\ Cardinality(Above(S, x)) < n
  <2>1. Above(S, x) \in SUBSET S /\ Above(S, x) # S
    BY DEF Above
  <2>2. IsFiniteSet(Above(S, x)) /\ Cardinality(Above(S, x)) <= n /\ Cardinality(Above(S, x)) # n
    BY <2>1, FS_Subset
  <2>3. Cardinality(Above(S, x)) \in Nat
    BY <2>2, FS_CardinalityType
  <2> QED
    BY <1>1, <2>2, <2>3
<1>3. ASSUME NEW x \in S, NEW y \in S, x < y
      PROVE  Cardinality(Above(S, y)) < Cardinality(Above(S, x))
  <2>1. Above(S, y) \in SUBSET Above(S, x) /\ Above(S, y) # Above(S, x)
    <3>1. y \in Above(S, x) /\ y \notin Above(S, y)
      BY <1>3 DEF Above
    <3>2. \A z \in Above(S, y) : z \in Above(S, x)
      BY <1>3 DEF Above
    <3> QED
      BY <3>1, <3>2
  <2>2. /\ Cardinality(Above(S, y)) <= Cardinality(Above(S, x))
        /\ Cardinality(Above(S, y)) # Cardinality(Above(S, x))
    BY <1>2, <2>1, FS_Subset
  <2> QED
    BY <1>2, <2>2
<1>4. f \in Injection(S, 0 .. n - 1)
  <2>1. f \in [S -> 0 .. n - 1]
    BY <1>1, <1>2
  <2>2. \A x, y \in S : f[x] = f[y] => x = y
    <3> SUFFICES ASSUME NEW x \in S, NEW y \in S, x < y PROVE f[x] # f[y]
      OBVIOUS
    <3> QED
      BY <1>2, <1>3
  <2> QED
    BY <2>1, <2>2 DEF Injection, IsInjective
<1>5. IsFiniteSet(0 .. n - 1) /\ Cardinality(0 .. n - 1) = n
  BY <1>1, FS_Interval
<1>6. f \in Surjection(S, 0 .. n - 1)
  BY <1>4, <1>5, FS_Injection
<1>7. \A i \in 0 .. n - 1 : \E x \in S : Cardinality(Above(S, x)) = i
  BY <1>6 DEF Surjection
<1> QED
  BY <1>1, <1>2, <1>3, <1>7

LEMMA Extremes ==
    ASSUME NEW S \in SUBSET Int, IsFiniteSet(S), S # {}
    PROVE  /\ LeastOf(S) \in S /\ \A x \in S : LeastOf(S) <= x
           /\ GreatestOf(S) \in S /\ \A x \in S : x <= GreatestOf(S)
<1>1. Cardinality(S) \in Nat \ {0}
  BY FS_CardinalityType, FS_EmptySet
<1>2. \E x \in S : \A y \in S : x >= y
  <2>1. PICK x \in S : Cardinality(Above(S, x)) = 0
    BY <1>1, Ranked
  <2>2. IsFiniteSet(Above(S, x))
    BY FS_Subset DEF Above
  <2>3. Above(S, x) = {}
    BY <2>1, <2>2, FS_EmptySet
  <2> QED
    BY <2>3 DEF Above
<1>3. \E x \in S : \A y \in S : x <= y
  <2>1. PICK x \in S : Cardinality(Above(S, x)) = Cardinality(S) - 1
    BY <1>1, Ranked
  <2>2. Cardinality(S \ {x}) = Cardinality(S) - 1 /\ IsFiniteSet(S \ {x})
    BY FS_RemoveElement
  <2>3. Above(S, x) \in SUBSET (S \ {x})
    BY DEF Above
  <2>4. Above(S, x) = S \ {x}
    BY <2>1, <2>2, <2>3, FS_Subset
  <2> QED
    BY <2>4 DEF Above
<1>4. LeastOf(S) \in S /\ \A x \in S : LeastOf(S) <= x
  BY <1>3 DEF LeastOf
<1>5. GreatestOf(S) \in S /\ \A x \in S : GreatestOf(S) >= x
  BY <1>2 DEF GreatestOf
<1> QED
  BY <1>4, <1>5

\* v has the elements of S, from the highest to the lowest.
Lists(v, S) ==
    /\ v \in Seq(S)
    /\ \A i, j \in 1 .. Len(v) : i < j => v[j] < v[i]
    /\ \A x \in S : \E i \in 1 .. Len(v) : v[i] = x

LEMMA DecreasingLists ==
    ASSUME NEW S \in SUBSET Int, IsFiniteSet(S)
    PROVE  Lists(Decreasing(S), S)
<1> DEFINE n == Cardinality(S)
           v == Decreasing(S)
           e(i) == CHOOSE x \in S : Cardinality(Above(S, x)) = i - 1
<1>1. n \in Nat
  BY FS_CardinalityType
<1>2. ASSUME NEW i \in 1 .. n PROVE e(i) \in S /\ Cardinality(Above(S, e(i))) = i - 1
  <2>1. i - 1 \in 0 .. n - 1
    BY <1>1
  <2>2. \E x \in S : Cardinality(Above(S, x)) = i - 1
    BY <2>1, Ranked
  <2> QED
    BY <2>2
<1>3. v = [i \in 1 .. n |-> e(i)]
  BY DEF Decreasing, Above
<1> HIDE DEF e
<1>4. v \in Seq(S)
  BY <1>1, <1>2, <1>3, IsASeq
<1>5. Len(v) = n /\ \A i \in 1 .. n : v[i] = e(i)
  BY <1>1, <1>3, <1>4, LenProperties
<1> HIDE DEF v
<1>6. ASSUME NEW i \in 1 .. n, NEW j \in 1 .. n, i < j PROVE e(j) < e(i)
  <2>1. e(i) \in S /\ e(j) \in S /\ e(i) \in Int /\ e(j) \in Int
    BY <1>2
  <2>2. Cardinality(Above(S, e(i))) = i - 1 /\ Cardinality(Above(S, e(j))) = j - 1
    BY <1>2
  <2>3. e(i) # e(j)
    BY <1>6, <2>2
  <2>4. ~(e(i) < e(j))
    <3>1. e(i) < e(j) => Cardinality(Above(S, e(j))) < Cardinality(Above(S, e(i)))
      BY <2>1, Ranked
    <3> QED
      BY <1>6, <2>2, <3>1
  <2> QED
    BY <2>1, <2>3, <2>4
<1>7. ASSUME NEW x \in S PROVE \E i \in 1 .. n : e(i) = x
  <2>1. PICK k \in 0 .. n - 1 : Cardinality(Above(S, x)) = k
    BY Ranked
  <2>2. k + 1 \in 1 .. n /\ k + 1 - 1 = k
    BY <1>1
  <2>3. e(k + 1) \in S /\ Cardinality(Above(S, e(k + 1))) = k
    BY <1>2, <2>2
  <2>4. e(k + 1) = x
    <3>1. e(k + 1) < x => Cardinality(Above(S, x)) < Cardinality(Above(S, e(k + 1)))
      BY <2>3, Ranked
    <3>2. x < e(k + 1) => Cardinality(Above(S, e(k + 1))) < Cardinality(Above(S, x))
      BY <2>3, Ranked
    <3>3. e(k + 1) \in Int /\ x \in Int
      BY <2>3
    <3> QED
      BY <2>1, <2>3, <3>1, <3>2, <3>3
  <2> QED
    BY <2>2, <2>4
<1> QED
  BY <1>4, <1>5, <1>6, <1>7 DEF Lists, v

-----------------------------------------------------------------------------
(* What the constructor of Hand makes.                                     *)

SuitRanks(h, s) == {r \in Rank : h.suit_rank_b[s][r]}
Numbered(h, n) == {r \in Rank : h.rank_number[r] > n}

IsHand(h) ==
    /\ h.suit_rank_b \in [Suit -> [Rank -> BOOLEAN]]
    /\ h.rank_number \in [Rank -> Nat]
    /\ \A s \in Suit : Lists(h.suit_rank[s], SuitRanks(h, s))
    /\ \A n \in 0 .. 3 : Lists(h.number_rank[n], Numbered(h, n))

LEMMA RanksFinite ==
    /\ Rank \in SUBSET Nat /\ Suit \in SUBSET Nat
    /\ IsFiniteSet(Rank) /\ IsFiniteSet(Suit)
    /\ ACE \in Rank /\ ACE \in Nat /\ ACE > 4
    /\ \A r \in Rank : r >= 0 /\ r <= ACE
    /\ \A S \in SUBSET Rank : IsFiniteSet(S) /\ S \in SUBSET Int
<1>1. IsFiniteSet(Rank) /\ IsFiniteSet(Suit)
  BY DeckAssumption, FS_Interval DEF Rank, Suit
<1>2. Rank \in SUBSET Nat /\ Suit \in SUBSET Nat
  BY DeckAssumption DEF Rank, Suit
<1>3. ACE \in Rank /\ ACE \in Nat /\ ACE > 4 /\ \A r \in Rank : r >= 0 /\ r <= ACE
  BY DeckAssumption DEF Rank, ACE
<1>4. \A S \in SUBSET Rank : IsFiniteSet(S) /\ S \in SUBSET Int
  <2> TAKE S \in SUBSET Rank
  <2>1. IsFiniteSet(S)
    BY <1>1, FS_Subset
  <2>2. S \in SUBSET Int
    BY <1>2
  <2> QED
    BY <2>1, <2>2
<1> QED
  BY <1>1, <1>2, <1>3, <1>4

LEMMA HandIs == ASSUME NEW deal \in SUBSET Card PROVE IsHand(Hand(deal))
<1> DEFINE number(r) == Cardinality({c \in deal : c[1] = r})
           h == Hand(deal)
<1>1. IsFiniteSet(deal)
  BY RanksFinite, FS_Product, FS_Subset DEF Card
<1>2. \A r \in Rank : number(r) \in Nat
  BY <1>1, FS_Subset, FS_CardinalityType
<1>3. /\ h.suit_rank_b = [s \in Suit |-> [r \in Rank |-> <<r, s>> \in deal]]
      /\ h.suit_rank = [s \in Suit |-> Decreasing({r \in Rank : <<r, s>> \in deal})]
      /\ h.rank_number = [r \in Rank |-> number(r)]
      /\ h.number_rank = [n \in 0 .. 3 |-> Decreasing({r \in Rank : number(r) > n})]
  BY DEF Hand
<1> HIDE DEF h, number
<1>4. h.rank_number \in [Rank -> Nat]
  BY <1>2, <1>3
<1>5. h.suit_rank_b \in [Suit -> [Rank -> BOOLEAN]]
  BY <1>3
<1>6. ASSUME NEW s \in Suit PROVE Lists(h.suit_rank[s], SuitRanks(h, s))
  <2>1. SuitRanks(h, s) = {r \in Rank : <<r, s>> \in deal}
    <3>1. h.suit_rank_b[s] = [r \in Rank |-> <<r, s>> \in deal]
      BY <1>3, Zenon
    <3>2. \A r \in Rank : h.suit_rank_b[s][r] = (<<r, s>> \in deal)
      BY <3>1, Zenon
    <3> QED
      BY <3>2, Zenon DEF SuitRanks
  <2>2. h.suit_rank[s] = Decreasing(SuitRanks(h, s))
    BY <1>3, <2>1
  <2>3. SuitRanks(h, s) \in SUBSET Rank
    BY DEF SuitRanks
  <2> QED
    BY <2>2, <2>3, RanksFinite, DecreasingLists
<1>7. ASSUME NEW n \in 0 .. 3 PROVE Lists(h.number_rank[n], Numbered(h, n))
  <2>1. Numbered(h, n) = {r \in Rank : number(r) > n}
    BY <1>3 DEF Numbered
  <2>2. h.number_rank[n] = Decreasing(Numbered(h, n))
    BY <1>3, <2>1
  <2>3. Numbered(h, n) \in SUBSET Rank
    BY DEF Numbered
  <2> QED
    BY <2>2, <2>3, RanksFinite, DecreasingLists
<1> QED
  BY <1>4, <1>5, <1>6, <1>7 DEF IsHand, h

\* Somebody's card is a high card.
LEMMA SomeCard ==
    ASSUME NEW deal \in SUBSET Card, deal # {}
    PROVE  \E r \in Rank : check_number(Hand(deal), 1, r)
<1>1. PICK c \in deal : c[1] \in Rank
  BY DEF Card
<1> DEFINE S == {d \in deal : d[1] = c[1]}
<1>2. IsFiniteSet(deal)
  BY RanksFinite, FS_Product, FS_Subset DEF Card
<1>3. IsFiniteSet(S) /\ S # {}
  BY <1>2, FS_Subset
<1>4. Cardinality(S) \in Nat \ {0}
  BY <1>3, FS_CardinalityType, FS_EmptySet
<1>5. Hand(deal).rank_number[c[1]] = Cardinality(S)
  BY <1>1 DEF Hand
<1> HIDE DEF S
<1> QED
  BY <1>1, <1>4, <1>5 DEF check_number

-----------------------------------------------------------------------------
(* Decreasing sequences of ranks: neighbours and straights.                *)

LEMMA ListEntries ==
    ASSUME NEW S \in SUBSET Rank, NEW v, Lists(v, S)
    PROVE  /\ Len(v) \in Nat /\ DOMAIN v = 1 .. Len(v)
           /\ \A i \in 1 .. Len(v) : v[i] \in S /\ v[i] \in Int /\ 0 <= v[i] /\ v[i] <= ACE
           /\ \A i, j \in 1 .. Len(v) : v[j] < v[i] <=> i < j
           /\ \A i, j \in 1 .. Len(v) : v[j] <= v[i] <=> i <= j
           /\ v # <<>> <=> S # {}
           /\ S # {} => 1 \in 1 .. Len(v) /\ Head(v) = v[1] /\ \A x \in S : x <= v[1]
<1>1. /\ Len(v) \in Nat /\ DOMAIN v = 1 .. Len(v)
      /\ \A i \in 1 .. Len(v) : v[i] \in S /\ v[i] \in Int /\ 0 <= v[i] /\ v[i] <= ACE
  BY RanksFinite, LenProperties, ElementOfSeq DEF Lists
<1>2. \A i, j \in 1 .. Len(v) : i < j => v[j] < v[i]
  BY DEF Lists
<1>3. \A i, j \in 1 .. Len(v) : v[j] < v[i] <=> i < j
  <2> TAKE i, j \in 1 .. Len(v)
  <2>1. i = j => ~(v[j] < v[i])
    BY <1>1
  <2>2. j < i => v[i] < v[j]
    BY <1>2
  <2> QED
    BY <1>1, <1>2, <2>1, <2>2
<1>4. \A i, j \in 1 .. Len(v) : v[j] <= v[i] <=> i <= j
  <2> TAKE i, j \in 1 .. Len(v)
  <2>1. v[i] < v[j] <=> j < i
    BY <1>3
  <2> QED
    BY <1>1, <2>1
<1>5. v # <<>> <=> S # {}
  <2>1. v # <<>> => Len(v) \in Nat \ {0}
    BY EmptySeq DEF Lists
  <2>2. v = <<>> => Len(v) = 0
    BY EmptySeq
  <2>3. Len(v) \in Nat \ {0} => v[1] \in S
    BY <1>1
  <2>4. Len(v) = 0 => S = {}
    BY DEF Lists
  <2> QED
    BY <2>1, <2>2, <2>3, <2>4
<1>6. ASSUME S # {} PROVE 1 \in 1 .. Len(v) /\ Head(v) = v[1] /\ \A x \in S : x <= v[1]
  <2>1. Len(v) \in Nat \ {0}
    BY <1>5, <1>6, EmptySeq DEF Lists
  <2>2. 1 \in 1 .. Len(v)
    BY <2>1
  <2>3. Head(v) = v[1]
    BY <1>5, <1>6, HeadTailProperties DEF Lists
  <2>4. ASSUME NEW x \in S PROVE x <= v[1]
    <3>1. PICK i \in 1 .. Len(v) : v[i] = x
      BY DEF Lists
    <3>2. 1 <= i
      OBVIOUS
    <3> QED
      BY <1>4, <2>2, <3>1, <3>2
  <2> QED
    BY <2>2, <2>3, <2>4
<1> QED
  BY <1>1, <1>3, <1>4, <1>5, <1>6

\* The next lower rank, if it is there, comes next.
LEMMA NextEntry ==
    ASSUME NEW S \in SUBSET Rank, NEW v, Lists(v, S), NEW i \in 1 .. Len(v), v[i] - 1 \in S
    PROVE  i + 1 \in 1 .. Len(v) /\ v[i + 1] = v[i] - 1
<1>1. /\ Len(v) \in Nat
      /\ \A j \in 1 .. Len(v) : v[j] \in Int
      /\ \A j, k \in 1 .. Len(v) : v[k] < v[j] <=> j < k
  BY ListEntries
<1>2. PICK k \in 1 .. Len(v) : v[k] = v[i] - 1
  BY DEF Lists
<1>3. i < k
  BY <1>1, <1>2
<1>4. i + 1 \in 1 .. Len(v)
  BY <1>1, <1>3
<1>5. v[i + 1] < v[i] /\ ~(v[i + 1] < v[k])
  BY <1>1, <1>3, <1>4
<1> QED
  BY <1>1, <1>2, <1>4, <1>5

LEMMA FiveInARow ==
    ASSUME NEW a \in Int, NEW b \in Int, NEW c \in Int, NEW d \in Int, NEW e \in Int,
           e < d, d < c, c < b, b < a, a - 4 = e
    PROVE  /\ b = a - 1 /\ c = a - 2 /\ d = a - 3
           /\ \A q \in a - 4 .. a : q = a \/ q = b \/ q = c \/ q = d \/ q = e
OBVIOUS

\* The heads of five consecutive entries are the highest ranks of the straights.
LEMMA HeadsAre ==
    ASSUME NEW S \in SUBSET Rank, NEW v, Lists(v, S)
    PROVE  StraightHeads(v) = {r \in S : \A q \in r - 4 .. r : q \in S}
<1>1. /\ Len(v) \in Nat
      /\ \A j \in 1 .. Len(v) : v[j] \in S /\ v[j] \in Int
      /\ \A j, k \in 1 .. Len(v) : v[k] < v[j] <=> j < k
  BY ListEntries
<1>2. ASSUME NEW y \in 5 .. Len(v), v[y - 4] - 4 = v[y]
      PROVE  v[y - 4] \in S /\ \A q \in v[y - 4] - 4 .. v[y - 4] : q \in S
  <2>1. /\ y - 4 \in 1 .. Len(v) /\ y - 3 \in 1 .. Len(v) /\ y - 2 \in 1 .. Len(v)
        /\ y - 1 \in 1 .. Len(v) /\ y \in 1 .. Len(v)
    BY <1>1
  <2>5. y - 4 < y - 3 /\ y - 3 < y - 2 /\ y - 2 < y - 1 /\ y - 1 < y
    BY <1>1
  <2>6. \A j, k \in 1 .. Len(v) : j < k => v[k] < v[j]
    BY <1>1
  <2>2. v[y] < v[y - 1] /\ v[y - 1] < v[y - 2] /\ v[y - 2] < v[y - 3] /\ v[y - 3] < v[y - 4]
    <3>1. v[y] < v[y - 1]
      BY <2>1, <2>5, <2>6
    <3>2. v[y - 1] < v[y - 2]
      BY <2>1, <2>5, <2>6
    <3>3. v[y - 2] < v[y - 3]
      BY <2>1, <2>5, <2>6
    <3>4. v[y - 3] < v[y - 4]
      BY <2>1, <2>5, <2>6
    <3> QED
      BY <3>1, <3>2, <3>3, <3>4
  <2>3. /\ v[y] \in S /\ v[y - 1] \in S /\ v[y - 2] \in S /\ v[y - 3] \in S /\ v[y - 4] \in S
        /\ v[y] \in Int /\ v[y - 1] \in Int /\ v[y - 2] \in Int /\ v[y - 3] \in Int
        /\ v[y - 4] \in Int
    BY <1>1, <2>1
  <2>4. \A q \in v[y - 4] - 4 .. v[y - 4] :
           q = v[y - 4] \/ q = v[y - 3] \/ q = v[y - 2] \/ q = v[y - 1] \/ q = v[y]
    BY <1>2, <2>2, <2>3, FiveInARow
  <2> QED
    BY <2>3, <2>4
<1>3. ASSUME NEW r \in S, \A q \in r - 4 .. r : q \in S
      PROVE  \E y \in 5 .. Len(v) : v[y - 4] - 4 = v[y] /\ r = v[y - 4]
  <2>1. PICK i \in 1 .. Len(v) : v[i] = r
    BY DEF Lists
  <2>2. r \in Int
    BY <1>1, <2>1
  <2>3. r - 1 \in S /\ r - 2 \in S /\ r - 3 \in S /\ r - 4 \in S
    BY <1>3, <2>2
  <2>4. i + 1 \in 1 .. Len(v) /\ v[i + 1] = r - 1
    BY <2>1, <2>3, NextEntry
  <2>5. i + 2 \in 1 .. Len(v) /\ v[i + 2] = r - 2
    <3>1. v[i + 1] - 1 = r - 2 /\ (i + 1) + 1 = i + 2
      BY <2>2, <2>4
    <3> QED
      BY <2>3, <2>4, <3>1, NextEntry
  <2>6. i + 3 \in 1 .. Len(v) /\ v[i + 3] = r - 3
    <3>1. v[i + 2] - 1 = r - 3 /\ (i + 2) + 1 = i + 3
      BY <2>2, <2>5
    <3> QED
      BY <2>3, <2>5, <3>1, NextEntry
  <2>7. i + 4 \in 1 .. Len(v) /\ v[i + 4] = r - 4
    <3>1. v[i + 3] - 1 = r - 4 /\ (i + 3) + 1 = i + 4
      BY <2>2, <2>6
    <3> QED
      BY <2>3, <2>6, <3>1, NextEntry
  <2>8. i + 4 \in 5 .. Len(v) /\ (i + 4) - 4 = i
    BY <2>7
  <2> QED
    BY <2>1, <2>7, <2>8
<1>4. StraightHeads(v) \subseteq {r \in S : \A q \in r - 4 .. r : q \in S}
  BY <1>2 DEF StraightHeads
<1>5. {r \in S : \A q \in r - 4 .. r : q \in S} \subseteq StraightHeads(v)
  BY <1>3 DEF StraightHeads
<1> QED
  BY <1>4, <1>5

-----------------------------------------------------------------------------
(* Straights in a set of ranks.                                            *)

Straight(S, r) == IF r = FIVE THEN 0 .. 3 \subseteq S /\ ACE \in S ELSE r - 4 .. r \subseteq S

\* A decreasing sequence ends with 5-4-3-2 exactly if its fourth entry from below is FIVE.
LEMMA FourLowest ==
    ASSUME NEW S \in SUBSET Rank, NEW v, Lists(v, S)
    PROVE  0 .. 3 \subseteq S <=> Len(v) >= 4 /\ v[Len(v) - 3] = FIVE
<1> DEFINE n == Len(v)
<1>1. /\ n \in Nat
      /\ \A j \in 1 .. n : v[j] \in S /\ v[j] \in Int /\ 0 <= v[j]
      /\ \A j, k \in 1 .. n : v[k] < v[j] <=> j < k
  BY ListEntries
<1>2. ASSUME n >= 4, v[n - 3] = FIVE PROVE 0 .. 3 \subseteq S
  <2>1. n - 3 \in 1 .. n /\ n - 2 \in 1 .. n /\ n - 1 \in 1 .. n /\ n \in 1 .. n
    BY <1>1, <1>2
  <2>2. v[n] < v[n - 1] /\ v[n - 1] < v[n - 2] /\ v[n - 2] < v[n - 3]
    <3>1. n - 1 < n /\ n - 2 < n - 1 /\ n - 3 < n - 2
      BY <1>1
    <3> HIDE DEF n
    <3> QED
      BY <1>1, <2>1, <3>1
  <2>3. /\ v[n] \in Int /\ v[n - 1] \in Int /\ v[n - 2] \in Int /\ 0 <= v[n]
        /\ v[n] \in S /\ v[n - 1] \in S /\ v[n - 2] \in S /\ v[n - 3] \in S
    BY <1>1, <2>1
  <2>4. v[n - 2] = 2 /\ v[n - 1] = 1 /\ v[n] = 0 /\ v[n - 3] = 3
    BY <1>2, <2>2, <2>3 DEF FIVE
  <2> QED
    BY <2>3, <2>4
<1>3. ASSUME 0 .. 3 \subseteq S PROVE n >= 4 /\ v[n - 3] = FIVE
  <2>1. 0 \in S /\ 1 \in S /\ 2 \in S /\ 3 \in S
    BY <1>3
  <2>0. \A k \in 1 .. n : v[k] - 1 \in S => k + 1 \in 1 .. n /\ v[k + 1] = v[k] - 1
    BY NextEntry
  <2>2. PICK i \in 1 .. n : v[i] = 3
    BY <2>1 DEF Lists
  <2>3. i + 1 \in 1 .. n /\ v[i + 1] = 2
    BY <2>1, <2>2, NextEntry
  <2>4. i + 2 \in 1 .. n /\ v[i + 2] = 1
    <3>1. v[i + 1] - 1 = 1 /\ v[i + 1] - 1 \in S /\ (i + 1) + 1 = i + 2
      BY <2>1, <2>3
    <3>2. (i + 1) + 1 \in 1 .. n /\ v[(i + 1) + 1] = v[i + 1] - 1
      BY <2>0, <2>3, <3>1
    <3> QED
      BY <3>1, <3>2
  <2>5. i + 3 \in 1 .. n /\ v[i + 3] = 0
    <3>1. v[i + 2] - 1 = 0 /\ v[i + 2] - 1 \in S /\ (i + 2) + 1 = i + 3
      BY <2>1, <2>4
    <3>2. (i + 2) + 1 \in 1 .. n /\ v[(i + 2) + 1] = v[i + 2] - 1
      BY <2>0, <2>4, <3>1
    <3> QED
      BY <3>1, <3>2
  <2>6. n \in 1 .. n /\ ~(v[n] < v[i + 3])
    BY <1>1, <2>5
  <2>7. n = i + 3
    BY <1>1, <2>5, <2>6
  <2> QED
    BY <2>2, <2>7 DEF FIVE
<1> QED
  BY <1>2, <1>3

\* The straight that the code looks for, head of five entries or else 5-4-3-2-A, is the best.
LEMMA BestStraightOf ==
    ASSUME NEW S \in SUBSET Rank, NEW v, Lists(v, S), NEW top,
           top = IF StraightHeads(v) # {} THEN GreatestOf(StraightHeads(v))
                 ELSE IF Straight(S, FIVE) THEN FIVE ELSE -1
    PROVE  /\ top = -1 \/ (top \in FIVE .. ACE /\ Straight(S, top))
           /\ \A r \in FIVE .. ACE : Straight(S, r) => r <= top
<1> DEFINE H == {r \in S : \A q \in r - 4 .. r : q \in S}
<1>1. StraightHeads(v) = H
  BY HeadsAre
<1>2. \A r \in H : r \in 4 .. ACE /\ Straight(S, r)
  <2> SUFFICES ASSUME NEW r \in H PROVE r \in 4 .. ACE /\ Straight(S, r)
    OBVIOUS
  <2>1. r \in Int /\ r <= ACE
    BY RanksFinite
  <2>2. r - 4 \in S
    BY <2>1
  <2>3. r - 4 >= 0
    BY <2>2, RanksFinite
  <2>4. r \in 4 .. ACE
    BY <2>1, <2>3, RanksFinite
  <2> QED
    BY <2>4 DEF Straight, FIVE
<1>3. \A r \in FIVE .. ACE : Straight(S, r) /\ r # FIVE => r \in H
  <2> SUFFICES ASSUME NEW r \in FIVE .. ACE, Straight(S, r), r # FIVE PROVE r \in H
    OBVIOUS
  <2>1. r - 4 .. r \subseteq S /\ r \in Int
    BY RanksFinite DEF Straight, FIVE
  <2> QED
    BY <2>1
<1>4. CASE H # {}
  <2>1. top = GreatestOf(H)
    BY <1>1, <1>4
  <2>2. IsFiniteSet(H) /\ H \in SUBSET Int
    BY RanksFinite
  <2> HIDE DEF H
  <2>3. top \in H /\ \A r \in H : r <= top
    BY <1>4, <2>1, <2>2, Extremes
  <2>4. top \in 4 .. ACE /\ Straight(S, top)
    BY <1>2, <2>3
  <2>5. top \in FIVE .. ACE
    BY <2>4, RanksFinite DEF FIVE
  <2>6. \A r \in FIVE .. ACE : Straight(S, r) => r <= top
    BY <1>3, <2>3, <2>4 DEF FIVE
  <2> QED
    BY <2>4, <2>5, <2>6
<1>5. CASE H = {}
  <2>1. top = IF Straight(S, FIVE) THEN FIVE ELSE -1
    BY <1>1, <1>5
  <2>2. FIVE \in FIVE .. ACE
    BY RanksFinite DEF FIVE
  <2>3. \A r \in FIVE .. ACE : Straight(S, r) => r = FIVE
    BY <1>3, <1>5
  <2>4. FIVE <= FIVE
    BY DEF FIVE
  <2> QED
    BY <2>1, <2>2, <2>3, <2>4
<1> QED
  BY <1>4, <1>5

-----------------------------------------------------------------------------
(* Each search of find_best_combination finds a true combination of its    *)
(* type, if there is one, and the best of them.                            *)

LEMMA StraightChecks ==
    ASSUME NEW h, IsHand(h), NEW r \in FIVE .. ACE
    PROVE  /\ \A s \in Suit : check_straight_flush(h, r, s) <=> Straight(SuitRanks(h, s), r)
           /\ check_straight(h, r) <=> Straight(Numbered(h, 0), r)
<1>1. ACE \in Rank /\ r \in Rank /\ 0 .. 3 \subseteq Rank /\ (r # FIVE => r - 4 .. r \subseteq Rank)
  BY DeckAssumption DEF Rank, ACE, FIVE
<1>2. ASSUME NEW s \in Suit
      PROVE  check_straight_flush(h, r, s) <=> Straight(SuitRanks(h, s), r)
  BY <1>1 DEF check_straight_flush, Straight, SuitRanks
<1>3. \A q \in Rank : q \in Numbered(h, 0) <=> h.rank_number[q] # 0
  <2> TAKE q \in Rank
  <2>1. h.rank_number[q] \in Nat
    BY DEF IsHand
  <2> QED
    BY <2>1 DEF Numbered
<1>4. check_straight(h, r) <=> Straight(Numbered(h, 0), r)
  <2>1. CASE r = FIVE
    <3>1. 0 .. r = 0 .. 3
      BY <2>1 DEF FIVE
    <3> QED
      BY <1>1, <1>3, <2>1, <3>1 DEF check_straight, Straight
  <2>2. CASE r # FIVE
    BY <1>1, <1>3, <2>2 DEF check_straight, Straight
  <2> QED
    BY <2>1, <2>2
<1> QED
  BY <1>2, <1>4

LEMMA StraightFlushFound ==
    ASSUME NEW h, IsHand(h)
    PROVE  LET best == find_best_straight_flush(h) IN
           /\ \/ best = <<-1, -1>>
              \/ \E r \in FIVE .. ACE, s \in Suit :
                    best = <<r, s>> /\ check_straight_flush(h, r, s)
           /\ \A r \in FIVE .. ACE, s \in Suit : check_straight_flush(h, r, s) => r <= best[1]
<1> DEFINE T == {TopStraight(h, s) : s \in Suit}
           top == GreatestOf(T)
           B == {s \in Suit : TopStraight(h, s) = top}
<1>1. ASSUME NEW s \in Suit
      PROVE  /\ \/ TopStraight(h, s) = -1
                \/ TopStraight(h, s) \in FIVE .. ACE /\ check_straight_flush(h, TopStraight(h, s), s)
             /\ \A r \in FIVE .. ACE : check_straight_flush(h, r, s) => r <= TopStraight(h, s)
  <2> DEFINE S == SuitRanks(h, s)
             v == h.suit_rank[s]
  <2>1. Lists(v, S) /\ S \in SUBSET Rank
    BY DEF IsHand, SuitRanks
  <2>2. h.suit_rank_b[s][ACE] <=> ACE \in S
    BY RanksFinite DEF SuitRanks
  <2>3. Straight(S, FIVE) <=> Len(v) >= 4 /\ h.suit_rank_b[s][ACE] /\ v[Len(v) - 3] = FIVE
    BY <2>1, <2>2, FourLowest DEF Straight
  <2>4. TopStraight(h, s) = IF StraightHeads(v) # {} THEN GreatestOf(StraightHeads(v))
                            ELSE IF Straight(S, FIVE) THEN FIVE ELSE -1
    BY <2>3 DEF TopStraight
  <2> HIDE DEF S, v
  <2>5. /\ TopStraight(h, s) = -1
           \/ (TopStraight(h, s) \in FIVE .. ACE /\ Straight(S, TopStraight(h, s)))
        /\ \A r \in FIVE .. ACE : Straight(S, r) => r <= TopStraight(h, s)
    BY <2>1, <2>4, BestStraightOf
  <2>6. \A r \in FIVE .. ACE : check_straight_flush(h, r, s) <=> Straight(S, r)
    BY StraightChecks DEF S
  <2> QED
    BY <2>5, <2>6
<1>2. 0 \in Suit
  BY DeckAssumption DEF Suit
<1>3. T \in SUBSET (-1 .. ACE) /\ T # {} /\ T \in SUBSET Int
  <2>1. -1 \in -1 .. ACE /\ FIVE .. ACE \subseteq -1 .. ACE /\ -1 .. ACE \subseteq Int
    BY RanksFinite DEF FIVE
  <2>2. \A s \in Suit : TopStraight(h, s) \in -1 .. ACE
    BY <1>1, <2>1
  <2> QED
    BY <1>2, <2>1, <2>2
<1>4. IsFiniteSet(T)
  <2>1. IsFiniteSet(-1 .. ACE)
    BY RanksFinite, FS_Interval
  <2> QED
    BY <1>3, <2>1, FS_Subset
<1>5. top \in T /\ \A t \in T : t <= top
  <2> HIDE DEF T
  <2> QED
    BY <1>3, <1>4, Extremes
<1>6. B # {} /\ B \in SUBSET Int /\ IsFiniteSet(B)
  <2>1. B # {} /\ B \in SUBSET Suit
    BY <1>5
  <2> HIDE DEF B
  <2>2. IsFiniteSet(B)
    BY <2>1, RanksFinite, FS_Subset
  <2>3. B \in SUBSET Int
    BY <2>1, RanksFinite
  <2> QED
    BY <2>1, <2>2, <2>3
<1>7. LeastOf(B) \in B
  <2> HIDE DEF B
  <2> QED
    BY <1>6, Extremes
<1>8. \A s \in Suit : TopStraight(h, s) <= top
  BY <1>5
<1>9. find_best_straight_flush(h) = IF top = -1 THEN <<-1, -1>> ELSE <<top, LeastOf(B)>>
  BY DEF find_best_straight_flush
<1>10. LeastOf(B) \in Suit /\ TopStraight(h, LeastOf(B)) = top
  BY <1>7
<1>11. top \in Int /\ (top # -1 => top \in FIVE .. ACE /\ check_straight_flush(h, top, LeastOf(B)))
  BY <1>1, <1>3, <1>5, <1>10
<1>12. \A r \in FIVE .. ACE, s \in Suit : check_straight_flush(h, r, s) => r <= top
  <2> SUFFICES ASSUME NEW r \in FIVE .. ACE, NEW s \in Suit, check_straight_flush(h, r, s)
               PROVE  r <= top
    OBVIOUS
  <2>1. r <= TopStraight(h, s) /\ TopStraight(h, s) <= top
    BY <1>1, <1>8
  <2>2. TopStraight(h, s) \in Int /\ r \in Int
    BY <1>3, RanksFinite DEF FIVE
  <2> QED
    BY <1>11, <2>1, <2>2
<1> HIDE DEF top, B
<1>13. find_best_straight_flush(h)[1] = top
  BY <1>9
<1> QED
  BY <1>9, <1>10, <1>11, <1>12, <1>13

LEMMA StraightFound ==
    ASSUME NEW h, IsHand(h)
    PROVE  LET best == find_best_straight(h) IN
           /\ best = -1 \/ (best \in FIVE .. ACE /\ check_straight(h, best))
           /\ \A r \in FIVE .. ACE : check_straight(h, r) => r <= best
<1> DEFINE S == Numbered(h, 0)
           v == h.number_rank[0]
<1>1. Lists(v, S) /\ S \in SUBSET Rank
  BY DEF IsHand, Numbered
<1>2. \A r \in FIVE .. ACE : check_straight(h, r) <=> Straight(S, r)
  BY StraightChecks
<1>3. FIVE \in FIVE .. ACE
  BY RanksFinite DEF FIVE
<1>4. find_best_straight(h) = IF StraightHeads(v) # {} THEN GreatestOf(StraightHeads(v))
                              ELSE IF Straight(S, FIVE) THEN FIVE ELSE -1
  BY <1>2, <1>3 DEF find_best_straight
<1> HIDE DEF S, v
<1>5. /\ find_best_straight(h) = -1
         \/ (find_best_straight(h) \in FIVE .. ACE /\ Straight(S, find_best_straight(h)))
      /\ \A r \in FIVE .. ACE : Straight(S, r) => r <= find_best_straight(h)
  BY <1>1, <1>4, BestStraightOf
<1> QED
  BY <1>2, <1>5

LEMMA NumberFound ==
    ASSUME NEW h, IsHand(h), NEW n \in 1 .. 4
    PROVE  LET best == find_best_of_number(h, n) IN
           /\ best = -1 \/ (best \in Rank /\ check_number(h, n, best))
           /\ \A r \in Rank : check_number(h, n, r) => r <= best
<1> DEFINE S == Numbered(h, n - 1)
           v == h.number_rank[n - 1]
<1>1. Lists(v, S) /\ S \in SUBSET Rank
  <2>1. n - 1 \in 0 .. 3
    OBVIOUS
  <2> QED
    BY <2>1 DEF IsHand, Numbered
<1>2. \A r \in Rank : check_number(h, n, r) <=> r \in S
  <2> TAKE r \in Rank
  <2>1. h.rank_number[r] \in Nat
    BY DEF IsHand
  <2> QED
    BY <2>1 DEF check_number, Numbered
<1>3. find_best_of_number(h, n) = IF v # <<>> THEN Head(v) ELSE -1
  BY DEF find_best_of_number
<1> HIDE DEF S, v
<1>4. /\ v # <<>> <=> S # {}
      /\ S # {} => Head(v) \in S /\ \A x \in S : x <= Head(v)
  <2>1. v # <<>> <=> S # {}
    BY <1>1, ListEntries
  <2>2. S # {} => 1 \in 1 .. Len(v) /\ Head(v) = v[1] /\ \A x \in S : x <= v[1]
    BY <1>1, ListEntries
  <2>3. \A i \in 1 .. Len(v) : v[i] \in S
    BY <1>1, ListEntries
  <2> QED
    BY <2>1, <2>2, <2>3
<1> QED
  BY <1>1, <1>2, <1>3, <1>4

LEMMA TwoPairsFound ==
    ASSUME NEW h, IsHand(h)
    PROVE  LET best == find_best_two_pairs(h) IN
           /\ \/ best = <<-1, -1>>
              \/ \E a, b \in Rank : best = <<a, b>> /\ b < a /\ check_two_pairs(h, a, b)
           /\ \A a, b \in Rank : a # b /\ check_two_pairs(h, a, b) =>
                 best[1] \in Rank /\ a <= best[1] /\ b <= best[1]
<1> DEFINE S == Numbered(h, 1)
           v == h.number_rank[1]
           n == Len(v)
<1>1. Lists(v, S) /\ S \in SUBSET Rank
  BY DEF IsHand, Numbered
<1>2. \A a, b \in Rank : check_two_pairs(h, a, b) <=> a \in S /\ b \in S
  <2> TAKE a, b \in Rank
  <2>1. h.rank_number[a] \in Nat /\ h.rank_number[b] \in Nat
    BY DEF IsHand
  <2> QED
    BY <2>1 DEF check_two_pairs, Numbered
<1>3. find_best_two_pairs(h) = IF n >= 2 THEN <<v[1], v[2]>> ELSE <<-1, -1>>
  BY DEF find_best_two_pairs
<1> HIDE DEF S, v
<1>4. /\ n \in Nat
      /\ \A i \in 1 .. n : v[i] \in S
      /\ \A i, j \in 1 .. n : v[j] < v[i] <=> i < j
      /\ S # {} => \A x \in S : x <= v[1]
  BY <1>1, ListEntries
<1>5. CASE n >= 2
  <2>1. 1 \in 1 .. n /\ 2 \in 1 .. n
    BY <1>4, <1>5
  <2>2. v[1] \in S /\ v[2] \in S /\ v[2] < v[1]
    BY <1>4, <2>1
  <2>3. find_best_two_pairs(h) = <<v[1], v[2]>> /\ find_best_two_pairs(h)[1] = v[1]
    BY <1>3, <1>5
  <2>4. \A x \in S : x <= v[1]
    BY <1>4
  <2> QED
    BY <1>1, <1>2, <2>2, <2>3, <2>4
<1>6. CASE ~(n >= 2)
  <2>1. ASSUME NEW a \in S, NEW b \in S PROVE a = b
    <3>1. PICK i \in 1 .. n : v[i] = a
      BY <1>1 DEF Lists
    <3>2. PICK j \in 1 .. n : v[j] = b
      BY <1>1 DEF Lists
    <3>3. i = j
      BY <1>4, <1>6
    <3> QED
      BY <3>1, <3>2, <3>3
  <2> QED
    BY <1>2, <1>3, <1>6, <2>1
<1> QED
  BY <1>5, <1>6

LEMMA FullHouseFound ==
    ASSUME NEW h, IsHand(h)
    PROVE  LET best == find_best_full_house(h) IN
           /\ \/ best = <<-1, -1>>
              \/ \E a, b \in Rank : best = <<a, b>> /\ a # b /\ check_full_house(h, a, b)
           /\ \A a, b \in Rank : a # b /\ check_full_house(h, a, b) =>
                 /\ best[1] \in Rank /\ best[2] \in Rank
                 /\ a < best[1] \/ (a = best[1] /\ b <= best[2])
<1> DEFINE three == h.number_rank[2]
           two == h.number_rank[1]
           S3 == Numbered(h, 2)
           S2 == Numbered(h, 1)
           Pairs(i) == {j \in DOMAIN two : two[j] # three[i]}
           found == {i \in DOMAIN three : Pairs(i) # {}}
           first == LeastOf(found)
           second == LeastOf(Pairs(first))
<1>1. Lists(three, S3) /\ S3 \in SUBSET Rank /\ Lists(two, S2) /\ S2 \in SUBSET Rank
  BY DEF IsHand, Numbered
<1>2. \A a, b \in Rank : check_full_house(h, a, b) <=> a \in S3 /\ b \in S2
  <2> TAKE a, b \in Rank
  <2>1. h.rank_number[a] \in Nat /\ h.rank_number[b] \in Nat
    BY DEF IsHand
  <2> QED
    BY <2>1 DEF check_full_house, Numbered
<1>3. find_best_full_house(h) = IF found = {} THEN <<-1, -1>> ELSE <<three[first], two[second]>>
  BY DEF find_best_full_house
<1> HIDE DEF three, two, S3, S2
<1>4. /\ Len(three) \in Nat /\ DOMAIN three = 1 .. Len(three)
      /\ \A i \in 1 .. Len(three) : three[i] \in S3
      /\ \A i, j \in 1 .. Len(three) : three[j] <= three[i] <=> i <= j
  BY <1>1, ListEntries
<1>5. /\ Len(two) \in Nat /\ DOMAIN two = 1 .. Len(two)
      /\ \A i \in 1 .. Len(two) : two[i] \in S2
      /\ \A i, j \in 1 .. Len(two) : two[j] <= two[i] <=> i <= j
  BY <1>1, ListEntries
<1>6. IsFiniteSet(found) /\ found \in SUBSET Int /\ found \in SUBSET (1 .. Len(three))
  <2>1. found \in SUBSET (1 .. Len(three))
    BY <1>4
  <2>2. IsFiniteSet(1 .. Len(three)) /\ 1 .. Len(three) \in SUBSET Int
    BY <1>4, FS_Interval
  <2> HIDE DEF found
  <2> QED
    BY <2>1, <2>2, FS_Subset
<1>7. \A i : IsFiniteSet(Pairs(i)) /\ Pairs(i) \in SUBSET Int /\ Pairs(i) \in SUBSET (1 .. Len(two))
  <2> TAKE i
  <2>1. Pairs(i) \in SUBSET (1 .. Len(two))
    BY <1>5
  <2>2. IsFiniteSet(1 .. Len(two)) /\ 1 .. Len(two) \in SUBSET Int
    BY <1>5, FS_Interval
  <2> HIDE DEF Pairs
  <2> QED
    BY <2>1, <2>2, FS_Subset
<1>8. ASSUME NEW a \in S3, NEW b \in S2, a # b
      PROVE  \E i \in found : \E j \in Pairs(i) : three[i] = a /\ two[j] = b
  <2>1. PICK i \in 1 .. Len(three) : three[i] = a
    BY <1>1 DEF Lists
  <2>2. PICK j \in 1 .. Len(two) : two[j] = b
    BY <1>1 DEF Lists
  <2>3. j \in Pairs(i)
    BY <1>5, <1>8, <2>1, <2>2
  <2>4. i \in found
    BY <1>4, <2>3
  <2> QED
    BY <2>1, <2>2, <2>3, <2>4
<1>9. CASE found = {}
  BY <1>2, <1>3, <1>8, <1>9
<1>10. CASE found # {}
  <2>1. first \in found /\ \A i \in found : first <= i
    <3> HIDE DEF found
    <3> QED
      BY <1>6, <1>10, Extremes
  <2>2. Pairs(first) # {}
    BY <2>1
  <2>3. second \in Pairs(first) /\ \A j \in Pairs(first) : second <= j
    <3> HIDE DEF Pairs
    <3> QED
      BY <1>7, <2>2, Extremes
  <2>4. two[second] # three[first] /\ first \in 1 .. Len(three) /\ second \in 1 .. Len(two)
    BY <1>6, <1>7, <2>1, <2>3
  <2>5. three[first] \in S3 /\ two[second] \in S2
    BY <1>4, <1>5, <2>4
  <2>6. ASSUME NEW a \in S3, NEW b \in S2, a # b
        PROVE  a < three[first] \/ (a = three[first] /\ b <= two[second])
    <3>0. PICK i \in found : \E j \in Pairs(i) : three[i] = a /\ two[j] = b
      BY <1>8, <2>6
    <3>1. PICK j \in Pairs(i) : three[i] = a /\ two[j] = b
      BY <3>0
    <3>2. i \in 1 .. Len(three) /\ j \in 1 .. Len(two)
      BY <1>6, <1>7, <3>1
    <3>3. a <= three[first]
      BY <1>4, <2>1, <2>4, <3>1, <3>2
    <3>4. ASSUME a = three[first] PROVE b <= two[second]
      <4>1. j \in Pairs(first)
        BY <3>1, <3>4
      <4> QED
        BY <1>5, <2>3, <2>4, <3>1, <3>2, <4>1
    <3>5. a \in Int /\ three[first] \in Int
      BY <1>1, <2>5, RanksFinite
    <3> QED
      BY <3>3, <3>4, <3>5
  <2>7. find_best_full_house(h) = <<three[first], two[second]>>
    BY <1>3, <1>10
  <2> HIDE DEF first, second
  <2>8. find_best_full_house(h)[1] = three[first] /\ find_best_full_house(h)[2] = two[second]
    BY <2>7
  <2> QED
    BY <1>1, <1>2, <2>4, <2>5, <2>6, <2>7, <2>8
<1> QED
  BY <1>9, <1>10

LEMMA FlushFound ==
    ASSUME NEW h, IsHand(h)
    PROVE  LET best == find_best_flush(h) IN
           /\ \/ best = <<-1, -1>>
              \/ \E r \in 4 .. ACE, s \in Suit : best = <<r, s>> /\ check_flush(h, r, s)
           /\ \A r \in Rank, s \in Suit : check_flush(h, r, s) =>
                 best[1] \in Rank /\ best[1] <= r
           /\ best[1] = 4 => \E s \in Suit : check_straight_flush(h, 4, s)
<1> DEFINE F == FlushSuits(h)
           T == {FlushRank(h, s) : s \in F}
           least == LeastOf(T)
           B == {s \in F : FlushRank(h, s) = least}
<1>1. F \in SUBSET Suit
  BY DEF FlushSuits
<1>2. ASSUME NEW s \in F
      PROVE  /\ FlushRank(h, s) \in SuitRanks(h, s)
             /\ FlushRank(h, s) \in 4 .. ACE
             /\ FlushRank(h, s) = 4 => check_straight_flush(h, 4, s)
  <2> DEFINE S == SuitRanks(h, s)
             v == h.suit_rank[s]
             n == Len(v)
  <2>1. Lists(v, S) /\ S \in SUBSET Rank /\ s \in Suit
    BY <1>1 DEF IsHand, SuitRanks
  <2>2. n >= 5 /\ FlushRank(h, s) = v[n - 4]
    BY DEF FlushSuits, FlushRank
  <2>3. check_straight_flush(h, 4, s) <=> 0 .. 4 \subseteq S
    <3>1. 4 \in FIVE .. ACE /\ 4 # FIVE /\ 4 - 4 = 0
      BY RanksFinite DEF FIVE
    <3> QED
      BY <2>1, <3>1, StraightChecks DEF Straight
  <2> HIDE DEF S, v
  <2>4. /\ n \in Nat
        /\ \A i \in 1 .. n : v[i] \in S /\ v[i] \in Int /\ 0 <= v[i] /\ v[i] <= ACE
        /\ \A i, j \in 1 .. n : v[j] < v[i] <=> i < j
    BY <2>1, ListEntries
  <2>5. /\ n - 4 \in 1 .. n /\ n - 3 \in 1 .. n /\ n - 2 \in 1 .. n /\ n - 1 \in 1 .. n
        /\ n \in 1 .. n
        /\ n - 4 < n - 3 /\ n - 3 < n - 2 /\ n - 2 < n - 1 /\ n - 1 < n
    BY <2>2, <2>4
  <2> HIDE DEF n
  <2>6. v[n] < v[n - 1] /\ v[n - 1] < v[n - 2] /\ v[n - 2] < v[n - 3] /\ v[n - 3] < v[n - 4]
    BY <2>4, <2>5
  <2>7. /\ v[n] \in Int /\ v[n - 1] \in Int /\ v[n - 2] \in Int /\ v[n - 3] \in Int
        /\ v[n - 4] \in Int /\ 0 <= v[n] /\ v[n - 4] <= ACE
        /\ v[n] \in S /\ v[n - 1] \in S /\ v[n - 2] \in S /\ v[n - 3] \in S /\ v[n - 4] \in S
    BY <2>4, <2>5
  <2>8. v[n - 4] \in 4 .. ACE
    BY <2>6, <2>7, RanksFinite
  <2>9. ASSUME v[n - 4] = 4 PROVE 0 .. 4 \subseteq S
    <3>1. v[n - 3] = 3 /\ v[n - 2] = 2 /\ v[n - 1] = 1 /\ v[n] = 0
      BY <2>6, <2>7, <2>9
    <3> QED
      BY <2>7, <2>9, <3>1
  <2> QED
    BY <2>2, <2>3, <2>7, <2>8, <2>9 DEF S
<1>3. ASSUME NEW s \in Suit, NEW r \in Rank
      PROVE  check_flush(h, r, s) <=> r \in SuitRanks(h, s) /\ s \in F /\ FlushRank(h, s) <= r
  BY DEF check_flush, SuitRanks
<1>4. find_best_flush(h) = IF F = {} THEN <<-1, -1>> ELSE <<least, LeastOf(B)>>
  BY DEF find_best_flush
<1>5. CASE F = {}
  BY <1>3, <1>4, <1>5
<1>6. CASE F # {}
  <2>1. T # {} /\ T \in SUBSET Rank
    <3>1. 4 .. ACE \subseteq Rank
      BY DeckAssumption DEF Rank, ACE
    <3> QED
      BY <1>2, <1>6, <3>1
  <2>2. IsFiniteSet(T) /\ T \in SUBSET Int
    <3> HIDE DEF T
    <3> QED
      BY <2>1, RanksFinite
  <2>3. least \in T /\ \A t \in T : least <= t
    <3> HIDE DEF T
    <3> QED
      BY <2>1, <2>2, Extremes
  <2>4. B # {} /\ B \in SUBSET Suit
    BY <1>1, <2>3
  <2>5. LeastOf(B) \in B
    <3> HIDE DEF B
    <3>1. IsFiniteSet(B)
      BY <2>4, RanksFinite, FS_Subset
    <3>2. B \in SUBSET Int
      BY <2>4, RanksFinite
    <3> QED
      BY <2>4, <3>1, <3>2, Extremes
  <2>6. LeastOf(B) \in F /\ FlushRank(h, LeastOf(B)) = least
    BY <2>5
  <2> HIDE DEF B
  <2>7. /\ least \in Rank /\ least \in 4 .. ACE /\ LeastOf(B) \in Suit
        /\ least = 4 => check_straight_flush(h, 4, LeastOf(B))
        /\ least \in SuitRanks(h, LeastOf(B))
    BY <1>1, <1>2, <2>1, <2>3, <2>6
  <2>8. check_flush(h, least, LeastOf(B))
    <3>1. least <= least
      BY <2>7
    <3> QED
      BY <1>3, <2>6, <2>7, <3>1
  <2>9. ASSUME NEW r \in Rank, NEW s \in Suit, check_flush(h, r, s) PROVE least <= r
    <3>1. s \in F /\ FlushRank(h, s) <= r
      BY <1>3, <2>9
    <3>2. FlushRank(h, s) \in T
      BY <3>1
    <3>3. least <= FlushRank(h, s) /\ FlushRank(h, s) \in Int /\ r \in Int /\ least \in Int
      BY <2>1, <2>3, <2>7, <3>2, RanksFinite
    <3> QED
      BY <3>1, <3>3
  <2> HIDE DEF least
  <2>10. find_best_flush(h) = <<least, LeastOf(B)>> /\ find_best_flush(h)[1] = least
    BY <1>4, <1>6
  <2> QED
    BY <2>7, <2>8, <2>9, <2>10
<1> QED
  BY <1>5, <1>6

-----------------------------------------------------------------------------
(* The vectors of combinations, and their order.                           *)

OneRank == {HIGH_CARD, PAIR, SET, STRAIGHT, SQUARE}
TwoRanks == {TWO_PAIRS, FULL_HOUSE}

\* The vectors of the code.
Shaped(c) ==
    \/ c = <<NOTHING>>
    \/ \E t \in OneRank, r \in Rank : c = <<t, r>>
    \/ \E t \in TwoRanks, a, b \in Rank : c = <<t, a, b>>
    \/ \E t \in HAS_SUIT, r \in Rank, s \in Suit : c = <<t, r, s>>

\* What less_combination compares: the suit plays no part, and of two flushes the
\* one of lower rank is better.
Weaker(u, v) ==
    \/ u[1] < v[1]
    \/ /\ u[1] = v[1]
       /\ \/ u[1] \in OneRank \cup {STRAIGHT_FLUSH} /\ u[2] < v[2]
          \/ u[1] = FLUSH /\ v[2] < u[2]
          \/ u[1] \in TwoRanks /\ (u[2] < v[2] \/ (u[2] = v[2] /\ u[3] < v[3]))

LEMMA RemoveSuitOf ==
    /\ \A t \in OneRank, r \in Rank : remove_suit(<<t, r>>) = <<t, r>>
    /\ \A t \in TwoRanks, a, b \in Rank : remove_suit(<<t, a, b>>) = <<t, a, b>>
    /\ \A t \in HAS_SUIT, r \in Rank, s \in Suit : remove_suit(<<t, r, s>>) = <<t, r>>
    /\ remove_suit(<<NOTHING>>) = <<NOTHING>>
<1>1. \A t \in OneRank, r \in Rank : remove_suit(<<t, r>>) = <<t, r>>
  BY DEF remove_suit, OneRank, HAS_SUIT, HIGH_CARD, PAIR, SET, STRAIGHT, SQUARE, FLUSH, STRAIGHT_FLUSH
<1>2. \A t \in TwoRanks, a, b \in Rank : remove_suit(<<t, a, b>>) = <<t, a, b>>
  BY DEF remove_suit, TwoRanks, HAS_SUIT, TWO_PAIRS, FULL_HOUSE, FLUSH, STRAIGHT_FLUSH
<1>3. \A t \in HAS_SUIT, r \in Rank, s \in Suit : remove_suit(<<t, r, s>>) = <<t, r>>
  <2> TAKE t \in HAS_SUIT, r \in Rank, s \in Suit
  <2>1. t \in Int /\ r \in Int /\ s \in Int
    BY RanksFinite DEF HAS_SUIT, FLUSH, STRAIGHT_FLUSH
  <2> DEFINE c == <<t, r, s>>
             k == SubSeq(c, 1, 2)
  <2>2. c \in Seq(Int) /\ Len(c) = 3
    BY <2>1
  <2>3. k \in Seq(Int) /\ Len(k) = 2 /\ k[1] = c[1] /\ k[2] = c[2]
    <3>0. \A i \in 1 .. 2 : c[i] \in Int
      BY <2>2
    <3> HIDE DEF c
    <3>1. k \in Seq(Int) /\ Len(k) = 2 /\ \A i \in 1 .. 2 : k[i] = c[1 + i - 1]
      <4>1. /\ SubSeq(c, 1, 2) \in Seq(Int)
            /\ Len(SubSeq(c, 1, 2)) = IF 1 <= 2 THEN 2 - 1 + 1 ELSE 0
            /\ \A i \in 1 .. 2 - 1 + 1 : SubSeq(c, 1, 2)[i] = c[1 + i - 1]
        BY <3>0, SubSeqProperties
      <4>2. 2 - 1 + 1 = 2
        OBVIOUS
      <4> QED
        BY <4>1, <4>2
    <3>2. 1 + 1 - 1 = 1 /\ 1 + 2 - 1 = 2 /\ 1 \in 1 .. 2 /\ 2 \in 1 .. 2
      OBVIOUS
    <3> QED
      BY <3>1, <3>2
  <2>4. k = <<t, r>>
    <3>1. <<t, r>> \in Seq(Int) /\ Len(<<t, r>>) = 2
      BY <2>1
    <3>2. k[1] = t /\ k[2] = r
      BY <2>3
    <3> HIDE DEF k
    <3>3. \A i \in 1 .. 2 : k[i] = <<t, r>>[i]
      BY <3>2
    <3> QED
      BY <2>3, <3>1, <3>3, SeqEqual
  <2>5. Len(c) - 1 = 2 /\ c[1] = t
    BY <2>2
  <2> QED
    BY <2>4, <2>5 DEF remove_suit
<1>4. remove_suit(<<NOTHING>>) = <<NOTHING>>
  BY DEF remove_suit, NOTHING, HAS_SUIT, FLUSH, STRAIGHT_FLUSH
<1> QED
  BY <1>1, <1>2, <1>3, <1>4

\* The order of vectors of up to three numbers.
LEMMA LexIs ==
    /\ \A u, v : /\ Len(u) \in Nat \ {0} /\ Len(v) \in Nat \ {0}
                 /\ u[1] \in Int /\ v[1] \in Int /\ u[1] # v[1]
                 => (LexLess(u, v) <=> u[1] < v[1])
    /\ \A t, a, b \in Int : LexLess(<<t, a>>, <<t, b>>) <=> a < b
    /\ \A t, a, b, c, d \in Int : LexLess(<<t, a, b>>, <<t, c, d>>) <=> a < c \/ (a = c /\ b < d)
    /\ \A t \in Int : ~LexLess(<<t>>, <<t>>)
<1>1. ASSUME NEW u, NEW v, Len(u) \in Nat \ {0}, Len(v) \in Nat \ {0},
             u[1] \in Int, v[1] \in Int, u[1] # v[1]
      PROVE  LexLess(u, v) <=> u[1] < v[1]
  <2>1. 1 \in 1 .. Len(v) /\ (\A j \in 1 .. 1 - 1 : FALSE) /\ ~(1 > Len(u))
    BY <1>1
  <2>2. ASSUME u[1] < v[1] PROVE LexLess(u, v)
    BY <2>1, <2>2 DEF LexLess
  <2>3. ASSUME LexLess(u, v) PROVE u[1] < v[1]
    <3>1. PICK i \in 1 .. Len(v) : /\ \A j \in 1 .. i - 1 : j <= Len(u) /\ u[j] = v[j]
                                   /\ i > Len(u) \/ u[i] < v[i]
      BY <2>3 DEF LexLess
    <3>2. i = 1
      <4>1. CASE i > 1
        <5>1. 1 \in 1 .. i - 1
          BY <4>1
        <5>2. u[1] = v[1]
          BY <3>1, <5>1
        <5> QED
          BY <1>1, <5>2
      <4> QED
        BY <1>1, <4>1
    <3> QED
      BY <2>1, <3>1, <3>2
  <2> QED
    BY <2>2, <2>3
<1>2. ASSUME NEW t \in Int, NEW a \in Int, NEW b \in Int
      PROVE  LexLess(<<t, a>>, <<t, b>>) <=> a < b
  BY DEF LexLess
<1>3. ASSUME NEW t \in Int, NEW a \in Int, NEW b \in Int, NEW c \in Int, NEW d \in Int
      PROVE  LexLess(<<t, a, b>>, <<t, c, d>>) <=> a < c \/ (a = c /\ b < d)
  BY DEF LexLess
<1>4. ASSUME NEW t \in Int PROVE ~LexLess(<<t>>, <<t>>)
  BY DEF LexLess
<1> QED
  BY <1>1, <1>2, <1>3, <1>4

LEMMA KeyOf ==
    /\ \A t \in OneRank, r \in Rank : OrderKey(<<t, r>>) = <<t, r>>
    /\ \A t \in TwoRanks, a, b \in Rank : OrderKey(<<t, a, b>>) = <<t, a, b>>
    /\ \A r \in Rank, s \in Suit : OrderKey(<<FLUSH, r, s>>) = <<FLUSH, -r>>
    /\ \A r \in Rank, s \in Suit : OrderKey(<<STRAIGHT_FLUSH, r, s>>) = <<STRAIGHT_FLUSH, r>>
    /\ OrderKey(<<NOTHING>>) = <<NOTHING>>
<1>1. \A t \in OneRank : t # FLUSH
  BY DEF OneRank, HIGH_CARD, PAIR, SET, STRAIGHT, SQUARE, FLUSH
<1>2. \A t \in TwoRanks : t # FLUSH
  BY DEF TwoRanks, TWO_PAIRS, FULL_HOUSE, FLUSH
<1>3. NOTHING # FLUSH /\ STRAIGHT_FLUSH # FLUSH
  BY DEF NOTHING, FLUSH, STRAIGHT_FLUSH
<1>4. FLUSH \in HAS_SUIT /\ STRAIGHT_FLUSH \in HAS_SUIT
  BY DEF HAS_SUIT
<1>5. \A t \in OneRank, r \in Rank : OrderKey(<<t, r>>) = <<t, r>>
  <2> TAKE t \in OneRank, r \in Rank
  <2>1. remove_suit(<<t, r>>) = <<t, r>> /\ <<t, r>>[1] = t
    BY RemoveSuitOf
  <2> QED
    BY <1>1, <2>1 DEF OrderKey
<1>6. \A t \in TwoRanks, a, b \in Rank : OrderKey(<<t, a, b>>) = <<t, a, b>>
  <2> TAKE t \in TwoRanks, a, b \in Rank
  <2>1. remove_suit(<<t, a, b>>) = <<t, a, b>> /\ <<t, a, b>>[1] = t
    BY RemoveSuitOf
  <2> QED
    BY <1>2, <2>1 DEF OrderKey
<1>7. \A r \in Rank, s \in Suit : OrderKey(<<FLUSH, r, s>>) = <<FLUSH, -r>>
  BY <1>4, RemoveSuitOf DEF OrderKey
<1>8. \A r \in Rank, s \in Suit : OrderKey(<<STRAIGHT_FLUSH, r, s>>) = <<STRAIGHT_FLUSH, r>>
  BY <1>3, <1>4, RemoveSuitOf DEF OrderKey
<1>9. OrderKey(<<NOTHING>>) = <<NOTHING>>
  BY <1>3, RemoveSuitOf DEF OrderKey
<1> QED
  BY <1>5, <1>6, <1>7, <1>8, <1>9

\* The types tell the shapes apart.
LEMMA TypesApart ==
    /\ OneRank \subseteq Int /\ TwoRanks \subseteq Int /\ HAS_SUIT = {FLUSH, STRAIGHT_FLUSH}
    /\ FLUSH \in Int /\ STRAIGHT_FLUSH \in Int /\ NOTHING \in Int
    /\ OneRank \cap TwoRanks = {}
    /\ FLUSH \notin OneRank \cup TwoRanks /\ STRAIGHT_FLUSH \notin OneRank \cup TwoRanks
    /\ NOTHING \notin OneRank \cup TwoRanks \cup HAS_SUIT /\ FLUSH # STRAIGHT_FLUSH
BY DEF OneRank, TwoRanks, HAS_SUIT, NOTHING, HIGH_CARD, PAIR, TWO_PAIRS, SET, STRAIGHT, FLUSH,
       FULL_HOUSE, SQUARE, STRAIGHT_FLUSH

LEMMA ShapeOf ==
    ASSUME NEW c, Shaped(c)
    PROVE  /\ c[1] \in {NOTHING, FLUSH, STRAIGHT_FLUSH} \cup OneRank \cup TwoRanks
           /\ c[1] = NOTHING => c = <<NOTHING>>
           /\ c[1] \in OneRank => \E r \in Rank : c = <<c[1], r>>
           /\ c[1] \in TwoRanks => \E a, b \in Rank : c = <<c[1], a, b>>
           /\ c[1] \in HAS_SUIT => \E r \in Rank, s \in Suit : c = <<c[1], r, s>>
<1>1. CASE c = <<NOTHING>>
  <2>1. c[1] = NOTHING
    BY <1>1
  <2> QED
    BY <1>1, <2>1, TypesApart
<1>2. ASSUME NEW t \in OneRank, NEW r \in Rank, c = <<t, r>>
      PROVE  c[1] \in OneRank /\ \E q \in Rank : c = <<c[1], q>>
  BY <1>2
<1>3. ASSUME NEW t \in TwoRanks, NEW a \in Rank, NEW b \in Rank, c = <<t, a, b>>
      PROVE  c[1] \in TwoRanks /\ \E d, e \in Rank : c = <<c[1], d, e>>
  BY <1>3
<1>4. ASSUME NEW t \in HAS_SUIT, NEW r \in Rank, NEW s \in Suit, c = <<t, r, s>>
      PROVE  c[1] \in HAS_SUIT /\ \E q \in Rank, x \in Suit : c = <<c[1], q, x>>
  BY <1>4
<1>5. \/ c = <<NOTHING>>
      \/ c[1] \in OneRank /\ \E q \in Rank : c = <<c[1], q>>
      \/ c[1] \in TwoRanks /\ \E d, e \in Rank : c = <<c[1], d, e>>
      \/ c[1] \in HAS_SUIT /\ \E q \in Rank, x \in Suit : c = <<c[1], q, x>>
  BY <1>2, <1>3, <1>4 DEF Shaped
<1> QED
  BY <1>1, <1>5, TypesApart

\* The order of bids, by type.
LEMMA WeakerIs ==
    ASSUME NEW u, Shaped(u), NEW v, Shaped(v)
    PROVE  less_combination(u, v) <=> Weaker(u, v)
<1>1. ASSUME NEW c, Shaped(c)
      PROVE  /\ Len(OrderKey(c)) \in Nat \ {0}
             /\ OrderKey(c)[1] = c[1] /\ c[1] \in Int
  <2>1. CASE c = <<NOTHING>>
    BY <2>1, KeyOf, TypesApart
  <2>2. ASSUME NEW t \in OneRank, NEW r \in Rank, c = <<t, r>>
        PROVE  Len(OrderKey(c)) \in Nat \ {0} /\ OrderKey(c)[1] = c[1] /\ c[1] \in Int
    <3>1. OrderKey(c) = <<t, r>> /\ t \in Int
      BY <2>2, KeyOf, TypesApart
    <3> QED
      BY <2>2, <3>1
  <2>3. ASSUME NEW t \in TwoRanks, NEW a \in Rank, NEW b \in Rank, c = <<t, a, b>>
        PROVE  Len(OrderKey(c)) \in Nat \ {0} /\ OrderKey(c)[1] = c[1] /\ c[1] \in Int
    <3>1. OrderKey(c) = <<t, a, b>> /\ t \in Int
      BY <2>3, KeyOf, TypesApart
    <3> QED
      BY <2>3, <3>1
  <2>4. ASSUME NEW r \in Rank, NEW s \in Suit, c = <<FLUSH, r, s>>
        PROVE  Len(OrderKey(c)) \in Nat \ {0} /\ OrderKey(c)[1] = c[1] /\ c[1] \in Int
    <3>1. OrderKey(c) = <<FLUSH, -r>> /\ FLUSH \in Int
      BY <2>4, KeyOf, TypesApart
    <3> QED
      BY <2>4, <3>1
  <2>5. ASSUME NEW r \in Rank, NEW s \in Suit, c = <<STRAIGHT_FLUSH, r, s>>
        PROVE  Len(OrderKey(c)) \in Nat \ {0} /\ OrderKey(c)[1] = c[1] /\ c[1] \in Int
    <3>1. OrderKey(c) = <<STRAIGHT_FLUSH, r>> /\ STRAIGHT_FLUSH \in Int
      BY <2>5, KeyOf, TypesApart
    <3> QED
      BY <2>5, <3>1
  <2> QED
    BY <1>1, <2>1, <2>2, <2>3, <2>4, <2>5, TypesApart, Zenon DEF Shaped
<1>2. CASE u[1] # v[1]
  BY <1>1, <1>2, LexIs DEF less_combination, Weaker
<1>3. CASE u[1] = v[1]
  <2>1. ~(u[1] < v[1])
    BY <1>1, <1>3
  <2>2. CASE u = <<NOTHING>>
    <3>1. u[1] = NOTHING
      BY <2>2
    <3>2. v = <<NOTHING>>
      BY <1>3, <3>1, ShapeOf, TypesApart
    <3>3. ~LexLess(<<NOTHING>>, <<NOTHING>>)
      BY LexIs, TypesApart
    <3> QED
      BY <2>1, <2>2, <3>1, <3>2, <3>3, KeyOf, TypesApart DEF less_combination, Weaker
  <2>3. ASSUME NEW t \in OneRank, NEW r \in Rank, u = <<t, r>>
        PROVE  less_combination(u, v) <=> Weaker(u, v)
    <3>1. u[1] = t /\ u[2] = r
      BY <2>3
    <3>2. \E q \in Rank : v = <<t, q>>
      BY <1>3, <3>1, ShapeOf, TypesApart
    <3>3. PICK q \in Rank : v = <<t, q>>
      BY <3>2
    <3>4. LexLess(<<t, r>>, <<t, q>>) <=> r < q
      BY LexIs, TypesApart, RanksFinite
    <3>5. less_combination(u, v) <=> r < q
      BY <2>3, <3>3, <3>4, KeyOf DEF less_combination
    <3>6. t # FLUSH /\ t \notin TwoRanks /\ v[2] = q
      BY <3>3, TypesApart
    <3> QED
      BY <2>1, <1>3, <3>1, <3>5, <3>6 DEF Weaker
  <2>4. ASSUME NEW t \in TwoRanks, NEW a \in Rank, NEW b \in Rank, u = <<t, a, b>>
        PROVE  less_combination(u, v) <=> Weaker(u, v)
    <3>1. u[1] = t /\ u[2] = a /\ u[3] = b
      BY <2>4
    <3>2. \E c, d \in Rank : v = <<t, c, d>>
      <4>1. v[1] = t /\ v[1] \in TwoRanks
        BY <1>3, <3>1, TypesApart
      <4>2. \E c, d \in Rank : v = <<v[1], c, d>>
        BY <4>1, ShapeOf, Zenon
      <4> QED
        BY <4>1, <4>2
    <3>3. PICK c \in Rank, d \in Rank : v = <<t, c, d>>
      BY <3>2
    <3>4. LexLess(<<t, a, b>>, <<t, c, d>>) <=> a < c \/ (a = c /\ b < d)
      BY LexIs, TypesApart, RanksFinite
    <3>5. less_combination(u, v) <=> a < c \/ (a = c /\ b < d)
      BY <2>4, <3>3, <3>4, KeyOf DEF less_combination
    <3>6. t # FLUSH /\ t # STRAIGHT_FLUSH /\ t \notin OneRank /\ v[2] = c /\ v[3] = d
      BY <3>3, TypesApart
    <3> QED
      BY <2>1, <1>3, <3>1, <3>5, <3>6 DEF Weaker
  <2>5. ASSUME NEW r \in Rank, NEW s \in Suit, u = <<FLUSH, r, s>>
        PROVE  less_combination(u, v) <=> Weaker(u, v)
    <3>1. u[1] = FLUSH /\ u[2] = r
      BY <2>5
    <3>2. \E q \in Rank, x \in Suit : v = <<FLUSH, q, x>>
      <4>1. v[1] = FLUSH /\ v[1] \in HAS_SUIT
        BY <1>3, <3>1, TypesApart
      <4>2. \E q \in Rank, x \in Suit : v = <<v[1], q, x>>
        BY <4>1, ShapeOf, Zenon
      <4> QED
        BY <4>1, <4>2
    <3>3. PICK q \in Rank, x \in Suit : v = <<FLUSH, q, x>>
      BY <3>2
    <3>4. LexLess(<<FLUSH, -r>>, <<FLUSH, -q>>) <=> -r < -q
      BY LexIs, TypesApart, RanksFinite
    <3>5. less_combination(u, v) <=> q < r
      <4>1. -r < -q <=> q < r
        BY RanksFinite
      <4> QED
        BY <2>5, <3>3, <3>4, <4>1, KeyOf DEF less_combination
    <3>6. u[1] \notin TwoRanks /\ u[1] \notin OneRank \cup {STRAIGHT_FLUSH} /\ v[2] = q
      BY <3>1, <3>3, TypesApart
    <3> QED
      BY <2>1, <1>3, <3>1, <3>5, <3>6 DEF Weaker
  <2>6. ASSUME NEW r \in Rank, NEW s \in Suit, u = <<STRAIGHT_FLUSH, r, s>>
        PROVE  less_combination(u, v) <=> Weaker(u, v)
    <3>1. u[1] = STRAIGHT_FLUSH /\ u[2] = r
      BY <2>6
    <3>2. \E q \in Rank, x \in Suit : v = <<STRAIGHT_FLUSH, q, x>>
      <4>1. v[1] = STRAIGHT_FLUSH /\ v[1] \in HAS_SUIT
        BY <1>3, <3>1, TypesApart
      <4>2. \E q \in Rank, x \in Suit : v = <<v[1], q, x>>
        BY <4>1, ShapeOf, Zenon
      <4> QED
        BY <4>1, <4>2
    <3>3. PICK q \in Rank, x \in Suit : v = <<STRAIGHT_FLUSH, q, x>>
      BY <3>2
    <3>4. LexLess(<<STRAIGHT_FLUSH, r>>, <<STRAIGHT_FLUSH, q>>) <=> r < q
      BY LexIs, TypesApart, RanksFinite
    <3>5. less_combination(u, v) <=> r < q
      BY <2>6, <3>3, <3>4, KeyOf DEF less_combination
    <3>6. u[1] \notin TwoRanks /\ u[1] # FLUSH /\ v[2] = q
      BY <3>1, <3>3, TypesApart
    <3> QED
      BY <2>1, <1>3, <3>1, <3>5, <3>6 DEF Weaker
  <2> QED
    BY <2>2, <2>3, <2>4, <2>5, <2>6, TypesApart, Zenon DEF Shaped
<1> QED
  BY <1>2, <1>3

-----------------------------------------------------------------------------
(* The texts that parse_m_command accepts, and the bids.                   *)

LEMMA SizesAre ==
    /\ \A t \in OneRank : HOW_MANY_RANKS[t] = 1 /\ COMBINATION_SIZE[t] = 2
    /\ \A t \in TwoRanks : HOW_MANY_RANKS[t] = 2 /\ COMBINATION_SIZE[t] = 3
    /\ \A t \in HAS_SUIT : HOW_MANY_RANKS[t] = 1 /\ COMBINATION_SIZE[t] = 3
    /\ TypeSymbol = OneRank \cup TwoRanks \cup HAS_SUIT
<1>1. COMBINATIONS = 0 .. 9
  BY DEF COMBINATIONS, NOTHING, STRAIGHT_FLUSH
<1>2. /\ OneRank = {1, 2, 4, 5, 8} /\ TwoRanks = {3, 7} /\ HAS_SUIT = {6, 9} /\ TypeSymbol = 1 .. 9
      /\ TWO_PAIRS = 3 /\ FULL_HOUSE = 7 /\ NOTHING = 0
  BY DEF OneRank, TwoRanks, HAS_SUIT, TypeSymbol, NOTHING, HIGH_CARD, PAIR, TWO_PAIRS, SET,
         STRAIGHT, FLUSH, FULL_HOUSE, SQUARE, STRAIGHT_FLUSH
<1>3. \A t \in COMBINATIONS : HOW_MANY_RANKS[t] = CASE t = NOTHING -> 0
                                                    [] t \in {TWO_PAIRS, FULL_HOUSE} -> 2
                                                    [] OTHER -> 1
  BY DEF HOW_MANY_RANKS
<1>4. \A t \in {1, 2, 4, 5, 8} : HOW_MANY_RANKS[t] = 1
  BY <1>1, <1>2, <1>3
<1>5. \A t \in {3, 7} : HOW_MANY_RANKS[t] = 2
  BY <1>1, <1>2, <1>3
<1>6. \A t \in {6, 9} : HOW_MANY_RANKS[t] = 1
  BY <1>1, <1>2, <1>3
<1>7. \A t \in COMBINATIONS : COMBINATION_SIZE[t] = 1 + HOW_MANY_RANKS[t] + SuitsOf(t)
  BY DEF COMBINATION_SIZE
<1>8. \A t \in {1, 2, 4, 5, 8} : COMBINATION_SIZE[t] = 2
  BY <1>1, <1>2, <1>4, <1>7 DEF SuitsOf
<1>9. \A t \in {3, 7} : COMBINATION_SIZE[t] = 3
  BY <1>1, <1>2, <1>5, <1>7 DEF SuitsOf
<1>10. \A t \in {6, 9} : COMBINATION_SIZE[t] = 3
  BY <1>1, <1>2, <1>6, <1>7 DEF SuitsOf
<1>11. 1 .. 9 = {1, 2, 4, 5, 8} \cup {3, 7} \cup {6, 9}
  OBVIOUS
<1> QED
  BY <1>2, <1>4, <1>5, <1>6, <1>8, <1>9, <1>10, <1>11

\* The last three complaints of parse_m_command, about a text that has the right symbols.
Refused(x) ==
    \/ x[1] \in IS_STRAIGHT_TYPE /\ x[2] < FIVE
    \/ x[1] \in IS_FLUSH_TYPE /\ x[2] < SEVEN
    \/ x[1] = TWO_PAIRS /\ x[2] = x[3]

LEMMA NoErrorIf ==
    ASSUME NEW x, Len(x) \in Nat \ {0}, x # <<>>, x[1] \in TypeSymbol,
           NEW k, k = HOW_MANY_RANKS[x[1]], NEW size, size = COMBINATION_SIZE[x[1]]
    PROVE  ParseError(x) = "" <=>
             /\ \A i \in 2 .. k + 1 : i <= Len(x) /\ x[i] \in Rank
             /\ x[1] \in HAS_SUIT => k + 1 < Len(x) /\ x[k + 2] \in Suit
             /\ Len(x) <= size
             /\ ~Refused(x)
<1> DEFINE t == x[1]
           n == HOW_MANY_RANKS[t]
           bad == {i \in 2 .. n + 1 : i > Len(x) \/ x[i] \notin Rank}
           rest == IF t \in HAS_SUIT /\ Len(x) <= n + 1 THEN "MISSING_SUIT"
                   ELSE IF t \in HAS_SUIT /\ x[n + 2] \notin Suit THEN "INCORRECT_SUIT"
                   ELSE IF Len(x) > COMBINATION_SIZE[t] THEN "INCORRECT_SUIT"
                   ELSE IF t \in IS_STRAIGHT_TYPE /\ x[2] < FIVE THEN "LITTLE_STRAIGHT_RANK"
                   ELSE IF t \in IS_FLUSH_TYPE /\ x[2] < SEVEN THEN "LITTLE_FLUSH_RANK"
                   ELSE IF t = TWO_PAIRS /\ x[2] = x[3] THEN "COINCIDING_RANKS"
                   ELSE ""
<1>1. ParseError(x) = IF t \notin TypeSymbol THEN "INCORRECT_COMBINATION"
                      ELSE IF bad # {}
                      THEN IF LeastOf(bad) > Len(x) THEN "MISSING_RANK" ELSE "INCORRECT_RANK"
                      ELSE rest
  BY Zenon DEF ParseError
<1>2. t \in TypeSymbol => n \in Nat /\ COMBINATION_SIZE[t] \in Nat
  BY SizesAre
<1>3. t \in TypeSymbol => (bad = {} <=> \A i \in 2 .. n + 1 : i <= Len(x) /\ x[i] \in Rank)
  <2> SUFFICES ASSUME t \in TypeSymbol
               PROVE  \A i \in 2 .. n + 1 : i > Len(x) <=> ~(i <= Len(x))
    OBVIOUS
  <2> QED
    BY <1>2
<1>4. t \in TypeSymbol =>
        (rest = "" <=> /\ t \in HAS_SUIT => n + 1 < Len(x) /\ x[n + 2] \in Suit
                       /\ Len(x) <= COMBINATION_SIZE[t]
                       /\ ~Refused(x))
  <2> SUFFICES ASSUME t \in TypeSymbol
               PROVE  rest = "" <=> /\ t \in HAS_SUIT => n + 1 < Len(x) /\ x[n + 2] \in Suit
                                    /\ Len(x) <= COMBINATION_SIZE[t]
                                    /\ ~Refused(x)
    OBVIOUS
  <2>1. Len(x) <= n + 1 <=> ~(n + 1 < Len(x))
    BY <1>2
  <2>2. Len(x) > COMBINATION_SIZE[t] <=> ~(Len(x) <= COMBINATION_SIZE[t])
    BY <1>2
  <2> HIDE DEF n
  <2> QED
    BY <2>1, <2>2 DEF Refused
<1> HIDE DEF rest, bad
<1>5. ParseError(x) = "" <=> t \in TypeSymbol /\ bad = {} /\ rest = ""
  BY <1>1
<1> QED
  BY <1>3, <1>4, <1>5, Zenon

\* The texts that parse_m_command accepts.
Accepted(x) ==
    \/ \E t \in OneRank, r \in Rank : x = <<t, r>> /\ (t = STRAIGHT => r >= FIVE)
    \/ \E a, b \in Rank : x = <<TWO_PAIRS, a, b>> /\ a # b
    \/ \E a, b \in Rank : x = <<FULL_HOUSE, a, b>>
    \/ \E r \in Rank, s \in Suit : x = <<FLUSH, r, s>> /\ r >= SEVEN
    \/ \E r \in Rank, s \in Suit : x = <<STRAIGHT_FLUSH, r, s>> /\ r >= FIVE

LEMMA TextIs == ASSUME NEW x \in Texts, x # <<>> PROVE x \in Seq(Int) /\ Len(x) \in Nat \ {0}
<1> DEFINE Symbols == {Unknown} \cup Rank \cup Suit
<1>1. Symbols \subseteq Int
  BY RanksFinite DEF Unknown
<1>2. TypeSymbol \cup {Unknown} \subseteq Int
  BY DEF TypeSymbol, Unknown, HIGH_CARD, STRAIGHT_FLUSH
<1>3. PICK t \in TypeSymbol \cup {Unknown} :
           x \in {<<t>> \o rest : rest \in UNION {[1 .. k -> Symbols] : k \in 0 .. 3}}
  BY DEF Texts
<1>4. PICK rest \in UNION {[1 .. k -> Symbols] : k \in 0 .. 3} : x = <<t>> \o rest
  BY <1>3
<1>5. PICK k \in 0 .. 3 : rest \in [1 .. k -> Symbols]
  BY <1>4
<1> HIDE DEF Symbols
<1>6. rest \in Seq(Int) /\ Len(rest) \in Nat
  <2>1. rest \in [1 .. k -> Int]
    BY <1>1, <1>5
  <2>2. rest \in Seq(Int)
    BY <2>1
  <2> QED
    BY <2>2, LenProperties
<1>7. <<t>> \in Seq(Int) /\ Len(<<t>>) = 1
  BY <1>2
<1>8. x \in Seq(Int) /\ Len(x) = 1 + Len(rest)
  BY <1>4, <1>6, <1>7, ConcatProperties
<1> QED
  BY <1>6, <1>8

LEMMA ConcatOne ==
    ASSUME NEW t \in Int, NEW a \in Int, NEW b \in Int
    PROVE  <<t>> \o <<a>> = <<t, a>> /\ <<t>> \o <<a, b>> = <<t, a, b>>
<1>1. <<t>> \o <<a>> = <<t, a>>
  <2> DEFINE u == <<t>>
             v == <<a>>
             w == <<t, a>>
  <2>1. /\ u \in Seq(Int) /\ Len(u) = 1 /\ u[1] = t
        /\ v \in Seq(Int) /\ Len(v) = 1 /\ v[1] = a
        /\ w \in Seq(Int) /\ Len(w) = 2 /\ w[1] = t /\ w[2] = a
    OBVIOUS
  <2> HIDE DEF u, v, w
  <2>2. /\ u \o v \in Seq(Int) /\ Len(u \o v) = Len(u) + Len(v)
        /\ \A i \in 1 .. Len(u) + Len(v) :
              (u \o v)[i] = IF i <= Len(u) THEN u[i] ELSE v[i - Len(u)]
    BY <2>1, ConcatProperties, Zenon
  <2>3. Len(u) + Len(v) = 2 /\ Len(u) = 1
    BY <2>1
  <2>4. /\ u \o v \in Seq(Int) /\ Len(u \o v) = 2
        /\ \A i \in 1 .. 2 : (u \o v)[i] = IF i <= 1 THEN u[i] ELSE v[i - 1]
    BY <2>2, <2>3
  <2>5. (u \o v)[1] = t /\ (u \o v)[2] = a
    BY <2>1, <2>4
  <2>6. \A i \in 1 .. 2 : i = 1 \/ i = 2
    OBVIOUS
  <2>7. \A i \in 1 .. 2 : (u \o v)[i] = w[i]
    BY <2>1, <2>5, <2>6, Zenon
  <2>8. u \o v = w
    BY <2>1, <2>4, <2>7, SeqEqual
  <2> QED
    BY <2>8 DEF u, v, w
<1>2. <<t>> \o <<a, b>> = <<t, a, b>>
  <2> DEFINE u == <<t>>
             v == <<a, b>>
             w == <<t, a, b>>
  <2>1. /\ u \in Seq(Int) /\ Len(u) = 1 /\ u[1] = t
        /\ v \in Seq(Int) /\ Len(v) = 2 /\ v[1] = a /\ v[2] = b
        /\ w \in Seq(Int) /\ Len(w) = 3 /\ w[1] = t /\ w[2] = a /\ w[3] = b
    OBVIOUS
  <2> HIDE DEF u, v, w
  <2>2. /\ u \o v \in Seq(Int) /\ Len(u \o v) = Len(u) + Len(v)
        /\ \A i \in 1 .. Len(u) + Len(v) :
              (u \o v)[i] = IF i <= Len(u) THEN u[i] ELSE v[i - Len(u)]
    BY <2>1, ConcatProperties, Zenon
  <2>3. Len(u) + Len(v) = 3 /\ Len(u) = 1
    BY <2>1
  <2>4. /\ u \o v \in Seq(Int) /\ Len(u \o v) = 3
        /\ \A i \in 1 .. 3 : (u \o v)[i] = IF i <= 1 THEN u[i] ELSE v[i - 1]
    BY <2>2, <2>3
  <2>5. (u \o v)[1] = t /\ (u \o v)[2] = a /\ (u \o v)[3] = b
    BY <2>1, <2>4
  <2>6. \A i \in 1 .. 3 : i = 1 \/ i = 2 \/ i = 3
    OBVIOUS
  <2>7. \A i \in 1 .. 3 : (u \o v)[i] = w[i]
    BY <2>1, <2>5, <2>6, Zenon
  <2>8. u \o v = w
    BY <2>1, <2>4, <2>7, SeqEqual
  <2> QED
    BY <2>8 DEF u, v, w
<1> QED
  BY <1>1, <1>2

LEMMA TextsHave ==
    ASSUME NEW t \in TypeSymbol, NEW a \in Rank
    PROVE  /\ <<t, a>> \in Texts
           /\ \A b \in Rank \cup Suit : <<t, a, b>> \in Texts
<1> DEFINE Symbols == {Unknown} \cup Rank \cup Suit
           Rests == UNION {[1 .. k -> Symbols] : k \in 0 .. 3}
<1>1. \A rest \in Rests : <<t>> \o rest \in Texts
  BY DEF Texts
<1>2. t \in Int /\ a \in Int /\ Rank \cup Suit \subseteq Int
  BY RanksFinite DEF TypeSymbol, HIGH_CARD, STRAIGHT_FLUSH
<1>3. <<a>> \in Rests
  <2>1. <<a>> \in [1 .. 1 -> Symbols] /\ 1 \in 0 .. 3
    OBVIOUS
  <2> QED
    BY <2>1
<1>4. ASSUME NEW b \in Rank \cup Suit PROVE <<a, b>> \in Rests
  <2>1. <<a, b>> \in [1 .. 2 -> Symbols] /\ 2 \in 0 .. 3
    OBVIOUS
  <2> QED
    BY <2>1
<1> HIDE DEF Rests
<1>5. <<t, a>> \in Texts
  <2>1. <<t>> \o <<a>> = <<t, a>>
    BY <1>2, ConcatOne
  <2> QED
    BY <1>1, <1>3, <2>1, Zenon
<1>6. ASSUME NEW b \in Rank \cup Suit PROVE <<t, a, b>> \in Texts
  <2>1. <<t>> \o <<a, b>> = <<t, a, b>>
    BY <1>2, ConcatOne
  <2> QED
    BY <1>1, <1>4, <2>1, Zenon
<1> QED
  BY <1>5, <1>6

LEMMA JustTwo == ASSUME NEW k \in Int, 2 <= k, k <= 2 PROVE k = 2
OBVIOUS

LEMMA JustThree == ASSUME NEW k \in Int, 3 <= k, k <= 3 PROVE k = 3
OBVIOUS

LEMMA ShortSeqs ==
    ASSUME NEW x \in Seq(Int)
    PROVE  /\ Len(x) = 2 => x = <<x[1], x[2]>>
           /\ Len(x) = 3 => x = <<x[1], x[2], x[3]>>
OBVIOUS

\* parse_m_command finds nothing wrong with exactly these texts.
LEMMA AcceptedAre == \A x : x \in Texts /\ ParseError(x) = "" <=> Accepted(x)
<1>1. ASSUME NEW x, Accepted(x) PROVE x \in Texts /\ ParseError(x) = ""
  <2>1. ASSUME NEW t \in OneRank, NEW r \in Rank, x = <<t, r>>, t = STRAIGHT => r >= FIVE
        PROVE  x \in Texts /\ ParseError(x) = ""
    <3>1. t \in TypeSymbol /\ HOW_MANY_RANKS[t] = 1 /\ COMBINATION_SIZE[t] = 2
      BY SizesAre
    <3>2. Len(x) = 2 /\ x # <<>> /\ x[1] = t /\ x[2] = r
      BY <2>1
    <3>3. t \notin HAS_SUIT /\ t # TWO_PAIRS /\ t \notin IS_FLUSH_TYPE /\ t # STRAIGHT_FLUSH
      BY TypesApart DEF TwoRanks, IS_FLUSH_TYPE
    <3>4. ~Refused(x)
      BY <2>1, <3>2, <3>3, RanksFinite DEF Refused, IS_STRAIGHT_TYPE, FIVE
    <3>5. \A i \in 2 .. 1 + 1 : i <= Len(x) /\ x[i] \in Rank
      BY <3>2
    <3>6. ParseError(x) = ""
      <4>1. /\ Len(x) \in Nat \ {0} /\ x # <<>> /\ x[1] \in TypeSymbol
            /\ 1 = HOW_MANY_RANKS[x[1]] /\ 2 = COMBINATION_SIZE[x[1]]
        BY <3>1, <3>2
      <4>2. ParseError(x) = "" <=>
              /\ \A i \in 2 .. 1 + 1 : i <= Len(x) /\ x[i] \in Rank
              /\ x[1] \in HAS_SUIT => 1 + 1 < Len(x) /\ x[1 + 2] \in Suit
              /\ Len(x) <= 2
              /\ ~Refused(x)
        BY <4>1, NoErrorIf, Zenon
      <4>3. Len(x) <= 2
        BY <3>2
      <4>4. x[1] \in HAS_SUIT => 1 + 1 < Len(x) /\ x[1 + 2] \in Suit
        BY <3>2, <3>3
      <4> QED
        BY <3>4, <3>5, <4>2, <4>3, <4>4, Zenon
    <3> QED
      BY <2>1, <3>1, <3>6, TextsHave
  <2>2. ASSUME NEW t \in TwoRanks, NEW a \in Rank, NEW b \in Rank, x = <<t, a, b>>,
               t = TWO_PAIRS => a # b
        PROVE  x \in Texts /\ ParseError(x) = ""
    <3>1. t \in TypeSymbol /\ HOW_MANY_RANKS[t] = 2 /\ COMBINATION_SIZE[t] = 3
      BY SizesAre
    <3>2. Len(x) = 3 /\ x # <<>> /\ x[1] = t /\ x[2] = a /\ x[3] = b
      BY <2>2
    <3>3. t \notin HAS_SUIT /\ t \notin IS_FLUSH_TYPE /\ t \notin IS_STRAIGHT_TYPE
      <4>1. STRAIGHT \in OneRank
        BY DEF OneRank
      <4> QED
        BY <4>1, TypesApart DEF IS_FLUSH_TYPE, IS_STRAIGHT_TYPE
    <3>4. ~Refused(x)
      BY <2>2, <3>2, <3>3 DEF Refused
    <3>5. \A i \in 2 .. 2 + 1 : i <= Len(x) /\ x[i] \in Rank
      BY <3>2
    <3>6. ParseError(x) = ""
      <4>1. /\ Len(x) \in Nat \ {0} /\ x # <<>> /\ x[1] \in TypeSymbol
            /\ 2 = HOW_MANY_RANKS[x[1]] /\ 3 = COMBINATION_SIZE[x[1]]
        BY <3>1, <3>2
      <4>2. ParseError(x) = "" <=>
              /\ \A i \in 2 .. 2 + 1 : i <= Len(x) /\ x[i] \in Rank
              /\ x[1] \in HAS_SUIT => 2 + 1 < Len(x) /\ x[2 + 2] \in Suit
              /\ Len(x) <= 3
              /\ ~Refused(x)
        BY <4>1, NoErrorIf, Zenon
      <4>3. Len(x) <= 3
        BY <3>2
      <4>4. x[1] \in HAS_SUIT => 2 + 1 < Len(x) /\ x[2 + 2] \in Suit
        BY <3>2, <3>3
      <4> QED
        BY <3>4, <3>5, <4>2, <4>3, <4>4, Zenon
    <3> QED
      BY <2>2, <3>1, <3>6, TextsHave
  <2>3. ASSUME NEW t \in HAS_SUIT, NEW r \in Rank, NEW s \in Suit, x = <<t, r, s>>, r >= FIVE,
               t = FLUSH => r >= SEVEN
        PROVE  x \in Texts /\ ParseError(x) = ""
    <3>1. t \in TypeSymbol /\ HOW_MANY_RANKS[t] = 1 /\ COMBINATION_SIZE[t] = 3
      BY SizesAre
    <3>2. Len(x) = 3 /\ x # <<>> /\ x[1] = t /\ x[2] = r /\ x[1 + 2] = s /\ 1 + 1 < Len(x)
      BY <2>3
    <3>3. ~Refused(x)
      <4>1. t # TWO_PAIRS
        BY TypesApart DEF TwoRanks
      <4>2. ~(r < FIVE) /\ (t = FLUSH => ~(r < SEVEN))
        BY <2>3, RanksFinite DEF FIVE, SEVEN
      <4> QED
        BY <3>2, <4>1, <4>2 DEF Refused, IS_FLUSH_TYPE
    <3>4. \A i \in 2 .. 1 + 1 : i <= Len(x) /\ x[i] \in Rank
      BY <3>2
    <3>5. ParseError(x) = ""
      <4>1. /\ Len(x) \in Nat \ {0} /\ x # <<>> /\ x[1] \in TypeSymbol
            /\ 1 = HOW_MANY_RANKS[x[1]] /\ 3 = COMBINATION_SIZE[x[1]]
        BY <3>1, <3>2
      <4>2. ParseError(x) = "" <=>
              /\ \A i \in 2 .. 1 + 1 : i <= Len(x) /\ x[i] \in Rank
              /\ x[1] \in HAS_SUIT => 1 + 1 < Len(x) /\ x[1 + 2] \in Suit
              /\ Len(x) <= 3
              /\ ~Refused(x)
        BY <4>1, NoErrorIf, Zenon
      <4>3. Len(x) <= 3
        BY <3>2
      <4>4. x[1] \in HAS_SUIT => 1 + 1 < Len(x) /\ x[1 + 2] \in Suit
        BY <3>2
      <4> QED
        BY <3>3, <3>4, <4>2, <4>3, <4>4, Zenon
    <3> QED
      BY <2>3, <3>1, <3>5, TextsHave
  <2>4. TWO_PAIRS \in TwoRanks /\ FULL_HOUSE \in TwoRanks /\ FULL_HOUSE # TWO_PAIRS
    BY DEF TwoRanks, TWO_PAIRS, FULL_HOUSE
  <2>5. \A r \in Rank : r >= SEVEN => r >= FIVE
    BY RanksFinite DEF FIVE, SEVEN
  <2>6. CASE \E t \in OneRank, r \in Rank : x = <<t, r>> /\ (t = STRAIGHT => r >= FIVE)
    BY <2>1, <2>6
  <2>7. CASE \E a, b \in Rank : x = <<TWO_PAIRS, a, b>> /\ a # b
    BY <2>2, <2>4, <2>7
  <2>8. CASE \E a, b \in Rank : x = <<FULL_HOUSE, a, b>>
    BY <2>2, <2>4, <2>8
  <2>9. CASE \E r \in Rank, s \in Suit : x = <<FLUSH, r, s>> /\ r >= SEVEN
    BY <2>3, <2>5, <2>9, TypesApart
  <2>10. CASE \E r \in Rank, s \in Suit : x = <<STRAIGHT_FLUSH, r, s>> /\ r >= FIVE
    BY <2>3, <2>10, TypesApart
  <2> QED
    BY <1>1, <2>6, <2>7, <2>8, <2>9, <2>10 DEF Accepted
<1>2. ASSUME NEW x \in Texts, ParseError(x) = "" PROVE Accepted(x)
  <2>1. x # <<>>
    BY <1>2 DEF ParseError
  <2>2. x \in Seq(Int) /\ Len(x) \in Nat \ {0}
    BY <2>1, TextIs
  <2> DEFINE t == x[1]
             n == HOW_MANY_RANKS[t]
  <2>3. t \in TypeSymbol
    BY <1>2, <2>1 DEF ParseError
  <2>7. /\ \A i \in 2 .. n + 1 : i <= Len(x) /\ x[i] \in Rank
        /\ t \in HAS_SUIT => n + 1 < Len(x) /\ x[n + 2] \in Suit
        /\ Len(x) <= COMBINATION_SIZE[t]
        /\ ~Refused(x)
    BY <1>2, <2>1, <2>2, <2>3, NoErrorIf
  <2> HIDE DEF n
  <2>8. Len(x) \in Int
    BY <2>2
  <2>4. CASE t \in OneRank
    <3>1. n = 1 /\ COMBINATION_SIZE[t] = 2 /\ 2 \in 2 .. 1 + 1
      BY <2>4, SizesAre DEF n
    <3>2. Len(x) = 2 /\ x[2] \in Rank
      <4>1. n + 1 = 2
        BY <3>1
      <4>2. \A i \in 2 .. 2 : i <= Len(x) /\ x[i] \in Rank
        BY <2>7, <4>1
      <4>3. 2 <= Len(x) /\ x[2] \in Rank
        BY <4>2
      <4>4. Len(x) <= 2
        BY <2>7, <3>1
      <4>5. Len(x) = 2
        BY <2>8, <4>3, <4>4, JustTwo, Zenon
      <4> QED
        BY <4>3, <4>5
    <3>3. x = <<t, x[2]>>
      BY <2>2, <3>2, ShortSeqs
    <3>4. t = STRAIGHT => x[2] >= FIVE
      <4>1. t = STRAIGHT => ~(x[2] < FIVE)
        BY <2>7 DEF Refused, IS_STRAIGHT_TYPE
      <4>2. x[2] \in Int
        BY <3>2, RanksFinite
      <4> QED
        BY <4>1, <4>2 DEF FIVE
    <3> HIDE DEF t
    <3> QED
      BY <2>4, <3>2, <3>3, <3>4 DEF Accepted
  <2>5. CASE t \in TwoRanks
    <3>1. n = 2 /\ COMBINATION_SIZE[t] = 3 /\ 2 \in 2 .. 2 + 1 /\ 3 \in 2 .. 2 + 1
      BY <2>5, SizesAre DEF n
    <3>2. Len(x) = 3 /\ x[2] \in Rank /\ x[3] \in Rank
      <4>1. n + 1 = 3
        BY <3>1
      <4>2. \A i \in 2 .. 3 : i <= Len(x) /\ x[i] \in Rank
        BY <2>7, <4>1
      <4>3. 3 <= Len(x) /\ x[2] \in Rank /\ x[3] \in Rank
        BY <4>2
      <4>4. Len(x) <= 3
        BY <2>7, <3>1
      <4>5. Len(x) = 3
        BY <2>8, <4>3, <4>4, JustThree, Zenon
      <4> QED
        BY <4>3, <4>5
    <3>3. x = <<t, x[2], x[3]>>
      BY <2>2, <3>2, ShortSeqs
    <3>4. t = TWO_PAIRS => x[2] # x[3]
      BY <2>7 DEF Refused
    <3> HIDE DEF t
    <3> QED
      BY <2>5, <3>2, <3>3, <3>4 DEF Accepted, TwoRanks
  <2>6. CASE t \in HAS_SUIT
    <3>1. n = 1 /\ COMBINATION_SIZE[t] = 3 /\ 2 \in 2 .. 1 + 1
      BY <2>6, SizesAre DEF n
    <3>2. Len(x) = 3 /\ x[2] \in Rank /\ x[3] \in Suit
      <4>1. n + 1 = 2 /\ n + 2 = 3
        BY <3>1
      <4>2. 2 < Len(x) /\ x[3] \in Suit
        BY <2>6, <2>7, <4>1
      <4>3. \A i \in 2 .. 2 : i <= Len(x) /\ x[i] \in Rank
        BY <2>7, <4>1
      <4>4. Len(x) <= 3
        BY <2>7, <3>1
      <4>7. 3 <= Len(x)
        BY <2>8, <4>2
      <4>5. Len(x) = 3
        BY <2>8, <4>4, <4>7, JustThree, Zenon
      <4>6. x[2] \in Rank
        BY <4>3
      <4> QED
        BY <4>2, <4>5, <4>6
    <3>3. x = <<t, x[2], x[3]>>
      BY <2>2, <3>2, ShortSeqs
    <3>4. (t = FLUSH => x[2] >= SEVEN) /\ (t = STRAIGHT_FLUSH => x[2] >= FIVE)
      <4>1. (t = FLUSH => ~(x[2] < SEVEN)) /\ (t = STRAIGHT_FLUSH => ~(x[2] < FIVE))
        BY <2>7 DEF Refused, IS_STRAIGHT_TYPE, IS_FLUSH_TYPE
      <4>2. x[2] \in Int
        BY <3>2, RanksFinite
      <4> QED
        BY <4>1, <4>2 DEF FIVE, SEVEN
    <3> HIDE DEF t
    <3> QED
      BY <2>6, <3>2, <3>3, <3>4, TypesApart DEF Accepted
  <2> QED
    BY <2>3, <2>4, <2>5, <2>6, SizesAre
<1> QED
  BY <1>1, <1>2

\* parse_m_command sorts two pairs.
Sorted(c) == c[1] = TWO_PAIRS => c[2] < c[3]

LEMMA AcceptedIsShaped == ASSUME NEW c, Accepted(c) PROVE Shaped(c)
<1>1. TWO_PAIRS \in TwoRanks /\ FULL_HOUSE \in TwoRanks
  BY DEF TwoRanks
<1> QED
  BY <1>1, TypesApart, Zenon DEF Accepted, Shaped

LEMMA AcceptedPairs ==
    ASSUME NEW x, Accepted(x), x[1] = TWO_PAIRS
    PROVE  x[2] \in Rank /\ x[3] \in Rank /\ x[2] # x[3] /\ x = <<TWO_PAIRS, x[2], x[3]>>
<1>1. TWO_PAIRS \notin OneRank /\ TWO_PAIRS # FULL_HOUSE /\ TWO_PAIRS # FLUSH /\ TWO_PAIRS # STRAIGHT_FLUSH
  BY TypesApart DEF TwoRanks, TWO_PAIRS, FULL_HOUSE
<1>2. \A t \in OneRank, r \in Rank : x # <<t, r>>
  BY <1>1
<1>3. \A a, b : x # <<FULL_HOUSE, a, b>> /\ x # <<FLUSH, a, b>> /\ x # <<STRAIGHT_FLUSH, a, b>>
  BY <1>1
<1>4. \E a, b \in Rank : x = <<TWO_PAIRS, a, b>> /\ a # b
  BY <1>2, <1>3, Zenon DEF Accepted
<1>5. PICK a \in Rank, b \in Rank : x = <<TWO_PAIRS, a, b>> /\ a # b
  BY <1>4
<1>6. x[2] = a /\ x[3] = b
  BY <1>5
<1> QED
  BY <1>5, <1>6

LEMMA BidsAre == \A c : c \in Bids <=> Accepted(c) /\ Sorted(c)
<1>1. \A c : c \in Bids <=> \E x : Accepted(x) /\ c = ParsedCombination(x)
  BY AcceptedAre DEF Bids
<1>2. ASSUME NEW x, Accepted(x), x[1] # TWO_PAIRS PROVE ParsedCombination(x) = x
  BY <1>2 DEF ParsedCombination
<1>3. ASSUME NEW a \in Rank, NEW b \in Rank, a < b
      PROVE  /\ LeastOf({a, b}) = a /\ GreatestOf({a, b}) = b
             /\ LeastOf({b, a}) = a /\ GreatestOf({b, a}) = b
  <2>1. {a, b} \in SUBSET Int /\ IsFiniteSet({a, b}) /\ {a, b} # {} /\ {b, a} = {a, b}
    <3>1. {a, b} \in SUBSET Rank
      OBVIOUS
    <3> QED
      BY <3>1, RanksFinite
  <2>2. /\ LeastOf({a, b}) \in {a, b} /\ \A x \in {a, b} : LeastOf({a, b}) <= x
        /\ GreatestOf({a, b}) \in {a, b} /\ \A x \in {a, b} : x <= GreatestOf({a, b})
    BY <2>1, Extremes
  <2>3. a \in Int /\ b \in Int
    BY RanksFinite
  <2> QED
    BY <1>3, <2>1, <2>2, <2>3
<1>4. ASSUME NEW x, Accepted(x) PROVE Accepted(ParsedCombination(x)) /\ Sorted(ParsedCombination(x))
  <2>1. CASE x[1] # TWO_PAIRS
    BY <1>2, <1>4, <2>1 DEF Sorted
  <2>2. CASE x[1] = TWO_PAIRS
    <3>1. x[2] \in Rank /\ x[3] \in Rank /\ x[2] # x[3]
      BY <1>4, <2>2, AcceptedPairs
    <3>2. x[2] \in Int /\ x[3] \in Int
      BY <3>1, RanksFinite
    <3>3. PICK a \in Rank, b \in Rank : a < b /\ ParsedCombination(x) = <<TWO_PAIRS, a, b>>
      <4>1. CASE x[2] < x[3]
        <5>1. ParsedCombination(x) = <<TWO_PAIRS, x[2], x[3]>>
          BY <1>3, <2>2, <3>1, <4>1 DEF ParsedCombination
        <5> QED
          BY <3>1, <4>1, <5>1
      <4>2. CASE x[3] < x[2]
        <5>1. ParsedCombination(x) = <<TWO_PAIRS, x[3], x[2]>>
          BY <1>3, <2>2, <3>1, <4>2 DEF ParsedCombination
        <5> QED
          BY <3>1, <4>2, <5>1
      <4> QED
        BY <3>1, <3>2, <4>1, <4>2
    <3>4. a # b
      BY <3>3, RanksFinite
    <3> QED
      BY <3>3, <3>4 DEF Accepted, Sorted
  <2> QED
    BY <2>1, <2>2
<1>5. ASSUME NEW c, Accepted(c), Sorted(c) PROVE ParsedCombination(c) = c
  <2>1. CASE c[1] # TWO_PAIRS
    BY <1>2, <1>5, <2>1
  <2>2. CASE c[1] = TWO_PAIRS
    <3>1. c[2] \in Rank /\ c[3] \in Rank /\ c[2] < c[3] /\ c = <<TWO_PAIRS, c[2], c[3]>>
      BY <1>5, <2>2, AcceptedPairs DEF Sorted
    <3>2. LeastOf({c[2], c[3]}) = c[2] /\ GreatestOf({c[2], c[3]}) = c[3]
      BY <1>3, <3>1
    <3> QED
      BY <2>2, <3>1, <3>2 DEF ParsedCombination
  <2> QED
    BY <2>1, <2>2
<1> QED
  BY <1>1, <1>4, <1>5

LEMMA CheckIs ==
    ASSUME NEW h, NEW c
    PROVE  /\ c[1] = NOTHING => (check_combination(h, c) <=> TRUE)
           /\ c[1] = HIGH_CARD => (check_combination(h, c) <=> check_number(h, 1, c[2]))
           /\ c[1] = PAIR => (check_combination(h, c) <=> check_number(h, 2, c[2]))
           /\ c[1] = TWO_PAIRS => (check_combination(h, c) <=> check_two_pairs(h, c[2], c[3]))
           /\ c[1] = SET => (check_combination(h, c) <=> check_number(h, 3, c[2]))
           /\ c[1] = STRAIGHT => (check_combination(h, c) <=> check_straight(h, c[2]))
           /\ c[1] = FLUSH => (check_combination(h, c) <=> check_flush(h, c[2], c[3]))
           /\ c[1] = FULL_HOUSE => (check_combination(h, c) <=> check_full_house(h, c[2], c[3]))
           /\ c[1] = SQUARE => (check_combination(h, c) <=> check_number(h, 4, c[2]))
           /\ c[1] = STRAIGHT_FLUSH => (check_combination(h, c) <=> check_straight_flush(h, c[2], c[3]))
<1> USE DEF NOTHING, HIGH_CARD, PAIR, TWO_PAIRS, SET, STRAIGHT, FLUSH, FULL_HOUSE, SQUARE,
            STRAIGHT_FLUSH
<1>0. ASSUME c[1] = NOTHING PROVE check_combination(h, c) <=> TRUE
  BY <1>0 DEF check_combination
<1>1. ASSUME c[1] = HIGH_CARD PROVE check_combination(h, c) <=> check_number(h, 1, c[2])
  BY <1>1 DEF check_combination
<1>2. ASSUME c[1] = PAIR PROVE check_combination(h, c) <=> check_number(h, 2, c[2])
  BY <1>2 DEF check_combination
<1>3. ASSUME c[1] = TWO_PAIRS PROVE check_combination(h, c) <=> check_two_pairs(h, c[2], c[3])
  BY <1>3 DEF check_combination
<1>4. ASSUME c[1] = SET PROVE check_combination(h, c) <=> check_number(h, 3, c[2])
  BY <1>4 DEF check_combination
<1>5. ASSUME c[1] = STRAIGHT PROVE check_combination(h, c) <=> check_straight(h, c[2])
  BY <1>5 DEF check_combination
<1>6. ASSUME c[1] = FLUSH PROVE check_combination(h, c) <=> check_flush(h, c[2], c[3])
  BY <1>6 DEF check_combination
<1>7. ASSUME c[1] = FULL_HOUSE PROVE check_combination(h, c) <=> check_full_house(h, c[2], c[3])
  BY <1>7 DEF check_combination
<1>8. ASSUME c[1] = SQUARE PROVE check_combination(h, c) <=> check_number(h, 4, c[2])
  BY <1>8 DEF check_combination
<1>9. ASSUME c[1] = STRAIGHT_FLUSH PROVE check_combination(h, c) <=> check_straight_flush(h, c[2], c[3])
  BY <1>9 DEF check_combination
<1> QED
  BY <1>0, <1>1, <1>2, <1>3, <1>4, <1>5, <1>6, <1>7, <1>8, <1>9

LEMMA AcceptedParts ==
    ASSUME NEW c, Accepted(c)
    PROVE  /\ c[1] \in OneRank \cup TwoRanks \cup HAS_SUIT
           /\ c[2] \in Rank
           /\ c[1] \in TwoRanks => c[3] \in Rank
           /\ c[1] = TWO_PAIRS => c[2] # c[3]
           /\ c[1] \in HAS_SUIT => c[3] \in Suit
           /\ c[1] \in {STRAIGHT, STRAIGHT_FLUSH} => c[2] \in FIVE .. ACE
<1> DEFINE P == /\ c[1] \in OneRank \cup TwoRanks \cup HAS_SUIT
                /\ c[2] \in Rank
                /\ c[1] \in TwoRanks => c[3] \in Rank
                /\ c[1] \in HAS_SUIT => c[3] \in Suit
                /\ c[1] \in {STRAIGHT, STRAIGHT_FLUSH} => c[2] \in FIVE .. ACE
<1>1. \A r \in Rank : r >= FIVE => r \in FIVE .. ACE
  BY RanksFinite DEF FIVE
<1>2. /\ TWO_PAIRS \in TwoRanks /\ FULL_HOUSE \in TwoRanks /\ STRAIGHT \in OneRank
      /\ STRAIGHT \notin TwoRanks /\ STRAIGHT # FLUSH
  BY TypesApart DEF TwoRanks, OneRank, TWO_PAIRS, FULL_HOUSE, STRAIGHT
<1>3. ASSUME NEW t \in OneRank, NEW r \in Rank, c = <<t, r>>, t = STRAIGHT => r >= FIVE PROVE P
  <2>1. c[1] = t /\ c[2] = r
    BY <1>3
  <2>2. t \notin TwoRanks /\ t \notin HAS_SUIT
    BY TypesApart
  <2>3. t \in {STRAIGHT, STRAIGHT_FLUSH} => r \in FIVE .. ACE
    BY <1>1, <1>3, TypesApart
  <2> QED
    BY <2>1, <2>2, <2>3
<1>4. ASSUME NEW t \in TwoRanks, NEW a \in Rank, NEW b \in Rank, c = <<t, a, b>> PROVE P
  <2>1. c[1] = t /\ c[2] = a /\ c[3] = b
    BY <1>4
  <2>2. t \notin HAS_SUIT /\ t \notin {STRAIGHT, STRAIGHT_FLUSH}
    BY <1>2, TypesApart
  <2> QED
    BY <2>1, <2>2
<1>5. ASSUME NEW t \in HAS_SUIT, NEW r \in Rank, NEW s \in Suit, c = <<t, r, s>>,
             t = STRAIGHT_FLUSH => r >= FIVE PROVE P
  <2>1. c[1] = t /\ c[2] = r /\ c[3] = s
    BY <1>5
  <2>2. t \notin TwoRanks /\ t # STRAIGHT
    BY <1>2, TypesApart
  <2>3. t \in {STRAIGHT, STRAIGHT_FLUSH} => r \in FIVE .. ACE
    BY <1>1, <1>5, <2>2
  <2> QED
    BY <2>1, <2>2, <2>3
<1>6. P
  BY <1>2, <1>3, <1>4, <1>5, TypesApart, Zenon DEF Accepted
<1>7. c[1] = TWO_PAIRS => c[2] # c[3]
  BY AcceptedPairs
<1> QED
  BY <1>6, <1>7

-----------------------------------------------------------------------------
(* The search for each type, and for the best combination.                 *)

\* b is what the search for the type t finds: with the rank -1 if there is nothing,
\* else a true combination that no true bid of the type beats.  A flush that no bid
\* can name, of the rank below SEVEN, is a straight flush.
BestOf(h, t, b) ==
    /\ b[1] = t
    /\ b[2] # -1 => \/ Accepted(b) /\ check_combination(h, b)
                    \/ t = FLUSH /\ \E s \in Suit : check_straight_flush(h, 4, s)
    /\ b[2] # -1 /\ t = TWO_PAIRS => b[3] < b[2]
    /\ \A c : /\ Accepted(c) /\ Sorted(c) /\ ~Degenerate(c)
              /\ c[1] = t /\ check_combination(h, c)
              => b[2] # -1 /\ ~Weaker(b, c)

LEMMA NumberSearch ==
    ASSUME NEW h, IsHand(h), NEW t \in OneRank \ {STRAIGHT}, NEW n \in 1 .. 4,
           \A c : c[1] = t => (check_combination(h, c) <=> check_number(h, n, c[2]))
    PROVE  BestOf(h, t, <<t, find_best_of_number(h, n)>>)
<1> DEFINE r == find_best_of_number(h, n)
           b == <<t, r>>
<1>1. /\ r = -1 \/ (r \in Rank /\ check_number(h, n, r))
      /\ \A q \in Rank : check_number(h, n, q) => q <= r
  BY NumberFound
<1> HIDE DEF r
<1>2. b[1] = t /\ b[2] = r
  OBVIOUS
<1>3. r # -1 => Accepted(b) /\ check_combination(h, b)
  <2>1. r # -1 => Accepted(b)
    BY <1>1 DEF Accepted
  <2> QED
    BY <1>1, <1>2, <2>1
<1>4. t # TWO_PAIRS /\ t \notin TwoRanks /\ t # FLUSH
  BY TypesApart DEF TwoRanks
<1> HIDE DEF b
<1>5. ASSUME NEW c, Accepted(c), c[1] = t, check_combination(h, c) PROVE b[2] # -1 /\ ~Weaker(b, c)
  <2>1. c[2] \in Rank /\ check_number(h, n, c[2])
    BY <1>5, AcceptedParts
  <2>2. c[2] <= r /\ c[2] \in Int /\ 0 <= c[2] /\ r \in Int /\ t \in Int
    <3>1. c[2] <= r
      BY <1>1, <2>1
    <3>2. c[2] \in Int /\ 0 <= c[2]
      BY <2>1, RanksFinite
    <3>3. r \in Int
      <4>1. -1 \in Int
        OBVIOUS
      <4>2. \A q \in Rank : q \in Int
        BY RanksFinite
      <4> QED
        BY <1>1, <4>1, <4>2, Zenon
    <3>4. t \in Int
      BY TypesApart
    <3> QED
      BY <3>1, <3>2, <3>3, <3>4
  <2>3. r # -1 /\ ~(r < c[2]) /\ ~(t < t)
    BY <2>2
  <2> QED
    BY <1>2, <1>4, <1>5, <2>3 DEF Weaker
<1> QED
  BY <1>2, <1>3, <1>4, <1>5 DEF BestOf, b, r

LEMMA StraightSearch ==
    ASSUME NEW h, IsHand(h)
    PROVE  BestOf(h, STRAIGHT, <<STRAIGHT, find_best_straight(h)>>)
<1> DEFINE t == STRAIGHT
           r == find_best_straight(h)
           b == <<t, r>>
<1>1. /\ r = -1 \/ (r \in FIVE .. ACE /\ check_straight(h, r))
      /\ \A q \in FIVE .. ACE : check_straight(h, q) => q <= r
  BY StraightFound
<1> HIDE DEF r
<1>2. b[1] = t /\ b[2] = r
  OBVIOUS
<1>3. t \in OneRank /\ t # TWO_PAIRS /\ t \notin TwoRanks /\ t # FLUSH /\ t \in Int
  BY TypesApart DEF TwoRanks, OneRank
<1>4. r # -1 => Accepted(b) /\ check_combination(h, b)
  <2>1. \A q \in FIVE .. ACE : q \in Rank /\ q >= FIVE
    BY DeckAssumption DEF FIVE, Rank, ACE
  <2>2. r # -1 => Accepted(b)
    BY <1>1, <1>3, <2>1 DEF Accepted
  <2> QED
    BY <1>1, <1>2, <2>2, CheckIs
<1> HIDE DEF b
<1>5. ASSUME NEW c, Accepted(c), c[1] = t, check_combination(h, c) PROVE b[2] # -1 /\ ~Weaker(b, c)
  <2>1. c[2] \in FIVE .. ACE /\ check_straight(h, c[2])
    BY <1>5, AcceptedParts, CheckIs
  <2>2. c[2] <= r /\ c[2] \in Int /\ 0 <= c[2] /\ r \in Int
    BY <1>1, <2>1, RanksFinite DEF FIVE
  <2>3. r # -1 /\ ~(r < c[2]) /\ ~(t < t)
    BY <1>3, <2>2
  <2> QED
    BY <1>2, <1>3, <1>5, <2>3 DEF Weaker
<1> QED
  BY <1>2, <1>3, <1>4, <1>5 DEF BestOf, b, r

LEMMA NoPairFound == ASSUME NEW t \in Int PROVE <<t>> \o <<-1, -1>> = <<t, -1, -1>>
<1>1. -1 \in Int
  OBVIOUS
<1>2. \A q \in Int : <<t>> \o <<q, q>> = <<t, q, q>>
  BY ConcatOne
<1> QED
  BY <1>1, <1>2, Zenon

LEMMA TwoPairsSearch ==
    ASSUME NEW h, IsHand(h)
    PROVE  BestOf(h, TWO_PAIRS, <<TWO_PAIRS>> \o find_best_two_pairs(h))
<1> DEFINE t == TWO_PAIRS
           f == find_best_two_pairs(h)
           b == <<t>> \o f
<1>1. /\ f = <<-1, -1>> \/ \E r, q \in Rank : f = <<r, q>> /\ q < r /\ check_two_pairs(h, r, q)
      /\ \A r, q \in Rank : r # q /\ check_two_pairs(h, r, q) =>
            f[1] \in Rank /\ r <= f[1] /\ q <= f[1]
  BY TwoPairsFound
<1> HIDE DEF f
<1>2. t \in Int /\ t \in TwoRanks /\ t \notin OneRank /\ t # FLUSH /\ t # STRAIGHT_FLUSH
  BY TypesApart DEF TwoRanks
<1>3. CASE f = <<-1, -1>>
  <2>1. b = <<t, -1, -1>>
    BY <1>2, <1>3, NoPairFound
  <2>2. b[1] = t /\ b[2] = -1 /\ f[1] = -1
    BY <1>3, <2>1
  <2> HIDE DEF b, t
  <2>3. ASSUME NEW c, Accepted(c), c[1] = t PROVE ~check_combination(h, c)
    <3>1. c[2] \in Rank /\ c[3] \in Rank /\ c[2] # c[3]
      BY <2>3, AcceptedPairs DEF t
    <3>2. -1 \notin Rank
      BY RanksFinite
    <3>3. ~check_two_pairs(h, c[2], c[3])
      BY <1>1, <2>2, <3>1, <3>2
    <3> QED
      BY <2>3, <3>3, CheckIs DEF t
  <2>4. BestOf(h, t, b)
    BY <2>2, <2>3 DEF BestOf
  <2> QED
    BY <2>4 DEF b, t, f
<1>4. ASSUME NEW r \in Rank, NEW q \in Rank, f = <<r, q>>, q < r, check_two_pairs(h, r, q)
      PROVE  BestOf(h, t, b)
  <2>1. r \in Int /\ q \in Int
    BY RanksFinite
  <2>2. b = <<t, r, q>>
    BY <1>2, <1>4, <2>1, ConcatOne
  <2>3. b[1] = t /\ b[2] = r /\ b[3] = q /\ f[1] = r
    BY <1>4, <2>2
  <2>4. Accepted(b)
    <3>1. r # q
      BY <1>4, <2>1
    <3> QED
      BY <2>2, <3>1 DEF Accepted
  <2> HIDE DEF b
  <2>5. check_combination(h, b)
    BY <1>4, <2>3, CheckIs
  <2>6. ASSUME NEW c, Accepted(c), Sorted(c), c[1] = t, check_combination(h, c)
        PROVE  b[2] # -1 /\ ~Weaker(b, c)
    <3>1. c[2] \in Rank /\ c[3] \in Rank /\ c[2] < c[3] /\ c[2] # c[3]
      BY <2>6, AcceptedPairs DEF Sorted
    <3>2. check_two_pairs(h, c[2], c[3])
      BY <2>6, CheckIs
    <3>3. c[2] <= r /\ c[3] <= r
      BY <1>1, <2>3, <3>1, <3>2
    <3>4. c[2] \in Int /\ c[3] \in Int /\ r >= 0
      BY <3>1, RanksFinite
    <3>5. c[2] < r /\ r # -1
      BY <2>1, <3>1, <3>3, <3>4
    <3>6. ~(r < c[2]) /\ r # c[2] /\ ~(t < t)
      BY <1>2, <2>1, <3>4, <3>5
    <3> QED
      BY <1>2, <2>3, <2>6, <3>5, <3>6 DEF Weaker
  <2> HIDE DEF t
  <2> QED
    BY <1>4, <2>3, <2>4, <2>5, <2>6 DEF BestOf
<1> QED
  BY <1>1, <1>3, <1>4 DEF b, f

LEMMA FullHouseSearch ==
    ASSUME NEW h, IsHand(h)
    PROVE  BestOf(h, FULL_HOUSE, <<FULL_HOUSE>> \o find_best_full_house(h))
<1> DEFINE t == FULL_HOUSE
           f == find_best_full_house(h)
           b == <<t>> \o f
<1>1. /\ f = <<-1, -1>> \/ \E r, q \in Rank : f = <<r, q>> /\ r # q /\ check_full_house(h, r, q)
      /\ \A r, q \in Rank : r # q /\ check_full_house(h, r, q) =>
            /\ f[1] \in Rank /\ f[2] \in Rank
            /\ r < f[1] \/ (r = f[1] /\ q <= f[2])
  BY FullHouseFound
<1> HIDE DEF f
<1>2. /\ t \in Int /\ t \in TwoRanks /\ t \notin OneRank /\ t # FLUSH /\ t # STRAIGHT_FLUSH
      /\ t # TWO_PAIRS
  BY TypesApart DEF TwoRanks, FULL_HOUSE, TWO_PAIRS
<1>3. CASE f = <<-1, -1>>
  <2>1. b = <<t, -1, -1>>
    BY <1>2, <1>3, NoPairFound
  <2>2. b[1] = t /\ b[2] = -1 /\ f[1] = -1
    BY <1>3, <2>1
  <2> HIDE DEF b, t
  <2>3. ASSUME NEW c, Accepted(c), ~Degenerate(c), c[1] = t PROVE ~check_combination(h, c)
    <3>1. c[2] \in Rank /\ c[3] \in Rank /\ c[2] # c[3]
      BY <1>2, <2>3, AcceptedParts DEF t, Degenerate
    <3>2. -1 \notin Rank
      BY RanksFinite
    <3>3. ~check_full_house(h, c[2], c[3])
      BY <1>1, <2>2, <3>1, <3>2
    <3> QED
      BY <2>3, <3>3, CheckIs DEF t
  <2>4. BestOf(h, t, b)
    BY <2>2, <2>3 DEF BestOf
  <2> QED
    BY <2>4 DEF b, t, f
<1>4. ASSUME NEW r \in Rank, NEW q \in Rank, f = <<r, q>>, check_full_house(h, r, q)
      PROVE  BestOf(h, t, b)
  <2>1. r \in Int /\ q \in Int
    BY RanksFinite
  <2>2. b = <<t, r, q>>
    BY <1>2, <1>4, <2>1, ConcatOne
  <2>3. b[1] = t /\ b[2] = r /\ b[3] = q /\ f[1] = r /\ f[2] = q
    BY <1>4, <2>2
  <2>4. Accepted(b)
    BY <2>2 DEF Accepted
  <2> HIDE DEF b
  <2>5. check_combination(h, b)
    BY <1>4, <2>3, CheckIs
  <2>6. ASSUME NEW c, Accepted(c), ~Degenerate(c), c[1] = t, check_combination(h, c)
        PROVE  b[2] # -1 /\ ~Weaker(b, c)
    <3>1. c[2] \in Rank /\ c[3] \in Rank /\ c[2] # c[3]
      BY <1>2, <2>6, AcceptedParts DEF Degenerate
    <3>2. check_full_house(h, c[2], c[3])
      BY <2>6, CheckIs
    <3>3. c[2] < r \/ (c[2] = r /\ c[3] <= q)
      BY <1>1, <2>3, <3>1, <3>2
    <3>4. c[2] \in Int /\ c[3] \in Int /\ r >= 0
      BY <3>1, RanksFinite
    <3>5. ~(r < c[2]) /\ ~(r = c[2] /\ q < c[3]) /\ ~(t < t) /\ r # -1
      BY <1>2, <2>1, <3>3, <3>4
    <3> QED
      BY <1>2, <2>3, <2>6, <3>5 DEF Weaker
  <2> HIDE DEF t
  <2> QED
    BY <1>2, <1>4, <2>3, <2>4, <2>5, <2>6 DEF BestOf
<1> QED
  BY <1>1, <1>3, <1>4 DEF b, f

LEMMA FlushSearch ==
    ASSUME NEW h, IsHand(h)
    PROVE  BestOf(h, FLUSH, <<FLUSH>> \o find_best_flush(h))
<1> DEFINE t == FLUSH
           f == find_best_flush(h)
           b == <<t>> \o f
<1>1. /\ f = <<-1, -1>> \/ \E r \in 4 .. ACE, s \in Suit : f = <<r, s>> /\ check_flush(h, r, s)
      /\ \A r \in Rank, s \in Suit : check_flush(h, r, s) => f[1] \in Rank /\ f[1] <= r
      /\ f[1] = 4 => \E s \in Suit : check_straight_flush(h, 4, s)
  BY FlushFound
<1> HIDE DEF f
<1>2. /\ t \in Int /\ t \in HAS_SUIT /\ t \notin TwoRanks /\ t \notin OneRank /\ t # STRAIGHT_FLUSH
      /\ t # TWO_PAIRS
  BY TypesApart DEF TwoRanks
<1>3. CASE f = <<-1, -1>>
  <2>1. b = <<t, -1, -1>>
    BY <1>2, <1>3, NoPairFound
  <2>2. b[1] = t /\ b[2] = -1 /\ f[1] = -1
    BY <1>3, <2>1
  <2> HIDE DEF b, t
  <2>3. ASSUME NEW c, Accepted(c), c[1] = t PROVE ~check_combination(h, c)
    <3>1. c[2] \in Rank /\ c[3] \in Suit
      BY <1>2, <2>3, AcceptedParts
    <3>2. -1 \notin Rank
      BY RanksFinite
    <3>3. ~check_flush(h, c[2], c[3])
      BY <1>1, <2>2, <3>1, <3>2
    <3> QED
      BY <2>3, <3>3, CheckIs DEF t
  <2>4. BestOf(h, t, b)
    BY <2>2, <2>3 DEF BestOf
  <2> QED
    BY <2>4 DEF b, t, f
<1>4. ASSUME NEW r \in 4 .. ACE, NEW s \in Suit, f = <<r, s>>, check_flush(h, r, s)
      PROVE  BestOf(h, t, b)
  <2>1. r \in Int /\ s \in Int /\ r \in Rank
    BY DeckAssumption DEF Suit, Rank, ACE
  <2>2. b = <<t, r, s>>
    BY <1>2, <1>4, <2>1, ConcatOne
  <2>3. b[1] = t /\ b[2] = r /\ b[3] = s /\ f[1] = r
    BY <1>4, <2>2
  <2>4. r # 4 => Accepted(b)
    <3>1. r # 4 => r >= SEVEN
      BY <2>1 DEF SEVEN
    <3> QED
      BY <2>1, <2>2, <3>1 DEF Accepted
  <2> HIDE DEF b
  <2>5. check_combination(h, b)
    BY <1>4, <2>3, CheckIs
  <2>6. r = 4 => \E x \in Suit : check_straight_flush(h, 4, x)
    BY <1>1, <2>3
  <2>7. ASSUME NEW c, Accepted(c), c[1] = t, check_combination(h, c)
        PROVE  b[2] # -1 /\ ~Weaker(b, c)
    <3>1. c[2] \in Rank /\ c[3] \in Suit
      BY <1>2, <2>7, AcceptedParts
    <3>2. check_flush(h, c[2], c[3])
      BY <2>7, CheckIs
    <3>3. r <= c[2]
      BY <1>1, <2>3, <3>1, <3>2
    <3>4. c[2] \in Int
      BY <3>1, RanksFinite
    <3>5. ~(c[2] < r) /\ ~(t < t) /\ r # -1
      BY <1>2, <2>1, <3>3, <3>4
    <3> QED
      BY <1>2, <2>3, <2>7, <3>5 DEF Weaker
  <2>8. t = FLUSH
    OBVIOUS
  <2> HIDE DEF t
  <2> QED
    BY <1>2, <2>3, <2>4, <2>5, <2>6, <2>7, <2>8 DEF BestOf
<1> QED
  BY <1>1, <1>3, <1>4 DEF b, f

LEMMA StraightFlushSearch ==
    ASSUME NEW h, IsHand(h)
    PROVE  BestOf(h, STRAIGHT_FLUSH, <<STRAIGHT_FLUSH>> \o find_best_straight_flush(h))
<1> DEFINE t == STRAIGHT_FLUSH
           f == find_best_straight_flush(h)
           b == <<t>> \o f
<1>1. /\ \/ f = <<-1, -1>>
         \/ \E r \in FIVE .. ACE, s \in Suit : f = <<r, s>> /\ check_straight_flush(h, r, s)
      /\ \A r \in FIVE .. ACE, s \in Suit : check_straight_flush(h, r, s) => r <= f[1]
  BY StraightFlushFound
<1> HIDE DEF f
<1>2. t \in Int /\ t \in HAS_SUIT /\ t \notin TwoRanks /\ t # FLUSH /\ t # TWO_PAIRS
  BY TypesApart DEF TwoRanks
<1>3. ASSUME NEW c, Accepted(c), c[1] = t, check_combination(h, c)
      PROVE  c[2] \in Int /\ 0 <= c[2] /\ c[2] <= f[1]
  <2>1. c[2] \in FIVE .. ACE /\ c[3] \in Suit
    BY <1>2, <1>3, AcceptedParts
  <2>2. check_straight_flush(h, c[2], c[3])
    BY <1>3, CheckIs
  <2>3. c[2] <= f[1]
    BY <1>1, <2>1, <2>2
  <2> QED
    BY <2>1, <2>3, RanksFinite DEF FIVE
<1>4. CASE f = <<-1, -1>>
  <2>1. b = <<t, -1, -1>>
    BY <1>2, <1>4, NoPairFound
  <2>2. b[1] = t /\ b[2] = -1 /\ f[1] = -1
    BY <1>4, <2>1
  <2> HIDE DEF b, t
  <2>3. ASSUME NEW c, Accepted(c), c[1] = t PROVE ~check_combination(h, c)
    BY <1>3, <2>2, <2>3
  <2>4. BestOf(h, t, b)
    BY <2>2, <2>3 DEF BestOf
  <2> QED
    BY <2>4 DEF b, t, f
<1>5. ASSUME NEW r \in FIVE .. ACE, NEW s \in Suit, f = <<r, s>>, check_straight_flush(h, r, s)
      PROVE  BestOf(h, t, b)
  <2>1. r \in Int /\ s \in Int /\ r \in Rank /\ r >= FIVE /\ r >= 0
    BY DeckAssumption DEF Suit, Rank, ACE, FIVE
  <2>2. b = <<t, r, s>>
    BY <1>2, <1>5, <2>1, ConcatOne
  <2>3. b[1] = t /\ b[2] = r /\ b[3] = s /\ f[1] = r
    BY <1>5, <2>2
  <2>4. Accepted(b)
    BY <2>1, <2>2 DEF Accepted
  <2> HIDE DEF b
  <2>5. check_combination(h, b)
    BY <1>5, <2>3, CheckIs
  <2>6. ASSUME NEW c, Accepted(c), c[1] = t, check_combination(h, c)
        PROVE  b[2] # -1 /\ ~Weaker(b, c)
    <3>1. c[2] \in Int /\ c[2] <= r
      BY <1>3, <2>3, <2>6
    <3>2. ~(r < c[2]) /\ ~(t < t) /\ r # -1
      BY <1>2, <2>1, <3>1
    <3> QED
      BY <1>2, <2>3, <2>6, <3>2 DEF Weaker
  <2> HIDE DEF t
  <2> QED
    BY <1>2, <2>3, <2>4, <2>5, <2>6 DEF BestOf
<1> QED
  BY <1>1, <1>4, <1>5 DEF b, f

\* The searches of find_best_combination, by type.
Search(h, t) ==
    CASE t = HIGH_CARD -> <<HIGH_CARD, find_best_of_number(h, 1)>>
      [] t = PAIR -> <<PAIR, find_best_of_number(h, 2)>>
      [] t = TWO_PAIRS -> <<TWO_PAIRS>> \o find_best_two_pairs(h)
      [] t = SET -> <<SET, find_best_of_number(h, 3)>>
      [] t = STRAIGHT -> <<STRAIGHT, find_best_straight(h)>>
      [] t = FLUSH -> <<FLUSH>> \o find_best_flush(h)
      [] t = FULL_HOUSE -> <<FULL_HOUSE>> \o find_best_full_house(h)
      [] t = SQUARE -> <<SQUARE, find_best_of_number(h, 4)>>
      [] t = STRAIGHT_FLUSH -> <<STRAIGHT_FLUSH>> \o find_best_straight_flush(h)

LEMMA SearchIs ==
    ASSUME NEW h
    PROVE  /\ Search(h, HIGH_CARD) = <<HIGH_CARD, find_best_of_number(h, 1)>>
           /\ Search(h, PAIR) = <<PAIR, find_best_of_number(h, 2)>>
           /\ Search(h, TWO_PAIRS) = <<TWO_PAIRS>> \o find_best_two_pairs(h)
           /\ Search(h, SET) = <<SET, find_best_of_number(h, 3)>>
           /\ Search(h, STRAIGHT) = <<STRAIGHT, find_best_straight(h)>>
           /\ Search(h, FLUSH) = <<FLUSH>> \o find_best_flush(h)
           /\ Search(h, FULL_HOUSE) = <<FULL_HOUSE>> \o find_best_full_house(h)
           /\ Search(h, SQUARE) = <<SQUARE, find_best_of_number(h, 4)>>
           /\ Search(h, STRAIGHT_FLUSH) = <<STRAIGHT_FLUSH>> \o find_best_straight_flush(h)
BY DEF Search, NOTHING, HIGH_CARD, PAIR, TWO_PAIRS, SET, STRAIGHT, FLUSH, FULL_HOUSE, SQUARE,
       STRAIGHT_FLUSH

LEMMA TypeSymbols ==
    /\ TypeSymbol = 1 .. 9
    /\ TypeSymbol = {HIGH_CARD, PAIR, TWO_PAIRS, SET, STRAIGHT, FLUSH, FULL_HOUSE, SQUARE,
                     STRAIGHT_FLUSH}
BY DEF TypeSymbol, HIGH_CARD, PAIR, TWO_PAIRS, SET, STRAIGHT, FLUSH, FULL_HOUSE, SQUARE,
       STRAIGHT_FLUSH

LEMMA SearchFinds ==
    ASSUME NEW h, IsHand(h), NEW t \in TypeSymbol
    PROVE  BestOf(h, t, Search(h, t))
<1>1. /\ HIGH_CARD \in OneRank \ {STRAIGHT} /\ PAIR \in OneRank \ {STRAIGHT}
      /\ SET \in OneRank \ {STRAIGHT} /\ SQUARE \in OneRank \ {STRAIGHT}
      /\ 1 \in 1 .. 4 /\ 2 \in 1 .. 4 /\ 3 \in 1 .. 4 /\ 4 \in 1 .. 4
  BY DEF OneRank, HIGH_CARD, PAIR, SET, STRAIGHT, SQUARE
<1>2. CASE t = HIGH_CARD
  <2>1. \A c : c[1] = HIGH_CARD => (check_combination(h, c) <=> check_number(h, 1, c[2]))
    BY CheckIs
  <2>2. BestOf(h, HIGH_CARD, <<HIGH_CARD, find_best_of_number(h, 1)>>)
    BY <1>1, <2>1, NumberSearch
  <2> QED
    BY <1>2, <2>2, SearchIs
<1>3. CASE t = PAIR
  <2>1. \A c : c[1] = PAIR => (check_combination(h, c) <=> check_number(h, 2, c[2]))
    BY CheckIs
  <2>2. BestOf(h, PAIR, <<PAIR, find_best_of_number(h, 2)>>)
    BY <1>1, <2>1, NumberSearch
  <2> QED
    BY <1>3, <2>2, SearchIs
<1>4. CASE t = SET
  <2>1. \A c : c[1] = SET => (check_combination(h, c) <=> check_number(h, 3, c[2]))
    BY CheckIs
  <2>2. BestOf(h, SET, <<SET, find_best_of_number(h, 3)>>)
    BY <1>1, <2>1, NumberSearch
  <2> QED
    BY <1>4, <2>2, SearchIs
<1>5. CASE t = SQUARE
  <2>1. \A c : c[1] = SQUARE => (check_combination(h, c) <=> check_number(h, 4, c[2]))
    BY CheckIs
  <2>2. BestOf(h, SQUARE, <<SQUARE, find_best_of_number(h, 4)>>)
    BY <1>1, <2>1, NumberSearch
  <2> QED
    BY <1>5, <2>2, SearchIs
<1>6. CASE t = TWO_PAIRS
  BY <1>6, SearchIs, TwoPairsSearch
<1>7. CASE t = STRAIGHT
  BY <1>7, SearchIs, StraightSearch
<1>8. CASE t = FLUSH
  BY <1>8, SearchIs, FlushSearch
<1>9. CASE t = FULL_HOUSE
  BY <1>9, SearchIs, FullHouseSearch
<1>10. CASE t = STRAIGHT_FLUSH
  BY <1>10, SearchIs, StraightFlushSearch
<1> QED
  BY <1>2, <1>3, <1>4, <1>5, <1>6, <1>7, <1>8, <1>9, <1>10, TypeSymbols

LEMMA SecondOf ==
    ASSUME NEW t \in Int, NEW f, \E a, b \in Int : f = <<a, b>>
    PROVE  (<<t>> \o f)[2] = f[1]
<1>1. PICK a \in Int, b \in Int : f = <<a, b>>
  OBVIOUS
<1>2. <<t>> \o f = <<t, a, b>>
  BY <1>1, ConcatOne
<1> QED
  BY <1>1, <1>2

\* find_best_combination takes the search of the highest type that finds something.
LEMMA BestIsSearch ==
    ASSUME NEW h, IsHand(h)
    PROVE  LET best == find_best_combination(h) IN
           \/ best = <<NOTHING>> /\ \A t \in TypeSymbol : Search(h, t)[2] = -1
           \/ \E t \in TypeSymbol :
                 /\ best = Search(h, t) /\ best[2] # -1
                 /\ \A q \in TypeSymbol : q > t => Search(h, q)[2] = -1
<1> DEFINE S(t) == Search(h, t)
           best == find_best_combination(h)
<1>1. /\ -1 \in Int /\ Rank \subseteq Int /\ Suit \subseteq Int /\ FIVE .. ACE \subseteq Int
      /\ 4 .. ACE \subseteq Int
  BY RanksFinite DEF FIVE
<1>2. /\ STRAIGHT_FLUSH \in Int /\ FLUSH \in Int /\ FULL_HOUSE \in Int /\ TWO_PAIRS \in Int
  BY DEF STRAIGHT_FLUSH, FLUSH, FULL_HOUSE, TWO_PAIRS
<1>3. \E a, b \in Int : find_best_straight_flush(h) = <<a, b>>
  BY <1>1, StraightFlushFound
<1>4. \E a, b \in Int : find_best_flush(h) = <<a, b>>
  BY <1>1, FlushFound
<1>5. \E a, b \in Int : find_best_full_house(h) = <<a, b>>
  BY <1>1, FullHouseFound
<1>6. \E a, b \in Int : find_best_two_pairs(h) = <<a, b>>
  BY <1>1, TwoPairsFound
<1>7. /\ S(STRAIGHT_FLUSH)[2] = find_best_straight_flush(h)[1]
      /\ S(FLUSH)[2] = find_best_flush(h)[1]
      /\ S(FULL_HOUSE)[2] = find_best_full_house(h)[1]
      /\ S(TWO_PAIRS)[2] = find_best_two_pairs(h)[1]
  <2>1. (<<STRAIGHT_FLUSH>> \o find_best_straight_flush(h))[2] = find_best_straight_flush(h)[1]
    BY <1>2, <1>3, SecondOf
  <2>2. (<<FLUSH>> \o find_best_flush(h))[2] = find_best_flush(h)[1]
    BY <1>2, <1>4, SecondOf
  <2>3. (<<FULL_HOUSE>> \o find_best_full_house(h))[2] = find_best_full_house(h)[1]
    BY <1>2, <1>5, SecondOf
  <2>4. (<<TWO_PAIRS>> \o find_best_two_pairs(h))[2] = find_best_two_pairs(h)[1]
    BY <1>2, <1>6, SecondOf
  <2> QED
    BY <2>1, <2>2, <2>3, <2>4, SearchIs, Zenon
<1>8. /\ S(HIGH_CARD)[2] = find_best_of_number(h, 1) /\ S(PAIR)[2] = find_best_of_number(h, 2)
      /\ S(SET)[2] = find_best_of_number(h, 3) /\ S(SQUARE)[2] = find_best_of_number(h, 4)
      /\ S(STRAIGHT)[2] = find_best_straight(h)
  BY SearchIs
<1>9. best = IF S(STRAIGHT_FLUSH)[2] # -1 THEN S(STRAIGHT_FLUSH)
             ELSE IF S(SQUARE)[2] # -1 THEN S(SQUARE)
             ELSE IF S(FULL_HOUSE)[2] # -1 THEN S(FULL_HOUSE)
             ELSE IF S(FLUSH)[2] # -1 THEN S(FLUSH)
             ELSE IF S(STRAIGHT)[2] # -1 THEN S(STRAIGHT)
             ELSE IF S(SET)[2] # -1 THEN S(SET)
             ELSE IF S(TWO_PAIRS)[2] # -1 THEN S(TWO_PAIRS)
             ELSE IF S(PAIR)[2] # -1 THEN S(PAIR)
             ELSE IF S(HIGH_CARD)[2] # -1 THEN S(HIGH_CARD)
             ELSE <<NOTHING>>
  BY <1>7, <1>8, SearchIs DEF find_best_combination
<1> HIDE DEF S, best
<1>10. best = IF S(9)[2] # -1 THEN S(9) ELSE IF S(8)[2] # -1 THEN S(8)
              ELSE IF S(7)[2] # -1 THEN S(7) ELSE IF S(6)[2] # -1 THEN S(6)
              ELSE IF S(5)[2] # -1 THEN S(5) ELSE IF S(4)[2] # -1 THEN S(4)
              ELSE IF S(3)[2] # -1 THEN S(3) ELSE IF S(2)[2] # -1 THEN S(2)
              ELSE IF S(1)[2] # -1 THEN S(1) ELSE <<NOTHING>>
  BY <1>9 DEF HIGH_CARD, PAIR, TWO_PAIRS, SET, STRAIGHT, FLUSH, FULL_HOUSE, SQUARE, STRAIGHT_FLUSH
<1>11. CASE \A t \in 1 .. 9 : S(t)[2] = -1
  <2>1. best = <<NOTHING>>
    BY <1>10, <1>11
  <2> QED
    BY <1>11, <2>1, TypeSymbols DEF S, best
<1>12. ASSUME NEW t \in 1 .. 9, S(t)[2] # -1, \A q \in 1 .. 9 : q > t => S(q)[2] = -1
       PROVE  best = S(t)
  BY <1>10, <1>12
<1>13. CASE \E t \in 1 .. 9 : S(t)[2] # -1
  <2> DEFINE T == {t \in 1 .. 9 : S(t)[2] # -1}
  <2>1. T # {} /\ T \in SUBSET (1 .. 9) /\ T \in SUBSET Int
    BY <1>13
  <2>2. IsFiniteSet(T)
    <3>1. IsFiniteSet(1 .. 9)
      <4>1. 1 \in Int /\ 9 \in Int
        OBVIOUS
      <4> QED
        BY <4>1, FS_Interval, Zenon
    <3> QED
      BY <2>1, <3>1, FS_Subset
  <2>3. GreatestOf(T) \in T /\ \A q \in T : q <= GreatestOf(T)
    <3> HIDE DEF T
    <3> QED
      BY <2>1, <2>2, Extremes
  <2>4. PICK t \in 1 .. 9 : S(t)[2] # -1 /\ \A q \in T : q <= t
    BY <2>3
  <2>5. \A q \in 1 .. 9 : q > t => S(q)[2] = -1
    <3> TAKE q \in 1 .. 9
    <3>1. q \in T => q <= t
      BY <2>4
    <3> QED
      BY <3>1
  <2>6. best = S(t)
    BY <1>12, <2>4, <2>5
  <2> QED
    BY <2>4, <2>5, <2>6, TypeSymbols DEF S, best
<1> QED
  BY <1>11, <1>13

\* The search for a full house finds no degenerate one.
LEMMA FullHouseApart ==
    ASSUME NEW h, IsHand(h), Search(h, FULL_HOUSE)[2] # -1
    PROVE  Search(h, FULL_HOUSE)[2] # Search(h, FULL_HOUSE)[3]
<1> DEFINE f == find_best_full_house(h)
           b == <<FULL_HOUSE>> \o f
<1>0. Search(h, FULL_HOUSE) = b
  BY SearchIs
<1>1. f = <<-1, -1>> \/ \E r, q \in Rank : f = <<r, q>> /\ r # q
  BY FullHouseFound
<1> HIDE DEF f
<1>2. FULL_HOUSE \in Int
  BY DEF FULL_HOUSE
<1>3. f # <<-1, -1>>
  <2> SUFFICES ASSUME f = <<-1, -1>> PROVE FALSE
    OBVIOUS
  <2>1. b = <<FULL_HOUSE, -1, -1>>
    BY <1>2, NoPairFound
  <2>2. b[2] = -1
    BY <2>1
  <2> QED
    BY <1>0, <2>2
<1>4. PICK r \in Rank, q \in Rank : f = <<r, q>> /\ r # q
  BY <1>1, <1>3
<1>5. b = <<FULL_HOUSE, r, q>>
  BY <1>2, <1>4, ConcatOne, RanksFinite
<1> HIDE DEF b
<1>6. b[2] = r /\ b[3] = q
  BY <1>5
<1> QED
  BY <1>0, <1>4, <1>6

LEMMA BestIs ==
    ASSUME NEW h, IsHand(h)
    PROVE  LET best == find_best_combination(h) IN
           /\ \/ best = <<NOTHING>>
              \/ /\ Accepted(best) /\ check_combination(h, best)
                 /\ best[1] = TWO_PAIRS => best[3] < best[2]
           /\ ~Degenerate(best)
           /\ \A c : Accepted(c) /\ Sorted(c) /\ ~Degenerate(c) /\ check_combination(h, c) =>
                 best # <<NOTHING>> /\ ~Weaker(best, c)
<1> DEFINE best == find_best_combination(h)
<1> HIDE DEF best
<1>1. \A c : Accepted(c) => c[1] \in TypeSymbol
  BY AcceptedParts, SizesAre
<1>2. CASE best = <<NOTHING>> /\ \A t \in TypeSymbol : Search(h, t)[2] = -1
  <2>1. ASSUME NEW c, Accepted(c), Sorted(c), ~Degenerate(c) PROVE ~check_combination(h, c)
    <3>1. BestOf(h, c[1], Search(h, c[1])) /\ Search(h, c[1])[2] = -1
      BY <1>1, <1>2, <2>1, SearchFinds
    <3> QED
      BY <2>1, <3>1 DEF BestOf
  <2>2. ~Degenerate(best)
    <3>1. best[1] = NOTHING
      BY <1>2
    <3> QED
      BY <3>1 DEF Degenerate, NOTHING, FULL_HOUSE
  <2> QED
    BY <1>2, <2>1, <2>2 DEF best
<1>3. ASSUME NEW t \in TypeSymbol, best = Search(h, t), best[2] # -1,
             \A q \in TypeSymbol : q > t => Search(h, q)[2] = -1
      PROVE  /\ Accepted(best) /\ check_combination(h, best)
             /\ best[1] = TWO_PAIRS => best[3] < best[2]
             /\ ~Degenerate(best)
             /\ \A c : Accepted(c) /\ Sorted(c) /\ ~Degenerate(c) /\ check_combination(h, c) =>
                   best # <<NOTHING>> /\ ~Weaker(best, c)
  <2>1. BestOf(h, t, best)
    BY <1>3, SearchFinds
  <2>2. best[1] = t
    BY <2>1 DEF BestOf
  <2>3. \A c : /\ Accepted(c) /\ Sorted(c) /\ ~Degenerate(c)
               /\ c[1] \in TypeSymbol /\ check_combination(h, c)
               => ~(c[1] > t)
    <3> SUFFICES ASSUME NEW c, Accepted(c), Sorted(c), ~Degenerate(c), c[1] \in TypeSymbol,
                        check_combination(h, c), c[1] > t
                 PROVE  FALSE
      OBVIOUS
    <3>1. BestOf(h, c[1], Search(h, c[1])) /\ Search(h, c[1])[2] = -1
      BY <1>3, SearchFinds
    <3> QED
      BY <3>1 DEF BestOf
  <2>4. ~(t = FLUSH /\ \E s \in Suit : check_straight_flush(h, 4, s))
    <3> SUFFICES ASSUME t = FLUSH, NEW s \in Suit, check_straight_flush(h, 4, s) PROVE FALSE
      OBVIOUS
    <3> DEFINE c == <<STRAIGHT_FLUSH, 4, s>>
    <3>1. c[1] = STRAIGHT_FLUSH /\ c[2] = 4 /\ c[3] = s
      OBVIOUS
    <3>2. 4 \in Rank /\ 4 >= FIVE
      BY DeckAssumption DEF Rank, FIVE
    <3>3. Accepted(c)
      BY <3>2 DEF Accepted
    <3> HIDE DEF c
    <3>4. check_combination(h, c)
      BY <3>1, CheckIs
    <3>5. Sorted(c) /\ ~Degenerate(c)
      BY <3>1 DEF Sorted, Degenerate, STRAIGHT_FLUSH, TWO_PAIRS, FULL_HOUSE
    <3>6. c[1] \in TypeSymbol /\ c[1] > t
      BY <3>1, TypeSymbols DEF STRAIGHT_FLUSH, FLUSH
    <3> QED
      BY <2>3, <3>3, <3>4, <3>5, <3>6
  <2>5. Accepted(best) /\ check_combination(h, best)
    BY <1>3, <2>1, <2>4 DEF BestOf
  <2>6. best[1] = TWO_PAIRS => best[3] < best[2]
    BY <1>3, <2>1, <2>2 DEF BestOf
  <2>7. best # <<NOTHING>>
    <3>1. NOTHING \notin TypeSymbol /\ (best = <<NOTHING>> => best[1] = NOTHING)
      BY TypeSymbols DEF NOTHING
    <3> QED
      BY <2>2, <3>1
  <2>8. ASSUME NEW c, Accepted(c), Sorted(c), ~Degenerate(c), check_combination(h, c)
        PROVE  ~Weaker(best, c)
    <3>1. c[1] \in TypeSymbol
      BY <1>1, <2>8
    <3>2. ~(t < c[1]) /\ t \in Int /\ c[1] \in Int
      BY <2>3, <2>8, <3>1, TypeSymbols
    <3>3. CASE c[1] = t
      BY <2>1, <2>8, <3>3 DEF BestOf
    <3>4. CASE c[1] # t
      BY <2>2, <3>2, <3>4 DEF Weaker
    <3> QED
      BY <3>3, <3>4
  <2>9. ~Degenerate(best)
    <3>1. best[1] = FULL_HOUSE => best = Search(h, FULL_HOUSE)
      BY <1>3, <2>2
    <3> QED
      BY <1>3, <3>1, FullHouseApart DEF Degenerate
  <2> QED
    BY <2>5, <2>6, <2>7, <2>8, <2>9
<1>4. \/ best = <<NOTHING>> /\ \A t \in TypeSymbol : Search(h, t)[2] = -1
      \/ \E t \in TypeSymbol :
            /\ best = Search(h, t) /\ best[2] # -1
            /\ \A q \in TypeSymbol : q > t => Search(h, q)[2] = -1
  BY BestIsSearch DEF best
<1> QED
  BY <1>2, <1>3, <1>4 DEF best

\* Two combinations neither of which is weaker are the same up to the suit.
LEMMA SameWithoutSuit ==
    ASSUME NEW u, Shaped(u), NEW v, Shaped(v), ~Weaker(u, v), ~Weaker(v, u)
    PROVE  remove_suit(u) = remove_suit(v)
<1>1. \A c : Shaped(c) => c[1] \in Int
  BY ShapeOf, TypesApart
<1>2. u[1] = v[1]
  BY <1>1 DEF Weaker
<1>3. CASE u[1] = NOTHING
  BY <1>2, <1>3, ShapeOf
<1>4. CASE u[1] \in OneRank
  <2>1. PICK a \in Rank : u = <<u[1], a>>
    BY <1>4, ShapeOf
  <2>2. PICK b \in Rank : v = <<u[1], b>>
    BY <1>2, <1>4, ShapeOf
  <2>3. u[2] = a /\ v[2] = b
    BY <2>1, <2>2
  <2>4. ~(a < b) /\ ~(b < a)
    BY <1>2, <1>4, <2>3 DEF Weaker
  <2>5. a = b
    BY <2>4, RanksFinite
  <2> QED
    BY <2>1, <2>2, <2>5, Zenon
<1>5. CASE u[1] \in TwoRanks
  <2>1. PICK a \in Rank, b \in Rank : u = <<u[1], a, b>>
    BY <1>5, ShapeOf
  <2>2. PICK c \in Rank, d \in Rank : v = <<u[1], c, d>>
    BY <1>2, <1>5, ShapeOf
  <2>3. u[2] = a /\ v[2] = c /\ u[3] = b /\ v[3] = d
    BY <2>1, <2>2
  <2>4. ~(a < c \/ (a = c /\ b < d)) /\ ~(c < a \/ (c = a /\ d < b))
    BY <1>2, <1>5, <2>3 DEF Weaker
  <2>5. a = c /\ b = d
    BY <2>4, RanksFinite
  <2> QED
    BY <2>1, <2>2, <2>5, Zenon
<1>6. CASE u[1] \in HAS_SUIT
  <2>1. PICK a \in Rank, s \in Suit : u = <<u[1], a, s>>
    BY <1>6, ShapeOf
  <2>2. PICK b \in Rank, x \in Suit : v = <<u[1], b, x>>
    BY <1>2, <1>6, ShapeOf
  <2>3. u[2] = a /\ v[2] = b
    BY <2>1, <2>2
  <2>4. ~(a < b) /\ ~(b < a)
    BY <1>2, <1>6, <2>3, TypesApart DEF Weaker
  <2>5. a = b
    BY <2>4, RanksFinite
  <2>6. remove_suit(<<u[1], a, s>>) = <<u[1], a>> /\ remove_suit(<<u[1], b, x>>) = <<u[1], b>>
    BY <1>6, RemoveSuitOf
  <2> QED
    BY <2>1, <2>2, <2>5, <2>6, Zenon
<1> QED
  BY <1>3, <1>4, <1>5, <1>6, ShapeOf, TypesApart

\* less_combination orders the bids, those apart that differ in the suit alone: /m, which
\* accepts only what is greater than the current combination (game.cpp:441), can never
\* return to a bid of the round.
THEOREM LessIsStrictOrder ==
    \A u, v, w \in Bids :
        /\ ~less_combination(u, u)
        /\ less_combination(u, v) /\ less_combination(v, w) => less_combination(u, w)
        /\ less_combination(u, v) \/ less_combination(v, u) <=> remove_suit(u) # remove_suit(v)
<1> SUFFICES ASSUME NEW u \in Bids, NEW v \in Bids, NEW w \in Bids
             PROVE  /\ ~less_combination(u, u)
                    /\ less_combination(u, v) /\ less_combination(v, w) => less_combination(u, w)
                    /\ less_combination(u, v) \/ less_combination(v, u)
                          <=> remove_suit(u) # remove_suit(v)
  OBVIOUS
<1>1. \A c \in Bids : Accepted(c) /\ Shaped(c)
  BY BidsAre, AcceptedIsShaped
<1>2. \A c, d \in Bids : less_combination(c, d) <=> Weaker(c, d)
  BY <1>1, WeakerIs
<1>3. \A c \in Bids : /\ c[1] \in Int /\ c[2] \in Int /\ (c[1] \in TwoRanks => c[3] \in Int)
  <2> TAKE c \in Bids
  <2>0. c[1] \in OneRank \cup TwoRanks \cup HAS_SUIT
    BY <1>1, AcceptedParts
  <2>1. c[1] \in Int
    BY <2>0, TypesApart
  <2>2. c[2] \in Int /\ (c[1] \in TwoRanks => c[3] \in Int)
    BY <1>1, AcceptedParts, RanksFinite
  <2> QED
    BY <2>1, <2>2
<1>4. \A c \in Bids : ~Weaker(c, c)
  <2> TAKE c \in Bids
  <2> QED
    BY <1>3 DEF Weaker
<1>5. Weaker(u, v) /\ Weaker(v, w) => Weaker(u, w)
  <2> SUFFICES ASSUME Weaker(u, v), Weaker(v, w) PROVE Weaker(u, w)
    OBVIOUS
  <2>1. /\ u[1] \in Int /\ u[2] \in Int /\ v[1] \in Int /\ v[2] \in Int
        /\ w[1] \in Int /\ w[2] \in Int
    BY <1>3
  <2>2. u[1] <= v[1] /\ v[1] <= w[1]
    BY <2>1 DEF Weaker
  <2>3. CASE u[1] < w[1]
    BY <2>3 DEF Weaker
  <2>4. CASE u[1] = v[1] /\ v[1] = w[1]
    <3>1. ~(u[1] < v[1]) /\ ~(v[1] < w[1])
      BY <2>1, <2>4
    <3>2. CASE u[1] \in OneRank \cup {STRAIGHT_FLUSH}
      <4>1. u[1] \notin TwoRanks /\ u[1] # FLUSH
        BY <3>2, TypesApart
      <4>2. u[2] < v[2] /\ v[2] < w[2]
        BY <2>4, <3>1, <4>1 DEF Weaker
      <4>3. u[2] < w[2]
        BY <2>1, <4>2
      <4> QED
        BY <2>4, <3>2, <4>3 DEF Weaker
    <3>3. CASE u[1] = FLUSH
      <4>1. u[1] \notin TwoRanks /\ u[1] \notin OneRank \cup {STRAIGHT_FLUSH}
        BY <3>3, TypesApart
      <4>2. v[2] < u[2] /\ w[2] < v[2]
        BY <2>4, <3>1, <4>1 DEF Weaker
      <4>3. w[2] < u[2]
        BY <2>1, <4>2
      <4> QED
        BY <2>4, <3>3, <4>3 DEF Weaker
    <3>4. CASE u[1] \in TwoRanks
      <4>1. u[1] # FLUSH /\ u[1] \notin OneRank \cup {STRAIGHT_FLUSH}
        BY <3>4, TypesApart
      <4>2. /\ u[2] < v[2] \/ (u[2] = v[2] /\ u[3] < v[3])
            /\ v[2] < w[2] \/ (v[2] = w[2] /\ v[3] < w[3])
        BY <2>4, <3>1, <4>1 DEF Weaker
      <4>3. u[3] \in Int /\ v[3] \in Int /\ w[3] \in Int
        BY <1>3, <2>4, <3>4
      <4>4. u[2] < w[2] \/ (u[2] = w[2] /\ u[3] < w[3])
        BY <2>1, <4>2, <4>3
      <4> QED
        BY <2>4, <3>4, <4>4 DEF Weaker
    <3> QED
      BY <3>1, <3>2, <3>3, <3>4 DEF Weaker
  <2> QED
    BY <2>1, <2>2, <2>3, <2>4
<1>6. remove_suit(u) = remove_suit(v) => ~Weaker(u, v) /\ ~Weaker(v, u)
  <2> SUFFICES ASSUME remove_suit(u) = remove_suit(v)
               PROVE  ~less_combination(u, v) /\ ~less_combination(v, u)
    BY <1>2
  <2>1. OrderKey(u) = OrderKey(v)
    BY DEF OrderKey
  <2>2. ~less_combination(u, u)
    BY <1>2, <1>4
  <2> QED
    BY <2>1, <2>2 DEF less_combination
<1>7. ~Weaker(u, v) /\ ~Weaker(v, u) => remove_suit(u) = remove_suit(v)
  BY <1>1, SameWithoutSuit
<1> QED
  BY <1>2, <1>4, <1>5, <1>6, <1>7

LEMMA TrueBids ==
    ASSUME NEW h
    PROVE  \A c : c \in True(h) <=> Accepted(c) /\ Sorted(c) /\ check_combination(h, c)
BY BidsAre DEF True, AllBids

-----------------------------------------------------------------------------
(* The theorems about every deal.                                          *)

\* Only cards of the deck are dealt.
LEMMA OnlyCards == Spec => [](cards \in SUBSET Card)
<1>1. Init => cards \in SUBSET Card
  BY DEF Init
<1>2. cards \in SUBSET Card /\ [Next]_cards => (cards \in SUBSET Card)'
  BY DEF Next
<1> QED
  BY <1>1, <1>2, PTL DEF Spec

LEMMA BestIsInHandOf == cards \in SUBSET Card => BestIsInHand
<1> SUFFICES ASSUME cards \in SUBSET Card, cards # {}
             PROVE  /\ check_combination(Hand(cards), find_best_combination(Hand(cards)))
                    /\ ParseError(format_m_command(find_best_combination(Hand(cards)))) = ""
  BY DEF BestIsInHand
<1> DEFINE h == Hand(cards)
           best == find_best_combination(h)
<1>1. IsHand(h)
  BY HandIs
<1>2. PICK r \in Rank : check_number(h, 1, r)
  BY SomeCard
<1> DEFINE c == <<HIGH_CARD, r>>
<1>3. c[1] = HIGH_CARD /\ c[2] = r
  OBVIOUS
<1>4. Accepted(c)
  BY DEF Accepted, OneRank, HIGH_CARD, STRAIGHT
<1> HIDE DEF c, h
<1>5. check_combination(h, c)
  BY <1>2, <1>3, CheckIs
<1>6. Sorted(c) /\ ~Degenerate(c)
  BY <1>3 DEF Sorted, Degenerate, HIGH_CARD, TWO_PAIRS, FULL_HOUSE
<1>7. best # <<NOTHING>>
  BY <1>1, <1>4, <1>5, <1>6, BestIs
<1>8. Accepted(best) /\ check_combination(h, best)
  BY <1>1, <1>7, BestIs
<1> QED
  BY <1>8, AcceptedAre DEF format_m_command, h

LEMMA NothingBeatsBestOf == cards \in SUBSET Card => NothingBeatsBest
<1> DEFINE h == Hand(cards)
           best == find_best_combination(h)
<1> SUFFICES ASSUME cards \in SUBSET Card, NEW c \in True(h), less_combination(best, c)
             PROVE  Degenerate(c)
  BY DEF NothingBeatsBest, Degenerate
<1>1. IsHand(h)
  BY HandIs
<1> HIDE DEF h
<1>2. Accepted(c) /\ Sorted(c) /\ check_combination(h, c)
  BY TrueBids
<1>3. Shaped(best) /\ Shaped(c)
  BY <1>1, <1>2, BestIs, AcceptedIsShaped DEF Shaped
<1>4. Weaker(best, c)
  BY <1>3, WeakerIs
<1> QED
  BY <1>1, <1>2, <1>4, BestIs

LEMMA BlockIsJudgedRightOf == cards \in SUBSET Card => BlockIsJudgedRight
<1> DEFINE h == Hand(cards)
           best == find_best_combination(h)
           T == True(h)
<1> SUFFICES ASSUME cards \in SUBSET Card, NEW c \in T, c[1] # TWO_PAIRS
             PROVE  is_best_combination(h, c) <=>
                       /\ ~Degenerate(c)
                       /\ \A d \in T : ~Degenerate(d) => ~less_combination(c, d)
  BY DEF BlockIsJudgedRight
<1>1. IsHand(h)
  BY HandIs
<1> HIDE DEF h
<1>2. \A d : d \in T <=> Accepted(d) /\ Sorted(d) /\ check_combination(h, d)
  BY TrueBids
<1> HIDE DEF T
<1>3. ~Degenerate(best)
  BY <1>1, BestIs
<1>4. is_best_combination(h, c) <=> remove_suit(best) = remove_suit(c)
  BY <1>2 DEF is_best_combination, best
<1>5. \A d \in T : ~Degenerate(d) => best # <<NOTHING>> /\ ~Weaker(best, d)
  BY <1>1, <1>2, BestIs
<1>6. best # <<NOTHING>> =>
          /\ Accepted(best) /\ check_combination(h, best)
          /\ best[1] = TWO_PAIRS => best[3] < best[2]
  BY <1>1, BestIs
<1> HIDE DEF best
<1>7. Shaped(best) /\ \A d \in T : Shaped(d)
  <2>1. Shaped(<<NOTHING>>)
    BY DEF Shaped
  <2>2. best # <<NOTHING>> => Shaped(best)
    BY <1>6, AcceptedIsShaped
  <2>3. \A d \in T : Shaped(d)
    BY <1>2, AcceptedIsShaped
  <2> QED
    BY <2>1, <2>2, <2>3, Zenon
<1>8. CASE Degenerate(c)
  <2>1. c[1] = FULL_HOUSE /\ c[2] = c[3]
    BY <1>8 DEF Degenerate
  <2>2. remove_suit(c) = c
    BY <2>1, TypesApart DEF remove_suit, FULL_HOUSE, HAS_SUIT, FLUSH, STRAIGHT_FLUSH
  <2>3. remove_suit(best) # c
    <3>1. CASE best[1] \in HAS_SUIT
      <4>1. PICK r \in Rank, s \in Suit : best = <<best[1], r, s>>
        BY <1>7, <3>1, ShapeOf
      <4>2. remove_suit(best) = <<best[1], r>>
        BY <3>1, <4>1, RemoveSuitOf
      <4>3. remove_suit(best)[1] # FULL_HOUSE
        BY <3>1, <4>2 DEF HAS_SUIT, FLUSH, STRAIGHT_FLUSH, FULL_HOUSE
      <4> QED
        BY <2>1, <4>3
    <3>2. CASE best[1] \notin HAS_SUIT
      <4>1. remove_suit(best) = best
        BY <3>2 DEF remove_suit
      <4> QED
        BY <1>3, <1>8, <4>1
    <3> QED
      BY <3>1, <3>2
  <2> QED
    BY <1>4, <1>8, <2>2, <2>3
<1>9. CASE ~Degenerate(c)
  <2>0. Accepted(best) /\ check_combination(h, best) /\ (best[1] = TWO_PAIRS => best[3] < best[2])
    <3>1. best # <<NOTHING>>
      BY <1>5, <1>9
    <3> QED
      BY <1>6, <3>1
  <2>1. ASSUME remove_suit(best) = remove_suit(c), NEW d \in T, ~Degenerate(d)
        PROVE  ~less_combination(c, d)
    <3>1. OrderKey(best) = OrderKey(c)
      BY <2>1 DEF OrderKey
    <3>2. ~less_combination(best, d)
      BY <1>5, <1>7, <2>1, WeakerIs
    <3> QED
      BY <3>1, <3>2 DEF less_combination
  <2>2. ASSUME \A d \in T : ~Degenerate(d) => ~less_combination(c, d)
        PROVE  remove_suit(best) = remove_suit(c)
    <3>1. \A d \in T : ~Degenerate(d) => ~Weaker(c, d)
      BY <1>7, <2>2, WeakerIs
    <3>2. ~Weaker(best, c)
      BY <1>5, <1>9
    <3>3. best[1] # TWO_PAIRS
      <4> SUFFICES ASSUME best[1] = TWO_PAIRS PROVE FALSE
        OBVIOUS
      <4> DEFINE d == <<TWO_PAIRS, best[3], best[2]>>
      <4>1. best[2] \in Rank /\ best[3] \in Rank /\ best[2] # best[3] /\ best[3] < best[2]
        BY <2>0, AcceptedPairs
      <4>2. Accepted(d)
        BY <4>1 DEF Accepted
      <4>3. d[1] = TWO_PAIRS /\ d[2] = best[3] /\ d[3] = best[2]
        OBVIOUS
      <4> HIDE DEF d
      <4>4. Sorted(d) /\ ~Degenerate(d)
        BY <4>1, <4>3 DEF Sorted, Degenerate, TWO_PAIRS, FULL_HOUSE
      <4>5. check_two_pairs(h, best[2], best[3])
        BY <2>0, CheckIs
      <4>6. check_combination(h, d)
        <5>1. check_two_pairs(h, best[3], best[2])
          BY <4>5 DEF check_two_pairs
        <5> QED
          BY <4>3, <5>1, CheckIs
      <4>7. d \in T
        BY <1>2, <4>2, <4>4, <4>6
      <4>8. ~(c[1] < TWO_PAIRS) /\ ~(TWO_PAIRS < c[1])
        BY <3>1, <3>2, <4>3, <4>4, <4>7 DEF Weaker
      <4>9. c[1] \in Int
        BY <1>7, ShapeOf, TypesApart
      <4> QED
        BY <4>8, <4>9 DEF TWO_PAIRS
    <3>4. best \in T
      BY <1>2, <2>0, <3>3 DEF Sorted
    <3> QED
      BY <1>3, <1>7, <3>1, <3>2, <3>4, SameWithoutSuit
  <2> QED
    BY <1>4, <1>9, <2>1, <2>2
<1> QED
  BY <1>8, <1>9

\* Whatever is dealt, the combination that find_best_combination returns, which /b
\* announces (game.cpp:427), is held, and parse_m_command would accept it as a bid.
THEOREM BestIsInHandAlways == Spec => []BestIsInHand
BY OnlyCards, BestIsInHandOf, PTL

\* Whatever is dealt, no bid that check_combination finds true is better than the best
\* combination by less_combination, but for a full house of one rank only.
THEOREM NothingBeatsBestAlways == Spec => []NothingBeatsBest
BY OnlyCards, NothingBeatsBestOf, PTL

\* Whatever is dealt, is_best_combination takes a true bid (two pairs aside) for the best
\* if and only if no true bid beats it, in hands with three of a rank too: the full house
\* of one rank, true there, is neither taken for the best nor counted as one that beats.
THEOREM BlockIsJudgedRightAlways == Spec => []BlockIsJudgedRight
BY OnlyCards, BlockIsJudgedRightOf, PTL

=============================================================================

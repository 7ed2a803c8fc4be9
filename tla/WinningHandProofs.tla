-------------------------- MODULE WinningHandProofs --------------------------
(* The search of WinningHand loses no way to take a hand apart, counts no  *)
(* other one, and says that a hand wins if and only if it does, whatever   *)
(* the tiles, the melds and the hand are.  Everything is proved from one   *)
(* inductive invariant, IInv: each way that goes through a prefix that has *)
(* been seen is found already, or comes from a try of a call that is at    *)
(* least as deep as that prefix.                                           *)
EXTENDS WinningHand, SequenceTheorems, FiniteSetTheorems, FunctionTheorems,
        WellFoundedInduction, TLAPS

-----------------------------------------------------------------------------
(* The invariant.                                                          *)

\* What the search relies on: sorted tiles, no more of one than are left.
HandOK ==
    /\ lipai \in [1 .. HandSize -> Tiles]
    /\ \A i, j \in 1 .. HandSize : i < j => lipai[i] <= lipai[j]
    /\ last \in 1 .. HandSize
    /\ \A t \in Tiles : Held[t] <= Left[t]

\* The packs that there are, with and without the last tile.
Packs ==
    {p \in [type : {"Shunzi", "Kezi", "Jiang"}, middle : Tiles, last : BOOLEAN] :
        p.type = "Shunzi" => p.middle \in ShunziMiddles}

Nodes == [free : SUBSET (1 .. HandSize), mianzi_cnt : Nat, duizi_cnt : Nat, packs : Seq(Packs)]
Calls == [node : Nodes, tries : SUBSET (Nat \X Nat)]

FreeOf(free, t) == Cardinality({i \in free : lipai[i] = t})

AllEven == \A t \in Tiles : Held[t] \in {0, 2, 4}

-----------------------------------------------------------------------------
(* The search for sets and a pair.                                         *)

\* How many packs there are to find.
Parts == 5 - Melds

\* At most one of the packs is the pair, or has the last tile.
OnePair(packs) ==
    \A k, m \in DOMAIN packs : packs[k].type = "Jiang" /\ packs[m].type = "Jiang" => k = m
OneLast(packs) ==
    \A k, m \in DOMAIN packs : packs[k].last /\ packs[m].last => k = m

HasPair(packs) == \E k \in DOMAIN packs : packs[k].type = "Jiang"
HasLast(packs) == \E k \in DOMAIN packs : packs[k].last /\ TilesTaken(packs[k], lipai[last]) > 0

\* The complete ways, with the last tile in one of the packs.
FullWays ==
    {w \in [1 .. Parts -> Packs] :
        /\ OnePair(w) /\ HasPair(w)
        /\ OneLast(w) /\ HasLast(w)
        /\ \A t \in Tiles : TakenBy(w, t) = Held[t]}

Extends(w, packs) ==
    Len(packs) <= Parts /\ \A k \in 1 .. Len(packs) : w[k] = packs[k]

\* A node of the search: what is free and what the packs take are the hand.
BasicNode(node) ==
    /\ node \in [free : SUBSET (1 .. HandSize), mianzi_cnt : Nat, duizi_cnt : {0, 1},
                 packs : Seq(Packs)]
    /\ Len(node.packs) + node.mianzi_cnt + node.duizi_cnt = Parts
    /\ Cardinality(node.free) = 3 * node.mianzi_cnt + 2 * node.duizi_cnt
    /\ \A t \in Tiles : TakenBy(node.packs, t) + FreeOf(node.free, t) = Held[t]
    /\ OnePair(node.packs) /\ (HasPair(node.packs) <=> node.duizi_cnt = 0)
    /\ OneLast(node.packs)
    /\ IF last \in node.free THEN \A k \in DOMAIN node.packs : ~node.packs[k].last
       ELSE HasLast(node.packs)

BasicCalls(cs) ==
    /\ cs \in Seq(Calls)
    /\ \A c \in DOMAIN cs :
          /\ BasicNode(cs[c].node) /\ ~IsComplete(cs[c].node)
          /\ cs[c].tries \subseteq Tries(cs[c].node)

\* A try of these calls, of at least n packs, leads to a way of this bag.
StillToCome(cs, bag, n) ==
    \E c \in DOMAIN cs : \E try \in cs[c].tries, w \in FullWays :
        /\ ToBag(w) = bag
        /\ Len(cs[c].node.packs) >= n
        /\ Extends(w, After(cs[c].node, try).packs)

Met(cs, ways, bag, n) == bag \in {ToBag(packs) : packs \in ways} \/ StillToCome(cs, bag, n)

\* Nothing that starts with a prefix that has been seen is lost: its bag is found,
\* or a call that is at least as deep leads to it.
NothingLost(cs, prefixes, ways) ==
    \A q \in prefixes \cup {<<>>} : \A w \in FullWays :
        Extends(w, q) => Met(cs, ways, ToBag(w), Len(q))

BasicSearch(cs, prefixes, ways) ==
    /\ BasicCalls(cs)
    /\ prefixes \subseteq Seq(Packs)
    /\ ways \subseteq FullWays
    /\ NothingLost(cs, prefixes, ways)

BasicInv == BasicSearch(calls, seen, found)

-----------------------------------------------------------------------------
(* The search for seven pairs.                                             *)

PairNode(node) ==
    /\ node \in [free : SUBSET (1 .. HandSize), mianzi_cnt : {0}, duizi_cnt : Nat,
                 packs : Seq(Packs)]
    /\ Len(node.packs) + node.duizi_cnt = 7
    /\ Cardinality(node.free) = 2 * node.duizi_cnt
    /\ \A k \in DOMAIN node.packs : node.packs[k].type = "Jiang"
    /\ \A t \in Tiles : (Held[t] - FreeOf(node.free, t)) % 2 = 0
    /\ \A t \in Tiles : TakenBy(node.packs, t) + FreeOf(node.free, t) = Held[t]

PairCalls(cs) ==
    /\ cs \in Seq(Calls)
    /\ \A c \in DOMAIN cs :
          /\ PairNode(cs[c].node) /\ cs[c].node.duizi_cnt > 0
          /\ cs[c].tries \subseteq Tries(cs[c].node)

\* The search of an even hand goes straight on: every prefix is that of the innermost
\* call, which has not made a try yet.
StraightOn(cs, prefixes) ==
    /\ cs # <<>>
    /\ LET top == Last(cs)
       IN  /\ top = Call(top.node)
           /\ prefixes = {PacksHashcode(SubSeq(top.node.packs, 1, n)) : n \in 1 .. Len(top.node.packs)}

PairSearch(cs, prefixes, ways) ==
    /\ PairCalls(cs)
    /\ ways # {} => AllEven
    /\ AllEven /\ ways = {} => StraightOn(cs, prefixes)

PairInv == Melds = 0 /\ PairSearch(calls, seen, found)

Winning == FullWays # {} \/ (Melds = 0 /\ AllEven)

IInv ==
    /\ HandOK
    /\ phase \in {"qidui", "basic", "count", "counted", "lost"}
    /\ phase = "qidui" => PairInv
    /\ phase \in {"basic", "count", "counted", "lost"} => BasicInv
    /\ phase \in {"basic", "lost"} => ~(Melds = 0 /\ AllEven)
    /\ phase \in {"counted", "lost"} => calls = <<>>
    /\ phase = "lost" => found = {}
    /\ phase \in {"count", "counted"} => Winning

-----------------------------------------------------------------------------
(* Tiles and packs.                                                        *)

\* Division finds the one multiple below.
LEMMA Quotient ==
    ASSUME NEW r \in Nat \ {0}, NEW q \in Nat, NEW n \in Nat
    PROVE  /\ n \div r \in Nat
           /\ n \div r = q <=> q * r <= n /\ n < q * r + r
<1>1. n \div r \in Nat /\ (n \div r) * r <= n /\ n < (n \div r) * r + r
  OBVIOUS
<1>2. ASSUME NEW p \in Nat, NEW s \in Nat, p < s, n < p * r + r
      PROVE  n < s * r
  <2>1. (p + 1) * r <= s * r
    BY <1>2
  <2> QED
    BY <2>1, <1>2
<1>3. ASSUME q * r <= n, n < q * r + r
      PROVE  n \div r = q
  BY <1>1, <1>2, <1>3
<1> QED
  BY <1>1, <1>3

\* The tiles are numbers from one on.
LEMMA TileNumbers == Suits * Ranks \in Nat /\ Tiles \subseteq Nat \ {0}
BY TilesAssumption DEF Tiles

\* The suit of a tile that has a rank.
LEMMA SuitOfRank ==
    ASSUME NEW suit \in 0 .. Suits - 1, NEW rank \in 1 .. Ranks
    PROVE  /\ suit * Ranks + rank \in Tiles
           /\ IsShu(suit * Ranks + rank)
           /\ Suit(suit * Ranks + rank) = suit
<1>1. suit * Ranks + Ranks <= Suits * Ranks
  <2>1. suit + 1 <= Suits /\ suit \in Nat /\ Suits \in Nat /\ Ranks \in Nat
    BY TilesAssumption
  <2>2. (suit + 1) * Ranks <= Suits * Ranks
    BY <2>1
  <2> QED
    BY <2>1, <2>2
<1>2. suit * Ranks \in Nat /\ Suits * Ranks \in Nat
  BY TilesAssumption
<1>3. IsShu(suit * Ranks + rank) /\ suit * Ranks + rank \in Tiles
  BY <1>1, <1>2, TilesAssumption DEF IsShu, Tiles
<1>4. ((suit * Ranks + rank) - 1) \div Ranks = suit
  BY <1>2, Quotient, TilesAssumption
<1>5. \A t : IsShu(t) => Suit(t) = (t - 1) \div Ranks
  BY DEF Suit
<1>6. Suit(suit * Ranks + rank) = suit
  BY <1>3, <1>4, <1>5
<1> QED
  BY <1>3, <1>6

\* A tile of a suit has a rank.
LEMMA RankOfSuit ==
    ASSUME NEW t \in Tiles, IsShu(t)
    PROVE  /\ Suit(t) \in 0 .. Suits - 1
           /\ \E rank \in 1 .. Ranks : t = Suit(t) * Ranks + rank
<1> DEFINE suit == (t - 1) \div Ranks
<1>1. t - 1 \in Nat /\ t <= Suits * Ranks
  BY TileNumbers DEF IsShu
<1>2. suit \in Nat /\ suit * Ranks <= t - 1 /\ t - 1 < suit * Ranks + Ranks
  BY <1>1, Quotient, TilesAssumption
<1>3. suit < Suits
  <2>1. SUFFICES ASSUME Suits <= suit PROVE FALSE
    BY <1>2, TilesAssumption
  <2> HIDE DEF suit
  <2>2. Suits * Ranks <= suit * Ranks
    BY <2>1, <1>2, TilesAssumption
  <2> QED
    BY <2>2, <1>1, <1>2, TileNumbers, TilesAssumption
<1>4. Suit(t) = suit
  BY DEF Suit
<1> HIDE DEF suit
<1>5. t - suit * Ranks \in 1 .. Ranks /\ t = suit * Ranks + (t - suit * Ranks)
  BY <1>1, <1>2, TilesAssumption, TileNumbers
<1> QED
  BY <1>2, <1>3, <1>4, <1>5, TilesAssumption

\* The honours count as a suit of their own.
LEMMA SuitOfHonour ==
    ASSUME NEW t \in Tiles, ~IsShu(t)
    PROVE  Suit(t) = Suits
BY DEF Suit

\* Three tiles in a row of a suit are taken for a set.
LEMMA ShunziIsMade ==
    ASSUME NEW m \in ShunziMiddles
    PROVE  /\ m \in Tiles /\ m - 1 \in Tiles /\ m + 1 \in Tiles
           /\ Judge2SameOrAdjacent(m - 1, m) /\ Judge2SameOrAdjacent(m, m + 1)
           /\ Judge3MakePack(m - 1, m, m + 1) = "Shunzi"
<1>1. PICK suit \in 0 .. Suits - 1, rank \in 2 .. Ranks - 1 : m = suit * Ranks + rank
  BY DEF ShunziMiddles
<1>2. rank - 1 \in 1 .. Ranks /\ rank \in 1 .. Ranks /\ rank + 1 \in 1 .. Ranks
  BY TilesAssumption
<1>3. suit * Ranks \in Nat
  BY TilesAssumption
<1> DEFINE base == suit * Ranks
<1>4. /\ base + (rank - 1) \in Tiles /\ IsShu(base + (rank - 1)) /\ Suit(base + (rank - 1)) = suit
      /\ base + rank \in Tiles /\ IsShu(base + rank) /\ Suit(base + rank) = suit
      /\ base + (rank + 1) \in Tiles /\ IsShu(base + (rank + 1)) /\ Suit(base + (rank + 1)) = suit
  BY <1>2, SuitOfRank
<1>5. base + (rank - 1) = m - 1 /\ base + rank = m /\ base + (rank + 1) = m + 1 /\ m \in Int
  BY <1>1, <1>3
<1> HIDE DEF base
<1> QED
  BY <1>4, <1>5 DEF Judge2SameOrAdjacent, Judge3MakePack

\* What is taken for a set is one: no row goes across two suits, or into the honours.
LEMMA MadeOfThree ==
    ASSUME NEW a \in Tiles, NEW b \in Tiles, NEW c \in Tiles
    PROVE  /\ Judge3MakePack(a, b, c) \in {"Shunzi", "Kezi", "None"}
           /\ Judge3MakePack(a, b, c) = "Kezi" <=> a = b /\ b = c
           /\ Judge3MakePack(a, b, c) = "Shunzi" => b \in ShunziMiddles /\ a = b - 1 /\ c = b + 1
<1>1. a \in Nat /\ b \in Nat /\ c \in Nat
  BY TileNumbers
<1>2. ASSUME Judge3MakePack(a, b, c) = "Shunzi"
      PROVE  b \in ShunziMiddles /\ a = b - 1 /\ c = b + 1
  <2>1. IsShu(a) /\ Suit(b) = Suit(a) /\ Suit(c) = Suit(a) /\ b = a + 1 /\ b = c - 1
    BY <1>2 DEF Judge3MakePack
  <2>2. Suit(a) \in 0 .. Suits - 1
    BY <2>1, RankOfSuit
  <2>3. IsShu(b) /\ IsShu(c)
    BY <2>1, <2>2, SuitOfHonour, TilesAssumption
  <2>4. PICK i \in 1 .. Ranks, j \in 1 .. Ranks, k \in 1 .. Ranks :
          a = Suit(a) * Ranks + i /\ b = Suit(a) * Ranks + j /\ c = Suit(a) * Ranks + k
    BY <2>1, <2>3, RankOfSuit
  <2>5. Suit(a) * Ranks \in Nat
    BY <2>2, TilesAssumption
  <2>6. j \in 2 .. Ranks - 1
    BY <2>1, <2>4, <2>5, TilesAssumption
  <2> QED
    BY <1>1, <2>1, <2>2, <2>4, <2>6 DEF ShunziMiddles
<1> QED
  BY <1>1, <1>2 DEF Judge3MakePack

-----------------------------------------------------------------------------
(* Counting the tiles of packs.                                            *)

\* What stands one to one is as many.
LEMMA SameSize ==
    ASSUME NEW S, IsFiniteSet(S), NEW T, NEW f \in [S -> T],
           \A x, y \in S : f[x] = f[y] => x = y,
           \A z \in T : \E x \in S : f[x] = z
    PROVE  IsFiniteSet(T) /\ Cardinality(T) = Cardinality(S)
<1>1. f \in Bijection(S, T)
  BY Fun_IsBij, Zenon
<1> QED
  BY <1>1, Fun_ExistsBij, FS_Bijection, Zenon

\* The copies of one pack are counted off.
LEMMA ColumnSize ==
    ASSUME NEW k, NEW n \in Nat
    PROVE  IsFiniteSet({k} \X (1 .. n)) /\ Cardinality({k} \X (1 .. n)) = n
<1>1. IsFiniteSet({k}) /\ Cardinality({k}) = 1
  BY FS_Singleton
<1>2. IsFiniteSet(1 .. n) /\ Cardinality(1 .. n) = n
  BY FS_Interval
<1>3. Cardinality({k} \X (1 .. n)) = 1 * n
  BY <1>1, <1>2, FS_Product
<1> QED
  BY <1>1, <1>2, <1>3, FS_Product

\* A pack takes at most three of a tile.
LEMMA TilesTakenType ==
    ASSUME NEW p, NEW t
    PROVE  TilesTaken(p, t) \in 0 .. 3
BY DEF TilesTaken

\* The copies of tile t in the packs of w, by pack.
Copies(w, t) == {copy \in (DOMAIN w) \X (1 .. 3) : copy[2] <= TilesTaken(w[copy[1]], t)}

\* How many of a tile some packs take is a number.
LEMMA CopiesFinite ==
    ASSUME NEW n \in Nat, NEW w, DOMAIN w = 1 .. n, NEW t
    PROVE  IsFiniteSet(Copies(w, t)) /\ TakenBy(w, t) = Cardinality(Copies(w, t)) /\ TakenBy(w, t) \in Nat
<1>1. IsFiniteSet((1 .. n) \X (1 .. 3))
  <2>1. 1 \in Int /\ n \in Int /\ 3 \in Int
    OBVIOUS
  <2>2. IsFiniteSet(1 .. n)
    BY <2>1, FS_Interval
  <2>3. IsFiniteSet(1 .. 3)
    BY <2>1, FS_Interval
  <2> QED
    BY <2>2, <2>3, FS_Product
<1>2. Copies(w, t) \in SUBSET ((1 .. n) \X (1 .. 3))
  BY DEF Copies
<1>3. IsFiniteSet(Copies(w, t)) /\ Cardinality(Copies(w, t)) \in Nat
  BY <1>1, <1>2, FS_Subset, FS_CardinalityType
<1> QED
  BY <1>3 DEF TakenBy, Copies

\* No packs take no tiles.
LEMMA TakenByNone ==
    ASSUME NEW t
    PROVE  TakenBy(<<>>, t) = 0
<1>1. {copy \in (DOMAIN <<>>) \X (1 .. 3) : copy[2] <= TilesTaken(<<>>[copy[1]], t)} = {}
  OBVIOUS
<1> QED
  BY <1>1, FS_EmptySet DEF TakenBy

\* One more pack takes its tiles.
LEMMA TakenByAppend ==
    ASSUME NEW packs \in Seq(Packs), NEW p \in Packs, NEW t
    PROVE  TakenBy(Append(packs, p), t) = TakenBy(packs, t) + TilesTaken(p, t)
<1> DEFINE L == Len(packs)
           more == Append(packs, p)
           column == {L + 1} \X (1 .. TilesTaken(p, t))
<1>1. L \in Nat /\ DOMAIN packs = 1 .. L /\ DOMAIN more = 1 .. L + 1
  OBVIOUS
<1>2. (\A k \in 1 .. L : more[k] = packs[k]) /\ more[L + 1] = p
  OBVIOUS
<1>3. Copies(more, t) = Copies(packs, t) \cup column
  <2>1. TilesTaken(p, t) \in 0 .. 3
    BY TilesTakenType
  <2> HIDE DEF more, L
  <2>2. ASSUME NEW c \in Copies(more, t) PROVE c \in Copies(packs, t) \cup column
    <3>1. c \in (1 .. L + 1) \X (1 .. 3) /\ c[2] <= TilesTaken(more[c[1]], t)
      BY <1>1 DEF Copies
    <3>2. CASE c[1] = L + 1
      BY <3>1, <3>2, <1>2, <2>1
    <3>3. CASE c[1] \in 1 .. L
      BY <3>1, <3>3, <1>1, <1>2 DEF Copies
    <3> QED
      BY <3>1, <3>2, <3>3, <1>1
  <2>3. ASSUME NEW c \in Copies(packs, t) PROVE c \in Copies(more, t)
    BY <1>1, <1>2 DEF Copies
  <2>4. ASSUME NEW c \in column PROVE c \in Copies(more, t)
    <3>1. c \in (1 .. L + 1) \X (1 .. 3) /\ c[1] = L + 1 /\ c[2] <= TilesTaken(p, t)
      BY <1>1, <2>1
    <3> QED
      BY <3>1, <1>1, <1>2 DEF Copies
  <2> QED
    BY <2>2, <2>3, <2>4
<1>4. Copies(packs, t) \cap column = {}
  BY <1>1 DEF Copies
<1>5. IsFiniteSet(Copies(packs, t)) /\ TakenBy(packs, t) = Cardinality(Copies(packs, t)) /\ TakenBy(packs, t) \in Nat
  BY <1>1, CopiesFinite
<1>6. TakenBy(more, t) = Cardinality(Copies(more, t))
  <2>1. L + 1 \in Nat
    BY <1>1
  <2> HIDE DEF L, more
  <2> QED
    BY <1>1, <2>1, CopiesFinite
<1>7. IsFiniteSet(column) /\ Cardinality(column) = TilesTaken(p, t)
  <2>1. TilesTaken(p, t) \in Nat
    BY TilesTakenType
  <2> QED
    BY <2>1, ColumnSize
<1> HIDE DEF column, more
<1>8. Cardinality(Copies(packs, t) \cup column) = Cardinality(Copies(packs, t)) + Cardinality(column) - 0
  BY <1>4, <1>5, <1>7, FS_Union, FS_EmptySet
<1> QED
  BY <1>3, <1>5, <1>6, <1>7, <1>8, TilesTakenType DEF more

-----------------------------------------------------------------------------
(* Ways that extend a prefix.                                              *)

\* The copies of tile t that the packs after the first n take.
Rest(w, n, t) == {copy \in Copies(w, t) : copy[1] > n}

\* A way takes what its first packs take, and what the rest takes.
LEMMA TakenByPrefix ==
    ASSUME NEW w \in [1 .. Parts -> Packs], NEW packs \in Seq(Packs), Extends(w, packs), NEW t
    PROVE  /\ IsFiniteSet(Rest(w, Len(packs), t))
           /\ Cardinality(Rest(w, Len(packs), t)) \in Nat
           /\ TakenBy(w, t) = TakenBy(packs, t) + Cardinality(Rest(w, Len(packs), t))
<1> DEFINE L == Len(packs)
<1>1. L \in Nat /\ DOMAIN packs = 1 .. L /\ Parts \in Nat /\ DOMAIN w = 1 .. Parts
  BY MeldsAssumption DEF Parts
<1>2. L <= Parts /\ \A k \in 1 .. L : w[k] = packs[k]
  BY DEF Extends
<1>3. Copies(w, t) = Copies(packs, t) \cup Rest(w, L, t)
  <2> HIDE DEF L
  <2>1. ASSUME NEW c \in Copies(w, t) PROVE c \in Copies(packs, t) \cup Rest(w, L, t)
    <3>1. c \in (1 .. Parts) \X (1 .. 3) /\ c[2] <= TilesTaken(w[c[1]], t)
      BY <1>1 DEF Copies
    <3>2. CASE c[1] > L
      BY <3>2 DEF Rest
    <3>3. CASE c[1] \in 1 .. L
      BY <3>1, <3>3, <1>1, <1>2 DEF Copies
    <3> QED
      BY <3>1, <3>2, <3>3, <1>1
  <2>2. ASSUME NEW c \in Copies(packs, t) PROVE c \in Copies(w, t)
    BY <1>1, <1>2 DEF Copies
  <2> QED
    BY <2>1, <2>2 DEF Rest
<1>4. Copies(packs, t) \cap Rest(w, L, t) = {}
  BY <1>1 DEF Copies, Rest
<1>5. /\ IsFiniteSet(Copies(packs, t)) /\ TakenBy(packs, t) = Cardinality(Copies(packs, t))
      /\ TakenBy(packs, t) \in Nat
  BY <1>1, CopiesFinite
<1>6. IsFiniteSet(Copies(w, t)) /\ TakenBy(w, t) = Cardinality(Copies(w, t))
  BY <1>1, CopiesFinite
<1>7. IsFiniteSet(Rest(w, L, t)) /\ Cardinality(Rest(w, L, t)) \in Nat
  <2>1. Rest(w, L, t) \in SUBSET Copies(w, t)
    BY DEF Rest
  <2> QED
    BY <2>1, <1>6, FS_Subset, FS_CardinalityType
<1>8. Cardinality(Copies(packs, t) \cup Rest(w, L, t))
        = Cardinality(Copies(packs, t)) + Cardinality(Rest(w, L, t)) - 0
  BY <1>4, <1>5, <1>7, FS_Union, FS_EmptySet
<1> QED
  BY <1>3, <1>5, <1>6, <1>7, <1>8

\* A pack among the rest takes its tiles, and so do two.
LEMMA RestTakes ==
    ASSUME NEW w \in [1 .. Parts -> Packs], NEW n \in Nat, NEW t,
           NEW k \in 1 .. Parts, n < k
    PROVE  /\ TilesTaken(w[k], t) <= Cardinality(Rest(w, n, t))
           /\ \A m \in 1 .. Parts : n < m /\ m # k =>
                TilesTaken(w[k], t) + TilesTaken(w[m], t) <= Cardinality(Rest(w, n, t))
<1> DEFINE Column(m) == {m} \X (1 .. TilesTaken(w[m], t))
<1>1. Parts \in Nat /\ DOMAIN w = 1 .. Parts
  BY MeldsAssumption DEF Parts
<1>2. IsFiniteSet(Copies(w, t))
  BY <1>1, CopiesFinite
<1>3. IsFiniteSet(Rest(w, n, t)) /\ Cardinality(Rest(w, n, t)) \in Nat
  <2>1. Rest(w, n, t) \in SUBSET Copies(w, t)
    BY DEF Rest
  <2> QED
    BY <2>1, <1>2, FS_Subset, FS_CardinalityType
<1>4. ASSUME NEW m \in 1 .. Parts, n < m
      PROVE  /\ Column(m) \in SUBSET Rest(w, n, t)
             /\ IsFiniteSet(Column(m)) /\ Cardinality(Column(m)) = TilesTaken(w[m], t)
  <2>1. TilesTaken(w[m], t) \in 0 .. 3
    BY TilesTakenType
  <2>2. ASSUME NEW c \in Column(m) PROVE c \in Rest(w, n, t)
    <3>1. c[1] = m /\ c \in (1 .. Parts) \X (1 .. 3) /\ c[2] <= TilesTaken(w[m], t)
      BY <2>1
    <3> QED
      BY <3>1, <1>1, <1>4 DEF Rest, Copies
  <2>3. TilesTaken(w[m], t) \in Nat
    BY <2>1
  <2>4. IsFiniteSet(Column(m)) /\ Cardinality(Column(m)) = TilesTaken(w[m], t)
    BY <2>3, ColumnSize
  <2> QED
    BY <2>2, <2>4
<1>5. ASSUME NEW m \in 1 .. Parts, n < m, m # k
      PROVE  TilesTaken(w[k], t) + TilesTaken(w[m], t) <= Cardinality(Rest(w, n, t))
  <2>1. Column(k) \cap Column(m) = {}
    BY <1>5
  <2>2. Column(k) \cup Column(m) \in SUBSET Rest(w, n, t)
    BY <1>4, <1>5
  <2>3. /\ IsFiniteSet(Column(k)) /\ Cardinality(Column(k)) = TilesTaken(w[k], t)
        /\ IsFiniteSet(Column(m)) /\ Cardinality(Column(m)) = TilesTaken(w[m], t)
    BY <1>4, <1>5
  <2> HIDE DEF Column
  <2>4. Cardinality(Column(k) \cup Column(m)) = Cardinality(Column(k)) + Cardinality(Column(m)) - 0
    BY <2>1, <2>3, FS_Union, FS_EmptySet
  <2>5. Cardinality(Column(k) \cup Column(m)) <= Cardinality(Rest(w, n, t))
    BY <2>2, <1>3, FS_Subset
  <2>6. TilesTaken(w[k], t) \in 0 .. 3 /\ TilesTaken(w[m], t) \in 0 .. 3
    BY TilesTakenType
  <2> QED
    BY <2>3, <2>4, <2>5, <2>6, <1>3
<1>6. TilesTaken(w[k], t) <= Cardinality(Rest(w, n, t))
  <2> HIDE DEF Column
  <2> QED
    BY <1>3, <1>4, FS_Subset
<1> QED
  BY <1>5, <1>6

\* What the rest takes, one of its packs takes.
LEMMA RestHasPack ==
    ASSUME NEW w \in [1 .. Parts -> Packs], NEW n \in Nat, NEW t,
           Cardinality(Rest(w, n, t)) # 0
    PROVE  \E k \in 1 .. Parts : n < k /\ TilesTaken(w[k], t) > 0
<1>1. PICK c \in Rest(w, n, t) : TRUE
  BY FS_EmptySet
<1>2. c \in (1 .. Parts) \X (1 .. 3) /\ c[2] <= TilesTaken(w[c[1]], t) /\ c[1] > n
  BY <1>1 DEF Rest, Copies
<1> QED
  BY <1>2, TilesTakenType

-----------------------------------------------------------------------------
(* The order of packs is of no account.                                    *)

Swapped(w, a, b) == [k \in DOMAIN w |-> w[IF k = a THEN b ELSE IF k = b THEN a ELSE k]]

\* Packs that change places take the same tiles,
LEMMA SwapKeepsTaken ==
    ASSUME NEW n \in Nat, NEW w, DOMAIN w = 1 .. n, NEW a \in 1 .. n, NEW b \in 1 .. n, NEW t
    PROVE  TakenBy(Swapped(w, a, b), t) = TakenBy(w, t)
<1> DEFINE P(k) == IF k = a THEN b ELSE IF k = b THEN a ELSE k
           v == Swapped(w, a, b)
           f == [c \in Copies(v, t) |-> <<P(c[1]), c[2]>>]
<1>1. DOMAIN v = 1 .. n /\ \A k \in 1 .. n : v[k] = w[P(k)] /\ P(k) \in 1 .. n /\ P(P(k)) = k
  BY DEF Swapped
<1> HIDE DEF v
<1>2. ASSUME NEW c \in Copies(v, t) PROVE <<P(c[1]), c[2]>> \in Copies(w, t)
  <2>1. c[1] \in 1 .. n /\ c[2] \in 1 .. 3 /\ c[2] <= TilesTaken(v[c[1]], t)
    BY <1>1 DEF Copies
  <2>2. P(c[1]) \in 1 .. n /\ c[2] <= TilesTaken(w[P(c[1])], t)
    BY <2>1, <1>1
  <2> HIDE DEF P
  <2> QED
    BY <2>1, <2>2 DEF Copies
<1>3. f \in [Copies(v, t) -> Copies(w, t)]
  BY <1>2
<1>4. ASSUME NEW c \in Copies(v, t), NEW d \in Copies(v, t), f[c] = f[d] PROVE c = d
  <2>1. c \in (1 .. n) \X (1 .. 3) /\ d \in (1 .. n) \X (1 .. 3)
    BY <1>1 DEF Copies
  <2>2. P(c[1]) = P(d[1]) /\ c[2] = d[2]
    BY <1>4
  <2>3. c[1] = d[1]
    BY <2>1, <2>2, <1>1
  <2> QED
    BY <2>1, <2>2, <2>3
<1>5. ASSUME NEW c \in Copies(w, t) PROVE \E d \in Copies(v, t) : f[d] = c
  <2>1. c \in (1 .. n) \X (1 .. 3) /\ c[2] <= TilesTaken(w[c[1]], t)
    BY DEF Copies
  <2>2. P(c[1]) \in 1 .. n /\ P(P(c[1])) = c[1] /\ v[P(c[1])] = w[c[1]]
    <3>1. P(c[1]) \in 1 .. n /\ P(P(c[1])) = c[1]
      BY <2>1, <1>1
    <3>2. v[P(c[1])] = w[P(P(c[1]))]
      BY <3>1, <1>1
    <3> QED
      BY <3>1, <3>2
  <2>3. <<P(c[1]), c[2]>> \in Copies(v, t)
    <3> HIDE DEF P
    <3> QED
      BY <2>1, <2>2, <1>1 DEF Copies
  <2>4. f[<<P(c[1]), c[2]>>] = <<P(P(c[1])), c[2]>>
    <3> HIDE DEF P
    <3> QED
      BY <2>3
  <2>5. <<P(P(c[1])), c[2]>> = c
    BY <2>1, <2>2
  <2> HIDE DEF P, f
  <2> QED
    BY <2>3, <2>4, <2>5
<1>6. /\ IsFiniteSet(Copies(v, t)) /\ TakenBy(v, t) = Cardinality(Copies(v, t))
      /\ TakenBy(w, t) = Cardinality(Copies(w, t))
  BY <1>1, CopiesFinite
<1>7. Cardinality(Copies(w, t)) = Cardinality(Copies(v, t))
  <2> HIDE DEF f
  <2> QED
    BY <1>3, <1>4, <1>5, <1>6, SameSize
<1> QED
  BY <1>6, <1>7 DEF v

\* are the same bag of packs,
LEMMA SwapKeepsBag ==
    ASSUME NEW n \in Nat, NEW w, DOMAIN w = 1 .. n, NEW a \in 1 .. n, NEW b \in 1 .. n
    PROVE  ToBag(Swapped(w, a, b)) = ToBag(w)
<1> DEFINE P(k) == IF k = a THEN b ELSE IF k = b THEN a ELSE k
           v == Swapped(w, a, b)
           At(s, x) == {i \in DOMAIN s : s[i] = x}
<1>1. DOMAIN v = 1 .. n /\ \A k \in 1 .. n : v[k] = w[P(k)] /\ P(k) \in 1 .. n /\ P(P(k)) = k
  BY DEF Swapped
<1> HIDE DEF v
<1>2. Range(v) = Range(w)
  <2>1. \A k \in 1 .. n : v[k] = w[P(k)] /\ w[k] = v[P(k)] /\ P(k) \in 1 .. n
    BY <1>1
  <2> HIDE DEF P
  <2> QED
    BY <1>1, <2>1 DEF Range
<1>3. ASSUME NEW x PROVE Cardinality(At(v, x)) = Cardinality(At(w, x))
  <2> DEFINE f == [i \in At(v, x) |-> P(i)]
  <2>1. IsFiniteSet(At(v, x))
    <3>1. At(v, x) \in SUBSET (1 .. n)
      BY <1>1
    <3> QED
      BY <3>1, FS_Interval, FS_Subset
  <2>2. f \in [At(v, x) -> At(w, x)]
    <3>1. ASSUME NEW i \in At(v, x) PROVE P(i) \in At(w, x)
      <4>1. i \in 1 .. n /\ v[i] = x
        BY <1>1
      <4>2. P(i) \in 1 .. n /\ w[P(i)] = x
        BY <4>1, <1>1
      <4> QED
        BY <4>2
    <3> QED
      BY <3>1
  <2>3. ASSUME NEW i \in At(v, x), NEW j \in At(v, x), f[i] = f[j] PROVE i = j
    BY <2>3, <1>1
  <2>4. ASSUME NEW i \in At(w, x) PROVE \E j \in At(v, x) : f[j] = i
    <3>1. i \in 1 .. n /\ w[i] = x
      OBVIOUS
    <3>2. P(i) \in 1 .. n /\ P(P(i)) = i
      BY <3>1, <1>1
    <3>3. v[P(i)] = w[P(P(i))]
      BY <3>2, <1>1
    <3>4. P(i) \in At(v, x)
      BY <3>1, <3>2, <3>3, <1>1
    <3>5. f[P(i)] = P(P(i))
      BY <3>4
    <3> HIDE DEF f, P
    <3> QED
      BY <3>2, <3>4, <3>5
  <2> HIDE DEF f, At
  <2> QED
    BY <2>1, <2>2, <2>3, <2>4, SameSize
<1>4. \A x : Cardinality({i \in DOMAIN v : v[i] = x}) = Cardinality({i \in DOMAIN w : w[i] = x})
  BY <1>3
<1> QED
  BY <1>2, <1>4, Zenon DEF ToBag, v

\* and are a complete way if they were one.
LEMMA SwapFullWay ==
    ASSUME NEW w \in FullWays, NEW a \in 1 .. Parts, NEW b \in 1 .. Parts
    PROVE  /\ Swapped(w, a, b) \in FullWays
           /\ ToBag(Swapped(w, a, b)) = ToBag(w)
           /\ \A k \in 1 .. Parts :
                Swapped(w, a, b)[k] = w[IF k = a THEN b ELSE IF k = b THEN a ELSE k]
<1> DEFINE P(k) == IF k = a THEN b ELSE IF k = b THEN a ELSE k
           v == Swapped(w, a, b)
<1>1. Parts \in Nat /\ w \in [1 .. Parts -> Packs] /\ DOMAIN w = 1 .. Parts
  BY MeldsAssumption DEF Parts, FullWays
<1>2. \A k \in 1 .. Parts : v[k] = w[P(k)] /\ P(k) \in 1 .. Parts /\ P(P(k)) = k
  BY <1>1 DEF Swapped
<1>3. v \in [1 .. Parts -> Packs]
  BY <1>1 DEF Swapped
<1>4. \A k \in 1 .. Parts : w[k] = v[P(k)]
  BY <1>2
<1>5. ToBag(v) = ToBag(w)
  BY <1>1, SwapKeepsBag
<1>6. \A t \in Tiles : TakenBy(v, t) = Held[t]
  BY <1>1, SwapKeepsTaken DEF FullWays
<1> HIDE DEF v
<1>7. OnePair(v) /\ OneLast(v)
  <2>1. OnePair(w) /\ OneLast(w)
    BY DEF FullWays
  <2>2. ASSUME NEW k \in 1 .. Parts, NEW m \in 1 .. Parts, P(k) = P(m) PROVE k = m
    BY <1>2, <2>2
  <2> QED
    <3> HIDE DEF P
    <3> QED
      BY <2>1, <2>2, <1>1, <1>2, <1>3 DEF OnePair, OneLast
<1>8. HasPair(v) /\ HasLast(v)
  <2>1. HasPair(w) /\ HasLast(w)
    BY DEF FullWays
  <2> HIDE DEF P
  <2> QED
    BY <2>1, <1>1, <1>2, <1>3, <1>4 DEF HasPair, HasLast
<1>9. v \in FullWays
  BY <1>3, <1>6, <1>7, <1>8 DEF FullWays
<1> QED
  BY <1>2, <1>5, <1>9 DEF v

-----------------------------------------------------------------------------
(* The places that are free.                                               *)

\* A set of natural numbers that is not empty has a least element.
LEMMA LeastNumber ==
    ASSUME NEW T, T \subseteq Nat, T # {}
    PROVE  \E k \in T : \A i \in T : k <= i
<1> DEFINE R == OpToRel(<, Nat)
<1>1. PICK k \in T : \A i \in T : ~(<<i, k>> \in R)
  BY NatLessThanWellFounded, WFMin
<1>2. \A i \in T : i < k => <<i, k>> \in R
  BY Zenon DEF OpToRel
<1>3. \A i \in T : ~(i < k)
  BY <1>1, <1>2
<1> QED
  BY <1>3

\* The place that a call starts from is the lowest free one.
LEMMA MinIsLeast ==
    ASSUME NEW T, T \subseteq Nat, T # {}
    PROVE  Min(T) \in T /\ \A i \in T : Min(T) <= i
BY LeastNumber DEF Min

\* The loops have an order: there is a next try if there is any.
LEMMA FirstOfIsOne ==
    ASSUME NEW tries, tries \subseteq Nat \X Nat, tries # {}
    PROVE  FirstOf(tries) \in tries
<1> DEFINE Firsts == {t[1] : t \in tries}
<1>1. Firsts \subseteq Nat /\ Firsts # {}
  OBVIOUS
<1>2. PICK a \in Firsts : \A i \in Firsts : a <= i
  <2> HIDE DEF Firsts
  <2> QED
    BY <1>1, LeastNumber
<1> DEFINE Seconds == {t[2] : t \in {u \in tries : u[1] = a}}
<1>3. Seconds \subseteq Nat /\ Seconds # {}
  OBVIOUS
<1>4. PICK b \in Seconds : \A i \in Seconds : b <= i
  <2> HIDE DEF Seconds
  <2> QED
    BY <1>3, LeastNumber
<1>5. PICK t \in tries : t[1] = a /\ t[2] = b
  OBVIOUS
<1>6. \A u \in tries : t[1] < u[1] \/ (t[1] = u[1] /\ t[2] <= u[2])
  <2> TAKE u \in tries
  <2>1. a <= u[1] /\ u[1] \in Nat /\ a \in Nat
    BY <1>1, <1>2
  <2>2. u[1] = a => b <= u[2]
    BY <1>4
  <2> HIDE DEF Firsts, Seconds
  <2> QED
    BY <2>1, <2>2, <1>5
<1> QED
  BY <1>5, <1>6 DEF FirstOf

\* A hand has tiles, and packs to be made of them.
LEMMA HandSizes == HandSize \in Nat /\ Parts \in Nat /\ Parts > 0
BY MeldsAssumption DEF HandSize, Parts

\* How many of a tile are free is a number.
LEMMA FreeOfFinite ==
    ASSUME HandOK, NEW free \in SUBSET (1 .. HandSize), NEW t
    PROVE  /\ IsFiniteSet(free) /\ Cardinality(free) \in Nat
           /\ IsFiniteSet({i \in free : lipai[i] = t})
           /\ FreeOf(free, t) \in Nat
<1>1. IsFiniteSet(1 .. HandSize)
  BY HandSizes, FS_Interval
<1>2. IsFiniteSet(free)
  BY <1>1, FS_Subset
<1>3. IsFiniteSet({i \in free : lipai[i] = t})
  <2>1. {i \in free : lipai[i] = t} \in SUBSET free
    OBVIOUS
  <2> QED
    BY <2>1, <1>2, FS_Subset
<1> QED
  BY <1>2, <1>3, FS_CardinalityType DEF FreeOf

\* At first all that is held is free,
LEMMA FreeOfAll ==
    ASSUME HandOK, NEW t \in Tiles
    PROVE  FreeOf(1 .. HandSize, t) = Held[t] /\ DOMAIN lipai = 1 .. HandSize
BY DEF HandOK, Held, FreeOf

\* and in the end nothing.
LEMMA FreeOfNone ==
    ASSUME NEW t
    PROVE  FreeOf({}, t) = 0
<1>1. {i \in {} : lipai[i] = t} = {}
  OBVIOUS
<1> QED
  BY <1>1, FS_EmptySet DEF FreeOf

\* One place less.
LEMMA TakePlace ==
    ASSUME HandOK, NEW free \in SUBSET (1 .. HandSize), NEW x \in free
    PROVE  /\ Cardinality(free \ {x}) = Cardinality(free) - 1
           /\ \A t : FreeOf(free \ {x}, t) = IF lipai[x] = t THEN FreeOf(free, t) - 1 ELSE FreeOf(free, t)
<1>1. Cardinality(free \ {x}) = Cardinality(free) - 1
  BY FreeOfFinite, FS_RemoveElement
<1>2. ASSUME NEW t
      PROVE  FreeOf(free \ {x}, t) = IF lipai[x] = t THEN FreeOf(free, t) - 1 ELSE FreeOf(free, t)
  <2> DEFINE S == {i \in free : lipai[i] = t}
  <2>1. {i \in free \ {x} : lipai[i] = t} = S \ {x}
    OBVIOUS
  <2>2. IsFiniteSet(S) /\ (x \in S <=> lipai[x] = t)
    BY FreeOfFinite
  <2>3. Cardinality(S \ {x}) = IF x \in S THEN Cardinality(S) - 1 ELSE Cardinality(S)
    BY <2>2, FS_RemoveElement
  <2> QED
    BY <2>1, <2>2, <2>3 DEF FreeOf
<1> QED
  BY <1>1, <1>2

\* A place with tile t is free if one of them is.
LEMMA FreeOfSome ==
    ASSUME HandOK, NEW free \in SUBSET (1 .. HandSize), NEW t, FreeOf(free, t) > 0
    PROVE  \E i \in free : lipai[i] = t
<1>1. {i \in free : lipai[i] = t} # {}
  BY FS_EmptySet DEF FreeOf
<1> QED
  BY <1>1

\* Pack makes a pack of its parts.
LEMMA PackFields ==
    ASSUME NEW type \in {"Shunzi", "Kezi", "Jiang"}, NEW m \in Tiles, NEW b \in BOOLEAN,
           type = "Shunzi" => m \in ShunziMiddles
    PROVE  /\ Pack(type, m, b) \in Packs
           /\ Pack(type, m, b).type = type /\ Pack(type, m, b).middle = m
           /\ Pack(type, m, b).last = b
BY DEF Pack, Packs

\* What a try is.
LEMMA TryIs ==
    ASSUME HandOK, NEW node, node.free \in SUBSET (1 .. HandSize), NEW try \in Tries(node)
    PROVE  LET start == Min(node.free)
               i == try[1]
               j == try[2]
           IN  /\ node.free # {} /\ start \in node.free
               /\ try = <<i, j>> /\ try \in Nat \X Nat
               /\ i \in node.free /\ start < i
               /\ \/ j = 0 /\ lipai[i] = lipai[start] /\ node.duizi_cnt > 0
                  \/ /\ j \in node.free /\ i < j /\ node.mianzi_cnt > 0
                     /\ Judge3MakePack(lipai[start], lipai[i], lipai[j]) # "None"
<1>1. node.free # {} /\ node.free \subseteq Nat
  BY DEF Tries
<1>2. Min(node.free) \in node.free
  BY <1>1, MinIsLeast
<1> QED
  BY <1>1, <1>2 DEF Tries, Nearby

\* What a try makes of a node: a pack, of tiles that were free.
Makes(node, try, p) ==
    LET next == After(node, try)
    IN  /\ p \in Packs /\ next.packs = Append(node.packs, p)
        /\ next.free \subseteq node.free
        /\ \A t \in Tiles : FreeOf(next.free, t) = FreeOf(node.free, t) - TilesTaken(p, t)
        /\ \/ /\ p.type = "Jiang"
              /\ node.duizi_cnt > 0 /\ next.duizi_cnt = node.duizi_cnt - 1
              /\ next.mianzi_cnt = node.mianzi_cnt
              /\ Cardinality(next.free) = Cardinality(node.free) - 2
           \/ /\ p.type # "Jiang"
              /\ node.mianzi_cnt > 0 /\ next.mianzi_cnt = node.mianzi_cnt - 1
              /\ next.duizi_cnt = node.duizi_cnt
              /\ Cardinality(next.free) = Cardinality(node.free) - 3
        /\ p.last <=> last \in node.free /\ last \notin next.free
        /\ p.last => TilesTaken(p, lipai[last]) > 0

\* The pack that a try makes.
Made(node, try) ==
    LET start == Min(node.free)
    IN  Pack(IF try[2] = 0 THEN "Jiang" ELSE Judge3MakePack(lipai[start], lipai[try[1]], lipai[try[2]]),
             lipai[try[1]], last \in {start, try[1], try[2]} \ {0})

\* A try makes a pack of its free places, and takes them.
LEMMA TryMakes ==
    ASSUME HandOK, NEW node, node.free \in SUBSET (1 .. HandSize),
           node.mianzi_cnt \in Nat, node.duizi_cnt \in Nat,
           NEW try \in Tries(node)
    PROVE  Makes(node, try, Made(node, try))
<1> DEFINE start == Min(node.free)
           i == try[1]
           j == try[2]
           p == Made(node, try)
           next == After(node, try)
           free == node.free
<1>1. /\ start \in free /\ i \in free /\ start < i
      /\ \/ j = 0 /\ lipai[i] = lipai[start] /\ node.duizi_cnt > 0
         \/ /\ j \in free /\ i < j /\ node.mianzi_cnt > 0
            /\ Judge3MakePack(lipai[start], lipai[i], lipai[j]) # "None"
  BY TryIs
<1>2. /\ start \in 1 .. HandSize /\ i \in 1 .. HandSize
      /\ \A x \in 1 .. HandSize : lipai[x] \in Tiles
      /\ Tiles \subseteq Nat \ {0}
      /\ last \in 1 .. HandSize /\ HandSize \in Nat
  BY <1>1, TileNumbers, HandSizes DEF HandOK
<1>3. next.packs = Append(node.packs, p)
  BY DEF After, Made
<1> DEFINE one == free \ {start}
           two == one \ {i}
           three == two \ {j}
<1>4. /\ one \in SUBSET (1 .. HandSize) /\ two \in SUBSET (1 .. HandSize)
      /\ i \in one
  BY <1>1, <1>2
<1>5. /\ Cardinality(one) = Cardinality(free) - 1
      /\ \A t : FreeOf(one, t) = IF lipai[start] = t THEN FreeOf(free, t) - 1 ELSE FreeOf(free, t)
  BY <1>1, TakePlace
<1>6. /\ Cardinality(two) = Cardinality(one) - 1
      /\ \A t : FreeOf(two, t) = IF lipai[i] = t THEN FreeOf(one, t) - 1 ELSE FreeOf(one, t)
  <2> HIDE DEF one, i
  <2> QED
    BY <1>4, TakePlace
<1>7. Cardinality(free) \in Nat /\ \A t : FreeOf(free, t) \in Nat
  BY FreeOfFinite
<1>8. CASE j = 0
  <2>1. p = Pack("Jiang", lipai[i], last \in {start, i})
    BY <1>2, <1>8 DEF Made
  <2>2. p \in Packs /\ p.type = "Jiang" /\ p.middle = lipai[i] /\ (p.last <=> last \in {start, i})
    <3> DEFINE flag == last \in {start, i}
               b == lipai[i]
    <3>1. flag \in BOOLEAN /\ b \in Tiles /\ p = Pack("Jiang", b, flag)
      BY <2>1, <1>2
    <3> HIDE DEF p, flag, b
    <3>2. p \in Packs /\ p.type = "Jiang" /\ p.middle = b /\ p.last = flag
      BY <3>1, PackFields
    <3> QED
      BY <3>2 DEF flag, b
  <2>3. next.free = two
    BY <1>2, <1>8 DEF After
  <2>4. lipai[i] = lipai[start] /\ node.duizi_cnt > 0
    BY <1>1, <1>2, <1>8
  <2>5. \A t : TilesTaken(p, t) = IF t = lipai[i] THEN 2 ELSE 0
    BY <2>2 DEF TilesTaken
  <2>6. \A t \in Tiles : FreeOf(two, t) = FreeOf(free, t) - TilesTaken(p, t)
    <3> HIDE DEF two, one, free, start, i, p
    <3> QED
      BY <1>5, <1>6, <1>7, <2>4, <2>5
  <2>7. next.duizi_cnt = node.duizi_cnt - 1 /\ next.mianzi_cnt = node.mianzi_cnt
    BY <1>8 DEF After
  <2>8. Cardinality(two) = Cardinality(free) - 2
    <3> HIDE DEF two, one, free
    <3> QED
      BY <1>5, <1>6, <1>7
  <2>9. p.last <=> last \in free /\ last \notin two
    BY <2>2, <1>1
  <2>10. p.last => TilesTaken(p, lipai[last]) > 0
    BY <2>2, <2>4, <2>5
  <2>11. two \subseteq free
    OBVIOUS
  <2> HIDE DEF p, next, two
  <2> QED
    BY <1>3, <2>2, <2>3, <2>4, <2>6, <2>7, <2>8, <2>9, <2>10, <2>11 DEF Makes, p, next
<1>9. CASE j # 0
  <2> DEFINE a == lipai[start]
             b == lipai[i]
             c == lipai[j]
             type == Judge3MakePack(a, b, c)
  <2>1. j \in free /\ i < j /\ node.mianzi_cnt > 0 /\ type # "None"
    BY <1>1, <1>9
  <2>2. a \in Tiles /\ b \in Tiles /\ c \in Tiles /\ j \in 1 .. HandSize
    BY <2>1, <1>2
  <2>3. \/ type = "Kezi" /\ a = b /\ b = c
        \/ type = "Shunzi" /\ b \in ShunziMiddles /\ a = b - 1 /\ c = b + 1
    BY <2>1, <2>2, MadeOfThree
  <2>4. p = Pack(type, b, last \in {start, i, j})
    BY <1>2, <1>9, <2>2 DEF Made
  <2>5. p \in Packs /\ p.type = type /\ p.type # "Jiang" /\ p.middle = b /\ (p.last <=> last \in {start, i, j})
    <3> DEFINE flag == last \in {start, i, j}
    <3>1. /\ flag \in BOOLEAN /\ type \in {"Shunzi", "Kezi"} /\ b \in Tiles
          /\ type = "Shunzi" => b \in ShunziMiddles
          /\ p = Pack(type, b, flag)
      BY <2>2, <2>3, <2>4
    <3> HIDE DEF type, b, p, flag
    <3>2. p \in Packs /\ p.type = type /\ p.middle = b /\ p.last = flag
      BY <3>1, PackFields
    <3> QED
      BY <3>1, <3>2 DEF flag
  <2>6. next.free = three
    BY <1>2, <1>9, <2>2 DEF After
  <2>7. j \in two
    BY <1>1, <1>2, <2>1, <2>2
  <2>8. /\ Cardinality(three) = Cardinality(two) - 1
        /\ \A t : FreeOf(three, t) = IF c = t THEN FreeOf(two, t) - 1 ELSE FreeOf(two, t)
    <3> HIDE DEF two, j
    <3> QED
      BY <1>4, <2>7, TakePlace
  <2>9. \A t \in Tiles : TilesTaken(p, t) = (IF t = a THEN 1 ELSE 0) + (IF t = b THEN 1 ELSE 0) + (IF t = c THEN 1 ELSE 0)
    <3>1. a \in Nat /\ b \in Nat /\ c \in Nat /\ \A t \in Tiles : t \in Nat
      BY <2>2, <1>2
    <3> HIDE DEF a, b, c, type, p
    <3> QED
      BY <2>3, <2>5, <3>1 DEF TilesTaken
  <2>10. \A t \in Tiles : FreeOf(three, t) = FreeOf(free, t) - TilesTaken(p, t)
    <3>1. \A t \in Tiles :
            /\ FreeOf(one, t) = IF a = t THEN FreeOf(free, t) - 1 ELSE FreeOf(free, t)
            /\ FreeOf(two, t) = IF b = t THEN FreeOf(one, t) - 1 ELSE FreeOf(one, t)
            /\ FreeOf(three, t) = IF c = t THEN FreeOf(two, t) - 1 ELSE FreeOf(two, t)
      BY <1>5, <1>6, <2>8
    <3> HIDE DEF three, two, one, free, a, b, c, p
    <3> QED
      BY <3>1, <1>7, <2>9
  <2>11. next.duizi_cnt = node.duizi_cnt /\ next.mianzi_cnt = node.mianzi_cnt - 1
    BY <1>9, <2>3 DEF After
  <2>12. Cardinality(three) = Cardinality(free) - 3
    <3> HIDE DEF three, two, one, free
    <3> QED
      BY <1>5, <1>6, <1>7, <2>8
  <2>13. p.last <=> last \in free /\ last \notin three
    BY <2>5, <1>1, <2>1
  <2>14. p.last => TilesTaken(p, lipai[last]) > 0
    <3>1. p.last => lipai[last] \in {a, b, c}
      BY <2>5
    <3> HIDE DEF a, b, c, p
    <3> QED
      BY <3>1, <2>2, <2>9
  <2>15. three \subseteq free
    OBVIOUS
  <2> HIDE DEF p, next, three
  <2> QED
    BY <1>3, <2>1, <2>5, <2>6, <2>10, <2>11, <2>12, <2>13, <2>14, <2>15 DEF Makes, p, next
<1> QED
  BY <1>8, <1>9

-----------------------------------------------------------------------------
(* The nodes of the search for sets and a pair.                            *)

\* The node after a try is one of the search, with one pack more, which all are told
\* apart by: five packs are not too many for the number.
LEMMA BasicAfter ==
    ASSUME HandOK, NEW node, BasicNode(node), NEW try \in Tries(node)
    PROVE  /\ BasicNode(After(node, try))
           /\ After(node, try).packs = Append(node.packs, Made(node, try))
           /\ Len(After(node, try).packs) = Len(node.packs) + 1
           /\ PacksHashcode(After(node, try).packs) = After(node, try).packs
<1> DEFINE p == Made(node, try)
           next == After(node, try)
           packs == node.packs
           more == Append(packs, p)
           L == Len(packs)
<1>1. /\ node.free \in SUBSET (1 .. HandSize) /\ node.mianzi_cnt \in Nat /\ node.duizi_cnt \in {0, 1}
      /\ packs \in Seq(Packs)
      /\ L + node.mianzi_cnt + node.duizi_cnt = Parts
      /\ Cardinality(node.free) = 3 * node.mianzi_cnt + 2 * node.duizi_cnt
      /\ \A t \in Tiles : TakenBy(packs, t) + FreeOf(node.free, t) = Held[t]
      /\ OnePair(packs) /\ (HasPair(packs) <=> node.duizi_cnt = 0)
      /\ OneLast(packs)
      /\ IF last \in node.free THEN \A k \in DOMAIN packs : ~packs[k].last ELSE HasLast(packs)
  BY DEF BasicNode
<1>2. Makes(node, try, p)
  <2>1. node.duizi_cnt \in Nat
    BY <1>1
  <2> QED
    BY <1>1, <2>1, TryMakes
<1>3. /\ p \in Packs /\ next.packs = more
      /\ next.free \subseteq node.free
      /\ \A t \in Tiles : FreeOf(next.free, t) = FreeOf(node.free, t) - TilesTaken(p, t)
      /\ \/ /\ p.type = "Jiang"
            /\ node.duizi_cnt > 0 /\ next.duizi_cnt = node.duizi_cnt - 1
            /\ next.mianzi_cnt = node.mianzi_cnt
            /\ Cardinality(next.free) = Cardinality(node.free) - 2
         \/ /\ p.type # "Jiang"
            /\ node.mianzi_cnt > 0 /\ next.mianzi_cnt = node.mianzi_cnt - 1
            /\ next.duizi_cnt = node.duizi_cnt
            /\ Cardinality(next.free) = Cardinality(node.free) - 3
      /\ p.last <=> last \in node.free /\ last \notin next.free
      /\ p.last => TilesTaken(p, lipai[last]) > 0
  <2> HIDE DEF p, next, more
  <2> QED
    BY <1>2 DEF Makes, next, more
<1>4. /\ more \in Seq(Packs) /\ Len(more) = L + 1 /\ L \in Nat
      /\ DOMAIN packs = 1 .. L /\ DOMAIN more = 1 .. L + 1
      /\ (\A k \in 1 .. L : more[k] = packs[k]) /\ more[L + 1] = p
  <2> HIDE DEF p
  <2> QED
    BY <1>1, <1>3
<1>5. next \in [free : SUBSET (1 .. HandSize), mianzi_cnt : Nat, duizi_cnt : {0, 1}, packs : Seq(Packs)]
  <2>1. next = [free |-> next.free, mianzi_cnt |-> next.mianzi_cnt,
                duizi_cnt |-> next.duizi_cnt, packs |-> next.packs]
    BY DEF After
  <2>2. /\ next.free \in SUBSET (1 .. HandSize) /\ next.mianzi_cnt \in Nat
        /\ next.duizi_cnt \in {0, 1} /\ next.packs \in Seq(Packs)
    <3> HIDE DEF next, p, more, packs
    <3> QED
      BY <1>1, <1>3, <1>4
  <2> HIDE DEF next
  <2> QED
    BY <2>1, <2>2
<1>6. \A t \in Tiles : TakenBy(more, t) = TakenBy(packs, t) + TilesTaken(p, t)
  <2> HIDE DEF p
  <2> QED
    BY <1>1, <1>3, TakenByAppend
<1>7. \A t \in Tiles : TakenBy(packs, t) \in Nat /\ FreeOf(node.free, t) \in Nat /\ TilesTaken(p, t) \in Nat
  <2>1. \A t : TilesTaken(p, t) \in Nat
    BY TilesTakenType
  <2>2. \A t : TakenBy(packs, t) \in Nat
    <3> HIDE DEF packs, L
    <3> QED
      BY <1>4, CopiesFinite
  <2>3. \A t : FreeOf(node.free, t) \in Nat
    BY <1>1, FreeOfFinite
  <2> QED
    BY <2>1, <2>2, <2>3
<1> HIDE DEF p, next, more, packs, L
<1>8. \A t \in Tiles : TakenBy(more, t) + FreeOf(next.free, t) = Held[t]
  BY <1>1, <1>3, <1>6, <1>7
<1>9. Len(more) + next.mianzi_cnt + next.duizi_cnt = Parts
  <2>1. node.mianzi_cnt \in Nat /\ node.duizi_cnt \in Nat /\ L \in Nat
    BY <1>1, <1>4
  <2>2. \/ next.duizi_cnt = node.duizi_cnt - 1 /\ next.mianzi_cnt = node.mianzi_cnt
        \/ next.duizi_cnt = node.duizi_cnt /\ next.mianzi_cnt = node.mianzi_cnt - 1
    BY <1>3
  <2>3. Len(more) = L + 1 /\ (L + node.mianzi_cnt) + node.duizi_cnt = Parts
    BY <1>1, <1>4 DEF L
  <2>4. next.mianzi_cnt \in Int /\ next.duizi_cnt \in Int
        /\ next.mianzi_cnt + next.duizi_cnt = node.mianzi_cnt + node.duizi_cnt - 1
    BY <2>1, <2>2
  <2>5. Len(more) \in Nat
    BY <2>1, <2>3
  <2>7. Parts \in Int /\ L \in Int /\ node.mianzi_cnt \in Int /\ node.duizi_cnt \in Int
    BY <2>1, HandSizes
  <2> DEFINE lm == Len(more)
             nm == next.mianzi_cnt
             nd == next.duizi_cnt
             m == node.mianzi_cnt
             d == node.duizi_cnt
  <2>8. /\ lm \in Int /\ L \in Int /\ nm \in Int /\ nd \in Int /\ m \in Int /\ d \in Int /\ Parts \in Int
        /\ lm = L + 1 /\ nm + nd = m + d - 1 /\ (L + m) + d = Parts
    BY <2>3, <2>4, <2>5, <2>7
  <2> HIDE DEF lm, nm, nd, m, d
  <2>9. lm + nm + nd = Parts
    BY <2>8
  <2> QED
    BY <2>9 DEF lm, nm, nd
<1>10. Cardinality(next.free) = 3 * next.mianzi_cnt + 2 * next.duizi_cnt
  BY <1>1, <1>3
<1>11. OnePair(more) /\ (HasPair(more) <=> next.duizi_cnt = 0)
  <2>1. CASE p.type = "Jiang"
    <3>1. node.duizi_cnt = 1 /\ next.duizi_cnt = 0
      BY <1>1, <1>3, <2>1
    <3>2. \A k \in 1 .. L : more[k].type # "Jiang"
      BY <1>1, <1>4, <3>1 DEF HasPair
    <3> QED
      BY <1>4, <2>1, <3>1, <3>2 DEF OnePair, HasPair
  <2>2. CASE p.type # "Jiang"
    <3>1. next.duizi_cnt = node.duizi_cnt
      BY <1>3, <2>2
    <3>2. OnePair(more)
      BY <1>1, <1>4, <2>2 DEF OnePair
    <3>3. HasPair(more) <=> HasPair(packs)
      BY <1>4, <2>2 DEF HasPair
    <3> QED
      BY <1>1, <3>1, <3>2, <3>3
  <2> QED
    BY <2>1, <2>2
<1>12. /\ OneLast(more)
       /\ IF last \in next.free THEN \A k \in DOMAIN more : ~more[k].last ELSE HasLast(more)
  <2>1. CASE p.last
    <3>1. last \in node.free /\ last \notin next.free /\ TilesTaken(p, lipai[last]) > 0
      BY <1>3, <2>1
    <3>2. \A k \in 1 .. L : ~more[k].last
      BY <1>1, <1>4, <3>1
    <3> QED
      BY <1>4, <2>1, <3>1, <3>2 DEF OneLast, HasLast
  <2>2. CASE ~p.last
    <3>1. last \in next.free <=> last \in node.free
      BY <1>3, <2>2
    <3>2. OneLast(more)
      BY <1>1, <1>4, <2>2 DEF OneLast
    <3>3. CASE last \in next.free
      BY <1>1, <1>4, <2>2, <3>1, <3>2, <3>3
    <3>4. CASE last \notin next.free
      <4>1. PICK k \in 1 .. L : packs[k].last /\ TilesTaken(packs[k], lipai[last]) > 0
        BY <1>1, <1>4, <3>1, <3>4 DEF HasLast
      <4>2. more[k] = packs[k] /\ k \in DOMAIN more
        BY <1>4
      <4>3. HasLast(more)
        BY <4>1, <4>2 DEF HasLast
      <4> QED
        BY <3>2, <3>4, <4>3
    <3> QED
      BY <3>3, <3>4
  <2> QED
    BY <2>1, <2>2
<1>13. BasicNode(next)
  BY <1>3, <1>5, <1>8, <1>9, <1>10, <1>11, <1>12 DEF BasicNode
<1>14. PacksHashcode(more) = more
  <2>1. Len(more) <= 5
    BY <1>3, <1>4, <1>5, <1>9, MeldsAssumption DEF Parts
  <2> QED
    BY <2>1 DEF PacksHashcode
<1> QED
  BY <1>3, <1>4, <1>13, <1>14 DEF next, packs, L, p, more

\* A node where all is found is a way.
LEMMA CompleteIsFull ==
    ASSUME HandOK, NEW node, BasicNode(node), IsComplete(node)
    PROVE  node.packs \in FullWays /\ Len(node.packs) = Parts
<1> DEFINE packs == node.packs
<1>1. node.mianzi_cnt = 0 /\ node.duizi_cnt = 0
  BY DEF IsComplete
<1>2. /\ node.free \in SUBSET (1 .. HandSize) /\ packs \in Seq(Packs)
      /\ Len(packs) + 0 + 0 = Parts /\ Cardinality(node.free) = 0
      /\ \A t \in Tiles : TakenBy(packs, t) + FreeOf(node.free, t) = Held[t]
      /\ OnePair(packs) /\ HasPair(packs) /\ OneLast(packs)
      /\ last \notin node.free => HasLast(packs)
  BY <1>1 DEF BasicNode
<1>3. node.free = {}
  BY <1>2, FreeOfFinite, FS_EmptySet
<1>4. Len(packs) = Parts /\ packs \in [1 .. Parts -> Packs]
  BY <1>2, HandSizes
<1>5. \A t \in Tiles : TakenBy(packs, t) = Held[t]
  <2>1. \A t \in Tiles : TakenBy(packs, t) \in Nat
    <3> HIDE DEF packs
    <3> QED
      BY <1>4, HandSizes, CopiesFinite
  <2> QED
    BY <1>2, <1>3, <2>1, FreeOfNone
<1> HIDE DEF packs
<1>6. packs \in FullWays
  BY <1>2, <1>3, <1>4, <1>5 DEF FullWays
<1> QED
  BY <1>4, <1>6 DEF packs

\* A way that goes through a complete one is that one.
LEMMA FullIsComplete ==
    ASSUME NEW w \in FullWays, NEW v \in FullWays, Len(v) = Parts, Extends(w, v)
    PROVE  w = v
<1>1. w \in [1 .. Parts -> Packs] /\ v \in [1 .. Parts -> Packs]
  BY DEF FullWays
<1> QED
  BY <1>1 DEF Extends

-----------------------------------------------------------------------------
(* There is a try for each pack that a way still needs.                    *)

\* What one pack of the rest does not take, another one takes.
LEMMA RestHasOther ==
    ASSUME NEW w \in [1 .. Parts -> Packs], NEW n \in Nat, NEW t,
           NEW k \in 1 .. Parts, TilesTaken(w[k], t) < Cardinality(Rest(w, n, t))
    PROVE  \E m \in 1 .. Parts : n < m /\ m # k /\ TilesTaken(w[m], t) > 0
<1> DEFINE column == {k} \X (1 .. TilesTaken(w[k], t))
<1>1. TilesTaken(w[k], t) \in Nat
  BY TilesTakenType
<1>2. IsFiniteSet(column) /\ Cardinality(column) = TilesTaken(w[k], t)
  BY <1>1, ColumnSize
<1>3. Parts \in Nat /\ DOMAIN w = 1 .. Parts
  BY HandSizes
<1>4. IsFiniteSet(Rest(w, n, t)) /\ Cardinality(Rest(w, n, t)) \in Nat
  <2>1. IsFiniteSet(Copies(w, t))
    BY <1>3, CopiesFinite
  <2>2. Rest(w, n, t) \in SUBSET Copies(w, t)
    BY DEF Rest
  <2> QED
    BY <2>1, <2>2, FS_Subset, FS_CardinalityType
<1>5. PICK c \in Rest(w, n, t) : c \notin column
  <2>1. SUFFICES ASSUME Rest(w, n, t) \in SUBSET column PROVE FALSE
    OBVIOUS
  <2> HIDE DEF column
  <2>2. Cardinality(Rest(w, n, t)) <= Cardinality(column)
    BY <2>1, <1>2, FS_Subset
  <2> QED
    BY <1>1, <1>2, <1>4, <2>2
<1>6. c \in (1 .. Parts) \X (1 .. 3) /\ c[2] <= TilesTaken(w[c[1]], t) /\ c[1] > n
  BY <1>3 DEF Rest, Copies
<1>7. c[1] # k
  <2>1. SUFFICES ASSUME c[1] = k PROVE FALSE
    OBVIOUS
  <2>2. c[2] \in 1 .. TilesTaken(w[k], t)
    BY <1>1, <1>6, <2>1
  <2>3. c = <<k, c[2]>>
    BY <1>6, <2>1
  <2> QED
    BY <1>5, <2>2, <2>3
<1>8. TilesTaken(w[c[1]], t) > 0
  <2>1. TilesTaken(w[c[1]], t) \in Nat
    BY TilesTakenType
  <2> QED
    BY <1>6, <2>1
<1> QED
  BY <1>6, <1>7, <1>8

\* A set of more than one has another element than this,
LEMMA OtherElement ==
    ASSUME NEW S, IsFiniteSet(S), Cardinality(S) > 1, NEW e
    PROVE  S \ {e} # {}
<1>1. SUFFICES ASSUME S \ {e} = {} PROVE FALSE
  OBVIOUS
<1>2. Cardinality(S \ {e}) = 0
  BY <1>1, FS_EmptySet
<1>3. Cardinality(S) \in Nat
  BY FS_CardinalityType
<1> QED
  BY <1>2, <1>3, FS_RemoveElement

\* and, of numbers, a lower and a higher one.
LEMMA TwoElements ==
    ASSUME NEW S, S \subseteq Nat, IsFiniteSet(S), Cardinality(S) > 1
    PROVE  \E x, y \in S : x < y
<1>1. S # {}
  BY FS_EmptySet
<1>2. PICK x \in S : TRUE
  BY <1>1
<1>3. S \ {x} # {}
  BY OtherElement
<1>4. PICK y \in S : y # x
  BY <1>3
<1> QED
  BY <1>4

\* A pack q may be made next: its tiles are free, and so is the right one to be the last.
MayBeMade(node, q) ==
    LET start == Min(node.free)
    IN  /\ q \in Packs
        /\ node.free \in SUBSET (1 .. HandSize) /\ node.free # {}
        /\ IF q.type = "Jiang" THEN node.duizi_cnt > 0 ELSE node.mianzi_cnt > 0
        /\ TilesTaken(q, lipai[start]) > 0
        /\ \A t \in Tiles : TilesTaken(q, t) <= FreeOf(node.free, t)
        /\ start = last => q.last
        /\ q.last => last \in node.free /\ TilesTaken(q, lipai[last]) > 0
        /\ ~q.last /\ last \in node.free => TilesTaken(q, lipai[last]) < FreeOf(node.free, lipai[last])
        /\ q.last /\ start # last /\ lipai[start] = lipai[last] => q.type # "Shunzi"

\* A pack has no more to it than its parts.
LEMMA PackIs ==
    ASSUME NEW q \in Packs
    PROVE  /\ q.type \in {"Shunzi", "Kezi", "Jiang"} /\ q.middle \in Tiles /\ q.last \in BOOLEAN
           /\ q.type = "Shunzi" => q.middle \in ShunziMiddles
           /\ \A type, m, b : q.type = type /\ q.middle = m /\ q.last = b => q = Pack(type, m, b)
BY DEF Packs, Pack

\* What is behind in the hand is not lower.
LEMMA Behind ==
    ASSUME HandOK, NEW i \in 1 .. HandSize, NEW j \in 1 .. HandSize
    PROVE  /\ lipai[i] \in Tiles /\ lipai[i] \in Nat /\ lipai[j] \in Nat
           /\ lipai[i] < lipai[j] => i < j
           /\ i <= j => lipai[i] <= lipai[j]
<1>1. lipai[i] \in Tiles /\ lipai[j] \in Tiles /\ lipai[i] \in Nat /\ lipai[j] \in Nat
  BY TileNumbers DEF HandOK
<1>2. \A a, b \in 1 .. HandSize : a < b => lipai[a] <= lipai[b]
  BY DEF HandOK
<1> QED
  BY <1>1, <1>2, HandSizes

\* There is a try for a row of three, with the marked tile or without,
LEMMA ShunziTry ==
    ASSUME HandOK, NEW node, NEW q, MayBeMade(node, q), q.type = "Shunzi"
    PROVE  \E try \in Tries(node) : Made(node, try) = q
<1> DEFINE start == Min(node.free)
           free == node.free
           m == q.middle
           x == lipai[last]
<1>1. /\ q \in Packs /\ free \in SUBSET (1 .. HandSize) /\ free # {} /\ node.mianzi_cnt > 0
      /\ TilesTaken(q, lipai[start]) > 0
      /\ \A t \in Tiles : TilesTaken(q, t) <= FreeOf(free, t)
      /\ start = last => q.last
      /\ q.last => last \in free /\ TilesTaken(q, x) > 0
      /\ ~q.last /\ last \in free => TilesTaken(q, x) < FreeOf(free, x)
      /\ q.last /\ start # last => lipai[start] # x
  BY DEF MayBeMade
<1>2. /\ m \in ShunziMiddles /\ m \in Tiles /\ m - 1 \in Tiles /\ m + 1 \in Tiles /\ m \in Nat
      /\ Judge2SameOrAdjacent(m - 1, m) /\ Judge2SameOrAdjacent(m, m + 1)
      /\ Judge3MakePack(m - 1, m, m + 1) = "Shunzi"
  BY <1>1, PackIs, ShunziIsMade, TileNumbers
<1>3. \A t \in Nat : TilesTaken(q, t) = IF t \in {m - 1, m, m + 1} THEN 1 ELSE 0
  BY <1>2 DEF TilesTaken
<1>4. /\ start \in free /\ start \in 1 .. HandSize /\ \A i \in free : start <= i
      /\ last \in 1 .. HandSize /\ free \subseteq Nat
  BY <1>1, HandSizes, MinIsLeast DEF HandOK
<1>5. /\ \A t : FreeOf(free, t) \in Nat
      /\ \A t : IsFiniteSet({i \in free : lipai[i] = t})
  BY <1>1, FreeOfFinite
<1> HIDE DEF free, start, m, x
<1>6. lipai[start] = m - 1
  <2>1. FreeOf(free, m - 1) > 0
    <3>1. m - 1 \in Tiles /\ m - 1 \in Nat
      BY <1>2, TileNumbers
    <3>2. TilesTaken(q, m - 1) = 1 /\ TilesTaken(q, m - 1) <= FreeOf(free, m - 1)
      BY <1>1, <1>3, <3>1
    <3>3. FreeOf(free, m - 1) \in Nat
      BY <1>5
    <3> QED
      BY <3>2, <3>3
  <2>2. PICK y \in free : lipai[y] = m - 1
    BY <1>1, <2>1, FreeOfSome
  <2>3. lipai[start] <= m - 1 /\ lipai[start] \in Nat
    BY <1>1, <1>4, <2>2, Behind
  <2>4. lipai[start] \in {m - 1, m, m + 1}
    BY <1>1, <1>3, <2>3
  <2> QED
    BY <1>2, <2>3, <2>4
<1>7. ASSUME NEW t \in {m, m + 1}
      PROVE  \E i \in free : lipai[i] = t /\ (i = last <=> q.last /\ t = x)
  <2>1. t \in Tiles /\ t \in Nat /\ TilesTaken(q, t) = 1 /\ FreeOf(free, t) > 0
    <3>1. t \in Tiles /\ t \in Nat
      BY <1>2, TileNumbers
    <3>2. TilesTaken(q, t) = 1 /\ TilesTaken(q, t) <= FreeOf(free, t)
      BY <1>1, <1>3, <3>1
    <3>3. FreeOf(free, t) \in Nat
      BY <1>5
    <3> QED
      BY <3>1, <3>2, <3>3
  <2>2. PICK i \in free : lipai[i] = t
    BY <1>1, <2>1, FreeOfSome
  <2>3. CASE t = x /\ q.last
    BY <1>1, <2>3 DEF x
  <2>4. CASE t = x /\ ~q.last /\ last \in free
    <3> DEFINE S == {j \in free : lipai[j] = t}
    <3>1. FreeOf(free, t) > 1 /\ FreeOf(free, t) = Cardinality(S) /\ IsFiniteSet(S)
      BY <1>1, <1>5, <2>1, <2>4 DEF FreeOf
    <3>2. S \ {last} # {}
      <4> HIDE DEF S
      <4> QED
        BY <3>1, OtherElement
    <3> QED
      BY <2>4, <3>2
  <2>5. CASE t = x /\ ~q.last /\ last \notin free
    BY <2>2, <2>5
  <2>6. CASE t # x
    BY <2>2, <2>6 DEF x
  <2> QED
    BY <2>3, <2>4, <2>5, <2>6
<1>8. PICK i \in free : lipai[i] = m /\ (i = last <=> q.last /\ m = x)
  BY <1>7
<1>9. PICK j \in free : lipai[j] = m + 1 /\ (j = last <=> q.last /\ m + 1 = x)
  BY <1>7
<1>10. i \in 1 .. HandSize /\ j \in 1 .. HandSize /\ start < i /\ i < j
  <2>1. i \in 1 .. HandSize /\ j \in 1 .. HandSize
    BY <1>1, <1>8, <1>9
  <2> QED
    BY <2>1, <1>2, <1>4, <1>6, <1>8, <1>9, Behind
<1>11. <<i, j>> \in Tries(node)
  BY <1>1, <1>2, <1>4, <1>6, <1>8, <1>9, <1>10 DEF Tries, Nearby, free, start
<1>12. Made(node, <<i, j>>) = Pack("Shunzi", m, last \in {start, i, j})
  <2>1. {start, i, j} \ {0} = {start, i, j} /\ j # 0
    BY <1>4, <1>10
  <2> QED
    BY <1>2, <1>6, <1>8, <1>9, <2>1 DEF Made, start
<1>13. q.last = (last \in {start, i, j})
  <2>1. q.last \in BOOLEAN
    BY <1>1, PackIs
  <2>2. ASSUME q.last PROVE last \in {start, i, j}
    <3>1. x \in Nat /\ TilesTaken(q, x) > 0
      BY <1>1, <1>4, <2>2, Behind DEF x
    <3>2. x \in {m - 1, m, m + 1}
      BY <1>3, <3>1
    <3>3. x = m - 1 => start = last
      BY <1>1, <1>6, <2>2
    <3> QED
      BY <1>8, <1>9, <2>2, <3>2, <3>3
  <2>3. ASSUME last \in {start, i, j} PROVE q.last
    BY <1>1, <1>8, <1>9, <2>3
  <2> QED
    BY <2>1, <2>2, <2>3
<1>14. q = Pack("Shunzi", m, q.last)
  BY <1>1, PackIs DEF m
<1> QED
  <2> DEFINE flag == last \in {start, i, j}
  <2>1. q.last = flag /\ Made(node, <<i, j>>) = Pack("Shunzi", m, flag)
    BY <1>12, <1>13
  <2> HIDE DEF flag
  <2> QED
    BY <1>11, <1>14, <2>1

\* Sets and pairs of equal tiles.
LEMMA EqualTry ==
    ASSUME HandOK, NEW node, NEW q, MayBeMade(node, q), q.type # "Shunzi"
    PROVE  \E try \in Tries(node) : Made(node, try) = q
<1> DEFINE start == Min(node.free)
           free == node.free
           a == q.middle
           S == {i \in free : lipai[i] = a}
           T == S \ {start}
           size == IF q.type = "Kezi" THEN 3 ELSE 2
<1>1. /\ q \in Packs /\ free \in SUBSET (1 .. HandSize) /\ free # {}
      /\ IF q.type = "Jiang" THEN node.duizi_cnt > 0 ELSE node.mianzi_cnt > 0
      /\ TilesTaken(q, lipai[start]) > 0
      /\ \A t \in Tiles : TilesTaken(q, t) <= FreeOf(free, t)
      /\ start = last => q.last
      /\ q.last => last \in free /\ TilesTaken(q, lipai[last]) > 0
      /\ ~q.last /\ last \in free => TilesTaken(q, lipai[last]) < FreeOf(free, lipai[last])
  BY DEF MayBeMade
<1>2. q.type \in {"Kezi", "Jiang"} /\ a \in Tiles /\ q.last \in BOOLEAN /\ a \in Nat
  BY <1>1, PackIs, TileNumbers
<1>3. \A t : TilesTaken(q, t) = IF t = a THEN size ELSE 0
  BY <1>2 DEF TilesTaken
<1>4. /\ start \in free /\ start \in 1 .. HandSize /\ \A i \in free : start <= i
      /\ last \in 1 .. HandSize /\ free \subseteq Nat
  BY <1>1, HandSizes, MinIsLeast DEF HandOK
<1>5. FreeOf(free, a) = Cardinality(S) /\ FreeOf(free, a) \in Nat /\ IsFiniteSet(S)
  BY <1>1, FreeOfFinite DEF FreeOf
<1>6. lipai[start] = a /\ start \in S
  BY <1>1, <1>3, <1>4
<1>7. q.last => last \in S
  BY <1>1, <1>3
<1>8. size <= Cardinality(S) /\ (~q.last /\ last \in S => size < Cardinality(S))
  BY <1>1, <1>2, <1>3, <1>5
<1>9. IsFiniteSet(T) /\ Cardinality(T) = Cardinality(S) - 1 /\ T \in SUBSET Nat
  <2> HIDE DEF start
  <2> QED
    BY <1>4, <1>5, <1>6, FS_RemoveElement
<1>10. \A i \in T : i \in free /\ i \in 1 .. HandSize /\ lipai[i] = a /\ start < i
  BY <1>1, <1>4
<1>11. q.last /\ last # start => last \in T
  BY <1>7
<1>12. ~q.last => last # start /\ (last \in T => last \in S)
  BY <1>1
<1> HIDE DEF free, start, a, S, T
<1>13. CASE q.type = "Jiang"
  <2>1. Cardinality(T) >= 1 /\ (~q.last /\ last \in T => Cardinality(T) > 1)
    BY <1>5, <1>8, <1>9, <1>12, <1>13
  <2>2. \E i \in T : q.last <=> last \in {start, i}
    <3>1. PICK i \in T : TRUE
      <4>1. T # {}
        BY <2>1, FS_EmptySet
      <4> QED
        BY <4>1
    <3>2. CASE q.last /\ last = start
      BY <3>1, <3>2
    <3>3. CASE q.last /\ last # start
      BY <1>11, <3>3
    <3>4. CASE ~q.last /\ last \in T
      <4>1. T \ {last} # {}
        BY <2>1, <1>9, <3>4, OtherElement
      <4> QED
        BY <4>1, <3>4, <1>12
    <3>5. CASE ~q.last /\ last \notin T
      BY <3>1, <3>5, <1>12
    <3> QED
      BY <3>2, <3>3, <3>4, <3>5
  <2>3. PICK i \in T : q.last <=> last \in {start, i}
    BY <2>2
  <2>4. <<i, 0>> \in Tries(node)
    BY <1>1, <1>4, <1>6, <1>10, <1>13 DEF Tries, Nearby, Judge2SameOrAdjacent, free, start
  <2>5. Made(node, <<i, 0>>) = Pack("Jiang", a, last \in {start, i})
    <3>1. {start, i, 0} \ {0} = {start, i}
      BY <1>4, <1>10
    <3> QED
      BY <1>10, <3>1 DEF Made, start
  <2>6. q = Pack("Jiang", a, q.last)
    BY <1>1, <1>13, PackIs DEF a
  <2> DEFINE flag == last \in {start, i}
  <2>7. q.last = flag /\ Made(node, <<i, 0>>) = Pack("Jiang", a, flag)
    BY <1>2, <2>3, <2>5
  <2> HIDE DEF flag
  <2> QED
    BY <2>4, <2>6, <2>7
<1>14. CASE q.type = "Kezi"
  <2>1. Cardinality(T) > 1 /\ (~q.last /\ last \in T => Cardinality(T) > 2)
    BY <1>5, <1>8, <1>9, <1>12, <1>14
  <2>2. \E i, j \in T : i < j /\ (q.last <=> last \in {start, i, j})
    <3>1. CASE q.last /\ last = start
      BY <2>1, <1>9, <3>1, TwoElements
    <3>2. CASE q.last /\ last # start
      <4> T \ {last} # {}
        BY <2>1, <1>9, OtherElement
      <4>1. PICK y \in T : y # last
        OBVIOUS
      <4>2. last \in T /\ last \in Nat /\ y \in Nat
        BY <1>9, <1>11, <3>2
      <4>3. CASE y < last
        BY <3>2, <4>2, <4>3
      <4>4. CASE last < y
        BY <3>2, <4>2, <4>4
      <4> QED
        BY <4>1, <4>2, <4>3, <4>4
    <3>3. CASE ~q.last
      <4> DEFINE U == T \ {last}
      <4>1. IsFiniteSet(U) /\ Cardinality(U) > 1 /\ U \in SUBSET Nat
        <5>1. Cardinality(T) \in Nat /\ IsFiniteSet(T)
          BY <1>9, FS_CardinalityType
        <5>2. IsFiniteSet(U) /\ Cardinality(U) = IF last \in T THEN Cardinality(T) - 1 ELSE Cardinality(T)
          BY <5>1, FS_RemoveElement
        <5>3. Cardinality(U) > 1
          <6> HIDE DEF U
          <6> QED
            BY <2>1, <3>3, <5>1, <5>2
        <5> QED
          BY <1>9, <5>2, <5>3
      <4>2. PICK i \in U, j \in U : i < j
        <5> HIDE DEF U
        <5> QED
          BY <4>1, TwoElements
      <4> QED
        BY <1>12, <3>3, <4>2
    <3> QED
      BY <1>2, <3>1, <3>2, <3>3
  <2>3. PICK i \in T, j \in T : i < j /\ (q.last <=> last \in {start, i, j})
    BY <2>2
  <2>4. a \in Tiles /\ Judge3MakePack(a, a, a) = "Kezi"
    BY <1>2, MadeOfThree
  <2>5. <<i, j>> \in Tries(node)
    <3>1. <<i, j>> \in Nearby(free, start) \X free /\ j \in Nearby(free, i)
      BY <1>6, <1>10, <2>3 DEF Nearby, Judge2SameOrAdjacent
    <3>2. Judge3MakePack(lipai[start], lipai[i], lipai[j]) # "None"
      BY <1>6, <1>10, <2>3, <2>4
    <3> QED
      BY <1>1, <1>14, <3>1, <3>2 DEF Tries, free, start
  <2>6. Made(node, <<i, j>>) = Pack("Kezi", a, last \in {start, i, j})
    <3>1. {start, i, j} \ {0} = {start, i, j} /\ j # 0
      BY <1>4, <1>10
    <3> QED
      BY <1>6, <1>10, <2>4, <3>1 DEF Made, start
  <2>7. q = Pack("Kezi", a, q.last)
    BY <1>1, <1>14, PackIs DEF a
  <2> DEFINE flag == last \in {start, i, j}
  <2>8. q.last = flag /\ Made(node, <<i, j>>) = Pack("Kezi", a, flag)
    BY <1>2, <2>3, <2>6
  <2> HIDE DEF flag
  <2> QED
    BY <2>5, <2>7, <2>8
<1> QED
  BY <1>2, <1>13, <1>14

\* A way is never lost: from a node that it goes through, some try leads on to it,
\* or to the same packs in another order.
LEMMA SomeTry ==
    ASSUME HandOK, NEW node, BasicNode(node), ~IsComplete(node),
           NEW w \in FullWays, Extends(w, node.packs)
    PROVE  \E try \in Tries(node), v \in FullWays :
             ToBag(v) = ToBag(w) /\ Extends(v, After(node, try).packs)
<1> DEFINE packs == node.packs
           L == Len(packs)
           free == node.free
           start == Min(free)
           a == lipai[start]
           x == lipai[last]
<1>1. /\ free \in SUBSET (1 .. HandSize) /\ node.mianzi_cnt \in Nat /\ node.duizi_cnt \in {0, 1}
      /\ packs \in Seq(Packs)
      /\ L + node.mianzi_cnt + node.duizi_cnt = Parts
      /\ Cardinality(free) = 3 * node.mianzi_cnt + 2 * node.duizi_cnt
      /\ \A t \in Tiles : TakenBy(packs, t) + FreeOf(free, t) = Held[t]
      /\ HasPair(packs) <=> node.duizi_cnt = 0
      /\ IF last \in free THEN \A k \in DOMAIN packs : ~packs[k].last ELSE HasLast(packs)
  BY DEF BasicNode
<1>2. /\ w \in [1 .. Parts -> Packs] /\ OnePair(w) /\ HasPair(w) /\ OneLast(w) /\ HasLast(w)
      /\ \A t \in Tiles : TakenBy(w, t) = Held[t]
      /\ DOMAIN w = 1 .. Parts
  BY DEF FullWays
<1>3. L <= Parts /\ (\A k \in 1 .. L : w[k] = packs[k]) /\ L \in Nat /\ DOMAIN packs = 1 .. L
      /\ Parts \in Nat
  BY <1>1, HandSizes DEF Extends
<1>4. free # {}
  <2>1. SUFFICES ASSUME free = {} PROVE FALSE
    OBVIOUS
  <2>2. Cardinality(free) = 0
    BY <2>1, FS_EmptySet
  <2>3. node.mianzi_cnt = 0 /\ node.duizi_cnt = 0
    <3> HIDE DEF free
    <3> QED
      BY <1>1, <2>2
  <2> QED
    BY <2>3 DEF IsComplete
<1>5. /\ start \in free /\ start \in 1 .. HandSize /\ last \in 1 .. HandSize
      /\ a \in Tiles /\ x \in Tiles
  <2>1. free \subseteq Nat /\ \A i \in 1 .. HandSize : lipai[i] \in Tiles
    BY <1>1, HandSizes DEF HandOK
  <2>2. start \in free
    BY <1>4, <2>1, MinIsLeast
  <2> QED
    BY <1>1, <2>1, <2>2 DEF HandOK
<1>6. \A t \in Tiles : FreeOf(free, t) = Cardinality(Rest(w, L, t)) /\ FreeOf(free, t) \in Nat
  <2> TAKE t \in Tiles
  <2>1. /\ Cardinality(Rest(w, L, t)) \in Nat
        /\ TakenBy(w, t) = TakenBy(packs, t) + Cardinality(Rest(w, L, t))
    BY <1>1, <1>2, TakenByPrefix
  <2>2. TakenBy(packs, t) \in Nat
    <3> HIDE DEF packs, L
    <3> QED
      BY <1>3, CopiesFinite
  <2>3. FreeOf(free, t) \in Nat
    BY <1>1, FreeOfFinite
  <2>4. TakenBy(packs, t) + FreeOf(free, t) = Held[t] /\ TakenBy(w, t) = Held[t]
    BY <1>1, <1>2
  <2> HIDE DEF L, packs, free
  <2> QED
    BY <2>1, <2>2, <2>3, <2>4
<1> HIDE DEF packs, L, free, start, a, x
\* The pack with the last tile is among the rest if its place is free.
<1>7. PICK l \in 1 .. Parts : /\ w[l].last /\ TilesTaken(w[l], x) > 0
                              /\ \A k \in 1 .. Parts : w[k].last => k = l
                              /\ last \in free <=> L < l
  <2>1. PICK l \in 1 .. Parts : w[l].last /\ TilesTaken(w[l], x) > 0
    BY <1>2 DEF HasLast, x
  <2>2. \A k \in 1 .. Parts : w[k].last => k = l
    BY <1>2, <2>1 DEF OneLast
  <2>3. ASSUME last \in free PROVE L < l
    <3>1. SUFFICES ASSUME ~(L < l) PROVE FALSE
      OBVIOUS
    <3>2. l \in 1 .. L
      BY <1>3, <3>1
    <3>3. packs[l].last /\ l \in DOMAIN packs
      BY <1>3, <2>1, <3>2
    <3> QED
      BY <1>1, <2>3, <3>3
  <2>4. ASSUME last \notin free PROVE l <= L
    <3>1. PICK k \in 1 .. L : packs[k].last
      BY <1>1, <1>3, <2>4 DEF HasLast
    <3>2. w[k].last /\ k \in 1 .. Parts
      BY <1>3, <3>1
    <3> QED
      BY <2>2, <3>1, <3>2
  <2> QED
    BY <1>3, <2>1, <2>2, <2>3, <2>4
\* The pack to make next.
<1>8. \E k \in 1 .. Parts :
        /\ L < k /\ TilesTaken(w[k], a) > 0
        /\ start = last => w[k].last
        /\ w[k].last /\ start # last /\ a = x => w[k].type # "Shunzi"
  <2>1. FreeOf(free, a) > 0
    <3>1. start \in {i \in free : lipai[i] = a}
      BY <1>5 DEF a
    <3>2. FreeOf(free, a) # 0
      BY <1>1, <3>1, FreeOfFinite, FS_EmptySet DEF FreeOf
    <3>3. FreeOf(free, a) \in Nat
      BY <1>5, <1>6
    <3> QED
      BY <3>2, <3>3
  <2>2. CASE start = last
    BY <1>5, <1>7, <2>2 DEF a, x
  <2>3. CASE start # last /\ ~(a = x /\ last \in free)
    <3>1. Cardinality(Rest(w, L, a)) # 0
      BY <1>5, <1>6, <2>1
    <3>2. PICK k \in 1 .. Parts : L < k /\ TilesTaken(w[k], a) > 0
      BY <1>2, <1>3, <3>1, RestHasPack
    <3>3. w[k].last => a # x
      BY <1>7, <2>3, <3>2
    <3> QED
      BY <2>3, <3>2, <3>3
  <2>4. CASE start # last /\ a = x /\ last \in free /\ w[l].type # "Shunzi"
    BY <1>7, <2>4
  <2>5. CASE start # last /\ a = x /\ last \in free /\ w[l].type = "Shunzi"
    <3>1. TilesTaken(w[l], a) <= 1
      BY <2>5 DEF TilesTaken
    <3>2. Cardinality(Rest(w, L, a)) > 1
      <4> DEFINE S == {i \in free : lipai[i] = a}
      <4>1. IsFiniteSet(S) /\ start \in S /\ last \in S /\ FreeOf(free, a) = Cardinality(S)
        BY <1>1, <1>5, <2>5, FreeOfFinite DEF FreeOf, a, x
      <4>2. Cardinality(S \ {start}) # 0
        <5>1. last \in S \ {start} /\ IsFiniteSet(S \ {start})
          BY <4>1, <2>5, FS_RemoveElement
        <5> HIDE DEF S
        <5> QED
          BY <5>1, FS_EmptySet
      <4>3. Cardinality(S \ {start}) = Cardinality(S) - 1
        <5> HIDE DEF S
        <5> QED
          BY <4>1, FS_RemoveElement
      <4>4. FreeOf(free, a) \in Nat /\ FreeOf(free, a) = Cardinality(Rest(w, L, a))
        BY <1>5, <1>6
      <4> HIDE DEF S
      <4> QED
        BY <2>1, <4>1, <4>2, <4>3, <4>4
    <3>3. TilesTaken(w[l], a) \in Nat /\ Cardinality(Rest(w, L, a)) \in Nat
      <4>1. TilesTaken(w[l], a) \in Nat
        BY TilesTakenType
      <4>2. Cardinality(Rest(w, L, a)) \in Nat
        BY <1>5, <1>6
      <4> QED
        BY <4>1, <4>2
    <3>4. TilesTaken(w[l], a) < Cardinality(Rest(w, L, a))
      BY <3>1, <3>2, <3>3
    <3>5. PICK k \in 1 .. Parts : L < k /\ k # l /\ TilesTaken(w[k], a) > 0
      BY <1>2, <1>3, <3>4, RestHasOther
    <3> QED
      BY <1>7, <2>5, <3>5
  <2> QED
    BY <2>2, <2>3, <2>4, <2>5
<1>9. PICK k \in 1 .. Parts :
        /\ L < k /\ TilesTaken(w[k], a) > 0
        /\ start = last => w[k].last
        /\ w[k].last /\ start # last /\ a = x => w[k].type # "Shunzi"
  BY <1>8
<1> DEFINE q == w[k]
<1>10. MayBeMade(node, q)
  <2>1. q \in Packs
    BY <1>2
  <2>2. \A t \in Tiles : TilesTaken(q, t) <= FreeOf(free, t)
    BY <1>2, <1>3, <1>6, <1>9, RestTakes
  <2>3. IF q.type = "Jiang" THEN node.duizi_cnt > 0 ELSE node.mianzi_cnt > 0
    <3>1. CASE q.type = "Jiang"
      <4>1. ~HasPair(packs)
        <5>1. SUFFICES ASSUME HasPair(packs) PROVE FALSE
          OBVIOUS
        <5>2. PICK m \in 1 .. L : packs[m].type = "Jiang"
          BY <1>3, <5>1 DEF HasPair
        <5>3. w[m].type = "Jiang" /\ m \in 1 .. Parts /\ m # k
          BY <1>3, <1>9, <5>2
        <5> QED
          BY <1>2, <3>1, <5>3 DEF OnePair
      <4> QED
        BY <1>1, <3>1, <4>1
    <3>2. CASE q.type # "Jiang" /\ node.mianzi_cnt = 0
      <4>1. PICK m \in 1 .. Parts : w[m].type = "Jiang"
        BY <1>2 DEF HasPair
      <4>2. L + 0 + node.duizi_cnt = Parts
        BY <1>1, <3>2
      <4>3. node.duizi_cnt = 1 /\ L + 1 = Parts /\ k = Parts
        BY <1>1, <1>3, <1>9, <4>2
      <4>4. m \in 1 .. L
        BY <1>3, <3>2, <4>1, <4>3
      <4>5. HasPair(packs)
        BY <1>3, <4>1, <4>4 DEF HasPair
      <4> QED
        BY <1>1, <4>3, <4>5
    <3> QED
      BY <1>1, <3>1, <3>2
  <2>4. q.last => last \in free /\ TilesTaken(q, x) > 0
    BY <1>7, <1>9
  <2>5. ASSUME ~q.last, last \in free PROVE TilesTaken(q, x) < FreeOf(free, x)
    <3>1. l # k /\ L < l
      BY <1>7, <2>5
    <3>2. TilesTaken(q, x) + TilesTaken(w[l], x) <= Cardinality(Rest(w, L, x))
      BY <1>2, <1>3, <1>9, <3>1, RestTakes
    <3>3. FreeOf(free, x) = Cardinality(Rest(w, L, x)) /\ FreeOf(free, x) \in Nat
      BY <1>5, <1>6
    <3>4. TilesTaken(q, x) \in Nat /\ TilesTaken(w[l], x) \in Nat
      BY TilesTakenType
    <3> HIDE DEF q
    <3> QED
      BY <1>7, <3>2, <3>3, <3>4
  <2> HIDE DEF q
  <2>6. /\ TilesTaken(q, a) > 0 /\ (start = last => q.last)
        /\ q.last /\ start # last /\ a = x => q.type # "Shunzi"
    BY <1>9 DEF q
  <2> QED
    BY <1>1, <1>4, <2>1, <2>2, <2>3, <2>4, <2>5, <2>6 DEF MayBeMade, free, start, a, x
<1>11. PICK try \in Tries(node) : Made(node, try) = q
  <2> HIDE DEF q
  <2> QED
    BY <1>10, ShunziTry, EqualTry
<1>12. After(node, try).packs = Append(packs, q)
  BY <1>11, BasicAfter DEF packs
<1> DEFINE v == Swapped(w, L + 1, k)
<1>13. L + 1 \in 1 .. Parts
  BY <1>3, <1>9
<1>14. v \in FullWays /\ ToBag(v) = ToBag(w)
  BY <1>13, SwapFullWay
<1>15. \A m \in 1 .. Parts : v[m] = w[IF m = L + 1 THEN k ELSE IF m = k THEN L + 1 ELSE m]
  BY <1>2 DEF Swapped
<1>16. Extends(v, Append(packs, q))
  <2>1. q \in Packs
    BY <1>2
  <2>2. Len(Append(packs, q)) = L + 1 /\ Append(packs, q)[L + 1] = q
        /\ \A m \in 1 .. L : Append(packs, q)[m] = packs[m]
    BY <1>1, <2>1 DEF L
  <2>3. v[L + 1] = q
    BY <1>13, <1>15
  <2>4. ASSUME NEW m \in 1 .. L PROVE v[m] = packs[m]
    <3>1. m # L + 1 /\ m # k /\ m \in 1 .. Parts /\ w[m] = packs[m]
      BY <1>3, <1>9
    <3>2. v[m] = w[m]
      <4> HIDE DEF v
      <4> QED
        BY <1>15, <3>1
    <3> QED
      BY <3>1, <3>2
  <2> HIDE DEF v, q
  <2> QED
    BY <1>3, <1>13, <2>2, <2>3, <2>4 DEF Extends
<1> QED
  BY <1>12, <1>14, <1>16

-----------------------------------------------------------------------------
(* The steps of the search for sets and a pair.                            *)

\* A call begins with all the tries of its node.
LEMMA CallOf ==
    ASSUME HandOK, NEW node \in Nodes
    PROVE  Call(node) \in Calls /\ Call(node).node = node /\ Call(node).tries = Tries(node)
<1>1. Tries(node) \subseteq Nat \X Nat
  <2> SUFFICES ASSUME NEW try \in Tries(node) PROVE try \in Nat \X Nat
    OBVIOUS
  <2>1. node.free \in SUBSET (1 .. HandSize)
    BY DEF Nodes
  <2> QED
    BY <2>1, TryIs
<1> QED
  BY <1>1 DEF Call, Calls

\* What the search for sets and a pair keeps of a node is its type, too.
LEMMA BasicNodes ==
    ASSUME NEW node, BasicNode(node)
    PROVE  node \in Nodes
BY DEF BasicNode, Nodes

\* The innermost call with one try less.
OneLess(cs, try) == [cs EXCEPT ![Len(cs)].tries = @ \ {try}]

\* All other calls, and all nodes, stay as they are.
LEMMA OneTryLess ==
    ASSUME NEW cs \in Seq(Calls), cs # <<>>, NEW try
    PROVE  LET waiting == OneLess(cs, try)
               top == Last(cs)
           IN  /\ waiting \in Seq(Calls) /\ Len(waiting) = Len(cs)
               /\ top \in Calls /\ Len(cs) \in DOMAIN cs /\ top = cs[Len(cs)]
               /\ waiting[Len(cs)].node = top.node
               /\ waiting[Len(cs)].tries = top.tries \ {try}
               /\ \A c \in 1 .. Len(cs) : c # Len(cs) => waiting[c] = cs[c]
               /\ \A c \in 1 .. Len(cs) : waiting[c].node = cs[c].node /\ waiting[c].tries \subseteq cs[c].tries
<1> DEFINE waiting == OneLess(cs, try)
           L == Len(cs)
           less == [cs[L] EXCEPT !.tries = @ \ {try}]
<1>1. L \in 1 .. L /\ L \in Nat /\ DOMAIN cs = 1 .. L /\ cs \in [1 .. L -> Calls] /\ Last(cs) = cs[L]
  BY DEF Last
<1>2. less \in Calls /\ less.node = cs[L].node /\ less.tries = cs[L].tries \ {try}
  BY <1>1 DEF Calls
<1>3. /\ waiting \in [1 .. L -> Calls] /\ waiting[L] = less
      /\ \A c \in 1 .. L : c # L => waiting[c] = cs[c]
  BY <1>1, <1>2 DEF OneLess
<1>4. waiting \in Seq(Calls) /\ Len(waiting) = L
  BY <1>1, <1>3
<1> HIDE DEF waiting, less
<1>5. \A c \in 1 .. L : waiting[c].node = cs[c].node /\ waiting[c].tries \subseteq cs[c].tries
  BY <1>1, <1>2, <1>3
<1> QED
  BY <1>1, <1>2, <1>3, <1>4, <1>5 DEF waiting

\* What was still to come comes from another try, or from the one that is made now.
LEMMA WhatIsLeft ==
    ASSUME NEW cs \in Seq(Calls), cs # <<>>, NEW try, NEW bag, NEW n, StillToCome(cs, bag, n)
    PROVE  \/ StillToCome(OneLess(cs, try), bag, n)
           \/ /\ Len(Last(cs).node.packs) >= n
              /\ \E w \in FullWays : ToBag(w) = bag /\ Extends(w, After(Last(cs).node, try).packs)
<1> DEFINE waiting == OneLess(cs, try)
<1>1. PICK c \in DOMAIN cs : \E u \in cs[c].tries, w \in FullWays :
        /\ ToBag(w) = bag /\ Len(cs[c].node.packs) >= n
        /\ Extends(w, After(cs[c].node, u).packs)
  BY DEF StillToCome
<1>2. PICK u \in cs[c].tries, w \in FullWays :
        /\ ToBag(w) = bag /\ Len(cs[c].node.packs) >= n
        /\ Extends(w, After(cs[c].node, u).packs)
  BY <1>1
<1>3. /\ waiting \in Seq(Calls) /\ Len(waiting) = Len(cs)
      /\ Last(cs) = cs[Len(cs)] /\ waiting[Len(cs)].tries = Last(cs).tries \ {try}
      /\ \A m \in 1 .. Len(cs) : m # Len(cs) => waiting[m] = cs[m]
      /\ \A m \in 1 .. Len(cs) : waiting[m].node = cs[m].node
  BY OneTryLess
<1> HIDE DEF waiting
<1>4. c \in 1 .. Len(cs) /\ DOMAIN waiting = 1 .. Len(cs)
  BY <1>3
<1>5. CASE c = Len(cs) /\ u = try
  BY <1>2, <1>3, <1>5
<1>6. CASE ~(c = Len(cs) /\ u = try)
  <2>1. u \in waiting[c].tries /\ waiting[c].node = cs[c].node
    BY <1>2, <1>3, <1>4, <1>6
  <2>2. StillToCome(waiting, bag, n)
    BY <1>2, <1>4, <2>1 DEF StillToCome
  <2> QED
    BY <2>2 DEF waiting
<1> QED
  BY <1>5, <1>6

\* What is still to come does not go with more calls.
LEMMA MoreCalls ==
    ASSUME NEW cs \in Seq(Calls), NEW call \in Calls, NEW bag, NEW n, StillToCome(cs, bag, n)
    PROVE  StillToCome(Append(cs, call), bag, n)
<1>1. PICK c \in DOMAIN cs : \E u \in cs[c].tries, w \in FullWays :
        /\ ToBag(w) = bag /\ Len(cs[c].node.packs) >= n
        /\ Extends(w, After(cs[c].node, u).packs)
  BY DEF StillToCome
<1>2. c \in DOMAIN Append(cs, call) /\ Append(cs, call)[c] = cs[c]
  OBVIOUS
<1> QED
  BY <1>1, <1>2 DEF StillToCome

\* A call that begins leads to every way that goes through it.
LEMMA NewCall ==
    ASSUME HandOK, NEW cs \in Seq(Calls), NEW node, BasicNode(node), ~IsComplete(node),
           NEW w \in FullWays, Extends(w, node.packs), NEW n, Len(node.packs) >= n
    PROVE  StillToCome(Append(cs, Call(node)), ToBag(w), n)
<1> DEFINE more == Append(cs, Call(node))
           c == Len(cs) + 1
<1>1. PICK try \in Tries(node), v \in FullWays :
        ToBag(v) = ToBag(w) /\ Extends(v, After(node, try).packs)
  BY SomeTry
<1>2. Call(node) \in Calls /\ Call(node).node = node /\ Call(node).tries = Tries(node)
  BY BasicNodes, CallOf
<1>3. c \in DOMAIN more /\ more[c] = Call(node)
  BY <1>2
<1> HIDE DEF more, c
<1>4. StillToCome(more, ToBag(w), n)
  <2>1. try \in more[c].tries /\ more[c].node = node
    BY <1>1, <1>2, <1>3
  <2> QED
    BY <1>1, <1>3, <2>1 DEF StillToCome
<1> QED
  BY <1>4 DEF more

\* A call without tries may go: nothing was to come from it.
LEMMA BasicReturn ==
    ASSUME HandOK, NEW cs, NEW prefixes, NEW ways, BasicSearch(cs, prefixes, ways),
           cs # <<>>, Last(cs).tries = {}
    PROVE  BasicSearch(Front(cs), prefixes, ways)
<1> DEFINE rest == Front(cs)
<1>1. /\ cs \in Seq(Calls)
      /\ \A c \in DOMAIN cs :
          /\ BasicNode(cs[c].node) /\ ~IsComplete(cs[c].node)
          /\ cs[c].tries \subseteq Tries(cs[c].node)
  BY DEF BasicSearch, BasicCalls
<1>2. /\ rest \in Seq(Calls) /\ DOMAIN rest = 1 .. Len(cs) - 1
      /\ \A c \in 1 .. Len(cs) - 1 : rest[c] = cs[c] /\ c \in DOMAIN cs
  BY <1>1 DEF Front
<1> HIDE DEF rest
<1>3. BasicCalls(rest)
  BY <1>1, <1>2 DEF BasicCalls
<1>4. ASSUME NEW bag, NEW n, StillToCome(cs, bag, n) PROVE StillToCome(rest, bag, n)
  <2>1. PICK c \in DOMAIN cs : \E u \in cs[c].tries, w \in FullWays :
          /\ ToBag(w) = bag /\ Len(cs[c].node.packs) >= n
          /\ Extends(w, After(cs[c].node, u).packs)
    BY <1>4 DEF StillToCome
  <2>2. c # Len(cs)
    BY <2>1 DEF Last
  <2>3. c \in DOMAIN rest /\ rest[c] = cs[c]
    BY <1>1, <1>2, <2>2
  <2> QED
    BY <2>1, <2>3 DEF StillToCome
<1>5. NothingLost(rest, prefixes, ways)
  BY <1>4 DEF BasicSearch, NothingLost, Met
<1> QED
  BY <1>3, <1>5 DEF BasicSearch, rest

\* A try loses no way.  What is not found yet, and would come from it, is known to
\* come from elsewhere if its prefix has been seen; is found if it is complete; and
\* comes from the new call otherwise.
LEMMA BasicTry ==
    ASSUME HandOK, NEW cs, NEW prefixes, NEW ways, BasicSearch(cs, prefixes, ways),
           cs # <<>>, NEW try \in Last(cs).tries
    PROVE  LET next == After(Last(cs).node, try)
               code == PacksHashcode(next.packs)
               waiting == OneLess(cs, try)
           IN  /\ code \in prefixes => BasicSearch(waiting, prefixes \cup {code}, ways)
               /\ code \notin prefixes /\ ~IsComplete(next) =>
                     BasicSearch(Append(waiting, Call(next)), prefixes \cup {code}, ways)
               /\ code \notin prefixes /\ IsComplete(next) =>
                     BasicSearch(waiting, prefixes \cup {code}, ways \cup {next.packs})
<1> DEFINE top == Last(cs)
           next == After(top.node, try)
           code == PacksHashcode(next.packs)
           waiting == OneLess(cs, try)
           L == Len(top.node.packs)
<1>1. /\ cs \in Seq(Calls) /\ prefixes \subseteq Seq(Packs) /\ ways \subseteq FullWays
      /\ NothingLost(cs, prefixes, ways)
      /\ \A c \in DOMAIN cs :
          /\ BasicNode(cs[c].node) /\ ~IsComplete(cs[c].node)
          /\ cs[c].tries \subseteq Tries(cs[c].node)
  BY DEF BasicSearch, BasicCalls
<1>2. /\ waiting \in Seq(Calls) /\ Len(waiting) = Len(cs)
      /\ Len(cs) \in DOMAIN cs /\ top = cs[Len(cs)]
      /\ waiting[Len(cs)].tries = top.tries \ {try}
      /\ \A c \in 1 .. Len(cs) : c # Len(cs) => waiting[c] = cs[c]
      /\ \A c \in 1 .. Len(cs) : waiting[c].node = cs[c].node /\ waiting[c].tries \subseteq cs[c].tries
  BY <1>1, OneTryLess
<1>3. BasicNode(top.node) /\ try \in Tries(top.node) /\ top.node.packs \in Seq(Packs) /\ L \in Nat
  <2>1. BasicNode(top.node) /\ try \in Tries(top.node)
    BY <1>1, <1>2
  <2> QED
    BY <2>1 DEF BasicNode
<1>4. BasicNode(next) /\ Len(next.packs) = L + 1 /\ code = next.packs
  BY <1>3, BasicAfter
<1>5. next.packs \in Seq(Packs) /\ next \in Nodes
  BY <1>4, BasicNodes DEF Nodes
<1> HIDE DEF top, next, code, waiting, L
<1>6. BasicCalls(waiting)
  <2>1. DOMAIN waiting = 1 .. Len(cs) /\ DOMAIN cs = 1 .. Len(cs)
    BY <1>1, <1>2
  <2> QED
    BY <1>1, <1>2, <2>1 DEF BasicCalls
\* What was to come comes from another try, or goes through the new prefix.
<1>7. ASSUME NEW q \in prefixes \cup {<<>>}, NEW w \in FullWays, Extends(w, q)
      PROVE  \/ Met(waiting, ways, ToBag(w), Len(q))
             \/ L >= Len(q) /\ \E v \in FullWays : ToBag(v) = ToBag(w) /\ Extends(v, next.packs)
  <2>1. Met(cs, ways, ToBag(w), Len(q))
    BY <1>1, <1>7 DEF NothingLost
  <2>2. CASE StillToCome(cs, ToBag(w), Len(q))
    BY <1>1, <2>2, WhatIsLeft DEF Met, top, next, waiting, L
  <2>3. CASE ~StillToCome(cs, ToBag(w), Len(q))
    BY <2>1, <2>3 DEF Met
  <2> QED
    BY <2>2, <2>3
<1>8. ASSUME code \in prefixes
      PROVE  BasicSearch(waiting, prefixes \cup {code}, ways)
  <2>1. prefixes \cup {code} = prefixes
    BY <1>8
  <2>2. ASSUME NEW q \in prefixes \cup {<<>>}, NEW w \in FullWays, Extends(w, q)
        PROVE  Met(waiting, ways, ToBag(w), Len(q))
    <3>1. CASE \E v \in FullWays : ToBag(v) = ToBag(w) /\ Extends(v, next.packs) /\ L >= Len(q)
      <4>1. PICK v \in FullWays : ToBag(v) = ToBag(w) /\ Extends(v, next.packs) /\ L >= Len(q)
        BY <3>1
      <4>2. Met(cs, ways, ToBag(w), L + 1)
        BY <1>1, <1>4, <1>8, <4>1 DEF NothingLost
      <4>3. CASE StillToCome(cs, ToBag(w), L + 1)
        <5>1. PICK c \in DOMAIN cs : \E u \in cs[c].tries, x \in FullWays :
                /\ ToBag(x) = ToBag(w) /\ Len(cs[c].node.packs) >= L + 1
                /\ Extends(x, After(cs[c].node, u).packs)
          BY <4>3 DEF StillToCome
        <5>2. c # Len(cs)
          BY <1>2, <1>3, <5>1 DEF L
        <5>3. c \in 1 .. Len(cs) /\ waiting[c] = cs[c] /\ c \in DOMAIN waiting
          BY <1>1, <1>2, <5>2
        <5>4. Len(q) \in Nat /\ Len(cs[c].node.packs) \in Nat
          <6>1. cs[c].node \in Nodes
            BY <1>1, <5>3, BasicNodes
          <6> QED
            BY <1>1, <6>1 DEF Nodes
        <5>5. Len(cs[c].node.packs) >= Len(q)
          BY <1>3, <4>1, <5>1, <5>4
        <5>6. StillToCome(waiting, ToBag(w), Len(q))
          BY <5>1, <5>3, <5>5 DEF StillToCome
        <5> QED
          BY <5>6 DEF Met
      <4>4. CASE ~StillToCome(cs, ToBag(w), L + 1)
        BY <4>2, <4>4 DEF Met
      <4> QED
        BY <4>3, <4>4
    <3>2. CASE ~\E v \in FullWays : ToBag(v) = ToBag(w) /\ Extends(v, next.packs) /\ L >= Len(q)
      BY <1>7, <2>2, <3>2
    <3> QED
      BY <3>1, <3>2
  <2>3. NothingLost(waiting, prefixes, ways)
    BY <2>2 DEF NothingLost
  <2> QED
    BY <1>1, <1>6, <2>1, <2>3 DEF BasicSearch
<1>9. ASSUME code \notin prefixes, ~IsComplete(next)
      PROVE  BasicSearch(Append(waiting, Call(next)), prefixes \cup {code}, ways)
  <2> DEFINE more == Append(waiting, Call(next))
  <2>1. Call(next) \in Calls /\ Call(next).node = next /\ Call(next).tries = Tries(next)
    BY <1>5, CallOf
  <2>2. BasicCalls(more)
    <3>1. more \in Seq(Calls) /\ DOMAIN more = 1 .. Len(waiting) + 1
          /\ more[Len(waiting) + 1] = Call(next) /\ DOMAIN waiting = 1 .. Len(waiting)
          /\ \A c \in 1 .. Len(waiting) : more[c] = waiting[c]
      BY <1>2, <2>1
    <3> HIDE DEF more
    <3>2. ASSUME NEW c \in DOMAIN more
          PROVE  /\ BasicNode(more[c].node) /\ ~IsComplete(more[c].node)
                 /\ more[c].tries \subseteq Tries(more[c].node)
      <4>1. CASE c = Len(waiting) + 1
        BY <1>4, <1>9, <2>1, <3>1, <4>1
      <4>2. CASE c # Len(waiting) + 1
        <5>1. c \in 1 .. Len(waiting)
          <6> DEFINE n == Len(waiting)
          <6>1. n \in Nat
            BY <1>2
          <6>2. c \in 1 .. n + 1
            BY <3>1
          <6>0. c # n + 1
            BY <4>2
          <6> HIDE DEF n
          <6>3. c \in 1 .. n
            BY <6>0, <6>1, <6>2
          <6> QED
            BY <6>3 DEF n
        <5> QED
          BY <1>6, <3>1, <5>1 DEF BasicCalls
      <4> QED
        BY <4>1, <4>2
    <3> QED
      BY <3>1, <3>2 DEF BasicCalls
  <2>3. ASSUME NEW v \in FullWays, Extends(v, next.packs), NEW n, L + 1 >= n
        PROVE  Met(more, ways, ToBag(v), n)
    <3>1. StillToCome(more, ToBag(v), n)
      BY <1>2, <1>4, <1>9, <2>3, NewCall
    <3> QED
      BY <3>1 DEF Met
  <2>4. ASSUME NEW q \in prefixes \cup {<<>>}, NEW w \in FullWays, Extends(w, q)
        PROVE  Met(more, ways, ToBag(w), Len(q))
    <3>1. CASE Met(waiting, ways, ToBag(w), Len(q))
      <4>1. StillToCome(waiting, ToBag(w), Len(q)) => StillToCome(more, ToBag(w), Len(q))
        BY <1>2, <2>1, MoreCalls
      <4> QED
        BY <3>1, <4>1 DEF Met
    <3>2. CASE ~Met(waiting, ways, ToBag(w), Len(q))
      <4>1. PICK v \in FullWays : ToBag(v) = ToBag(w) /\ Extends(v, next.packs) /\ L >= Len(q)
        BY <1>7, <2>4, <3>2
      <4>2. L + 1 >= Len(q)
        <5>1. Len(q) \in Nat
          BY <1>1
        <5> QED
          BY <1>3, <4>1, <5>1
      <4>3. Met(more, ways, ToBag(v), Len(q))
        BY <2>3, <4>1, <4>2
      <4> QED
        BY <4>1, <4>3
    <3> QED
      BY <3>1, <3>2
  <2>5. ASSUME NEW w \in FullWays, Extends(w, code)
        PROVE  Met(more, ways, ToBag(w), Len(code))
    BY <1>3, <1>4, <2>3, <2>5
  <2> HIDE DEF more
  <2>6. NothingLost(more, prefixes \cup {code}, ways)
    BY <2>4, <2>5 DEF NothingLost
  <2>7. prefixes \cup {code} \subseteq Seq(Packs)
    BY <1>1, <1>4, <1>5
  <2> QED
    BY <1>1, <2>2, <2>6, <2>7 DEF BasicSearch, more
<1>10. ASSUME code \notin prefixes, IsComplete(next)
       PROVE  BasicSearch(waiting, prefixes \cup {code}, ways \cup {next.packs})
  <2> DEFINE more == ways \cup {next.packs}
  <2>1. next.packs \in FullWays /\ Len(next.packs) = Parts
    BY <1>4, <1>10, CompleteIsFull
  <2>2. ASSUME NEW v \in FullWays, Extends(v, next.packs), NEW n
        PROVE  Met(waiting, more, ToBag(v), n)
    <3>1. v = next.packs
      BY <2>1, <2>2, FullIsComplete
    <3> QED
      BY <3>1 DEF Met
  <2>3. ASSUME NEW q \in prefixes \cup {<<>>}, NEW w \in FullWays, Extends(w, q)
        PROVE  Met(waiting, more, ToBag(w), Len(q))
    <3>1. CASE Met(waiting, ways, ToBag(w), Len(q))
      BY <3>1 DEF Met
    <3>2. CASE ~Met(waiting, ways, ToBag(w), Len(q))
      <4>1. PICK v \in FullWays : ToBag(v) = ToBag(w) /\ Extends(v, next.packs)
        BY <1>7, <2>3, <3>2
      <4>2. Met(waiting, more, ToBag(v), Len(q))
        BY <2>2, <4>1
      <4> QED
        BY <4>1, <4>2
    <3> QED
      BY <3>1, <3>2
  <2>4. ASSUME NEW w \in FullWays, Extends(w, code)
        PROVE  Met(waiting, more, ToBag(w), Len(code))
    BY <1>4, <2>2, <2>4
  <2>5. more \subseteq FullWays
    BY <1>1, <2>1
  <2> HIDE DEF more
  <2>6. NothingLost(waiting, prefixes \cup {code}, more)
    BY <2>3, <2>4 DEF NothingLost
  <2>7. prefixes \cup {code} \subseteq Seq(Packs)
    BY <1>1, <1>4, <1>5
  <2> QED
    BY <1>6, <2>5, <2>6, <2>7 DEF BasicSearch, more
<1> QED
  BY <1>8, <1>9, <1>10 DEF top, next, code, waiting

\* A search begins with all tiles free.
LEMMA BasicBegins ==
    ASSUME HandOK
    PROVE  BasicSearch(BasicDfs, {}, {})
<1> DEFINE root == [free |-> 1 .. HandSize, mianzi_cnt |-> 4 - Melds, duizi_cnt |-> 1, packs |-> <<>>]
<1>1. BasicDfs = <<Call(root)>> /\ root.packs = <<>> /\ root.free = 1 .. HandSize
  BY DEF BasicDfs, Dfs, HandOK
<1>2. BasicNode(root) /\ ~IsComplete(root)
  <2>1. 4 - Melds \in Nat /\ Parts = (4 - Melds) + 1 /\ HandSize = 3 * (4 - Melds) + 2
    BY MeldsAssumption DEF Parts, HandSize
  <2>2. Cardinality(1 .. HandSize) = HandSize
    BY HandSizes, FS_Interval
  <2>3. \A t \in Tiles : TakenBy(root.packs, t) + FreeOf(root.free, t) = Held[t]
    <3> TAKE t \in Tiles
    <3>1. TakenBy(<<>>, t) = 0
      BY TakenByNone
    <3>2. FreeOf(1 .. HandSize, t) = Held[t] /\ FreeOf(1 .. HandSize, t) \in Nat
      BY FreeOfAll, FreeOfFinite
    <3> QED
      BY <3>1, <3>2
  <2>4. root \in [free : SUBSET (1 .. HandSize), mianzi_cnt : Nat, duizi_cnt : {0, 1},
                   packs : Seq(Packs)]
    BY <2>1
  <2>5. OnePair(<<>>) /\ OneLast(<<>>) /\ ~HasPair(<<>>)
    BY DEF OnePair, OneLast, HasPair
  <2>6. last \in 1 .. HandSize
    BY DEF HandOK
  <2> QED
    BY <2>1, <2>2, <2>3, <2>4, <2>5, <2>6 DEF BasicNode, IsComplete
<1> HIDE DEF root
<1>3. Call(root) \in Calls /\ Call(root).node = root /\ Call(root).tries = Tries(root)
  BY <1>2, BasicNodes, CallOf
<1>4. /\ BasicDfs \in Seq(Calls) /\ DOMAIN BasicDfs = {1} /\ BasicDfs[1] = Call(root)
      /\ BasicDfs = Append(<<>>, Call(root))
  BY <1>1, <1>3
<1>5. BasicCalls(BasicDfs)
  BY <1>2, <1>3, <1>4 DEF BasicCalls
<1>6. ASSUME NEW w \in FullWays
      PROVE  StillToCome(BasicDfs, ToBag(w), 0)
  <2>1. Len(root.packs) >= 0 /\ Extends(w, root.packs)
    BY <1>1, HandSizes DEF Extends
  <2>2. <<>> \in Seq(Calls)
    OBVIOUS
  <2>3. StillToCome(Append(<<>>, Call(root)), ToBag(w), 0)
    BY <1>2, <2>1, <2>2, NewCall
  <2> QED
    BY <1>4, <2>3
<1>7. NothingLost(BasicDfs, {}, {})
  BY <1>6 DEF NothingLost, Met
<1> QED
  BY <1>5, <1>7 DEF BasicSearch

-----------------------------------------------------------------------------
(* The hand is sorted.                                                     *)

\* How many tiles there are up to one is a number.
LEMMA UpToType ==
    ASSUME NEW n \in [Tiles -> 0 .. 4], NEW t \in 0 .. Suits * Ranks + Honours
    PROVE  /\ IsFiniteSet({copy \in (1 .. t) \X (1 .. 4) : copy[2] <= n[copy[1]]})
           /\ UpTo(n, t) \in Nat
<1> DEFINE C == {copy \in (1 .. t) \X (1 .. 4) : copy[2] <= n[copy[1]]}
<1>1. t \in Nat /\ 1 \in Int /\ 4 \in Int
  BY TileNumbers, TilesAssumption
<1>2. IsFiniteSet(1 .. t) /\ IsFiniteSet(1 .. 4)
  <2>1. IsFiniteSet(1 .. t)
    BY <1>1, FS_Interval
  <2>2. IsFiniteSet(1 .. 4)
    <3> HIDE DEF C
    <3> QED
      BY <1>1, FS_Interval
  <2> QED
    BY <2>1, <2>2
<1>3. IsFiniteSet((1 .. t) \X (1 .. 4))
  BY <1>2, FS_Product
<1>4. C \in SUBSET ((1 .. t) \X (1 .. 4))
  OBVIOUS
<1>5. IsFiniteSet(C) /\ Cardinality(C) \in Nat
  BY <1>3, <1>4, FS_Subset, FS_CardinalityType
<1> QED
  BY <1>5 DEF UpTo

\* One tile on, its copies are added,
LEMMA UpToStep ==
    ASSUME NEW n \in [Tiles -> 0 .. 4], NEW t \in Tiles
    PROVE  UpTo(n, t) = UpTo(n, t - 1) + n[t]
<1> DEFINE C(m) == {copy \in (1 .. m) \X (1 .. 4) : copy[2] <= n[copy[1]]}
           column == {t} \X (1 .. n[t])
<1>1. /\ t \in Nat /\ t - 1 \in Nat /\ t \in 0 .. Suits * Ranks + Honours
      /\ t - 1 \in 0 .. Suits * Ranks + Honours /\ n[t] \in Nat /\ n[t] <= 4
  BY TileNumbers, TilesAssumption DEF Tiles
<1>2. C(t) = C(t - 1) \cup column
  <2>1. C(t) \subseteq C(t - 1) \cup column
    <3> SUFFICES ASSUME NEW c \in C(t), c \notin C(t - 1) PROVE c \in column
      OBVIOUS
    <3>1. c \in (1 .. t) \X (1 .. 4) /\ c[2] <= n[c[1]] /\ c = <<c[1], c[2]>>
      OBVIOUS
    <3>2. c[1] = t
      BY <1>1, <3>1
    <3> QED
      BY <1>1, <3>1, <3>2
  <2>2. C(t - 1) \subseteq C(t)
    BY <1>1
  <2>3. column \subseteq C(t)
    BY <1>1
  <2> QED
    BY <2>1, <2>2, <2>3
<1>3. C(t - 1) \cap column = {}
  BY <1>1
<1>4. IsFiniteSet(C(t - 1)) /\ IsFiniteSet(C(t)) /\ UpTo(n, t - 1) = Cardinality(C(t - 1))
      /\ UpTo(n, t) = Cardinality(C(t)) /\ UpTo(n, t - 1) \in Nat
  BY <1>1, UpToType DEF UpTo
<1>5. IsFiniteSet(column) /\ Cardinality(column) = n[t]
  BY <1>1, ColumnSize
<1> DEFINE before == C(t - 1)
           after == C(t)
           low == UpTo(n, t - 1)
<1>6. /\ after = before \cup column /\ before \cap column = {} /\ IsFiniteSet(before)
      /\ low = Cardinality(before) /\ low \in Nat /\ UpTo(n, t) = Cardinality(after)
  BY <1>2, <1>3, <1>4
<1> HIDE DEF C, column, before, after
<1>7. Cardinality(before \cup column) = Cardinality(before) + Cardinality(column) - Cardinality({})
  BY <1>5, <1>6, FS_Union
<1>8. UpTo(n, t) = low + n[t]
  <2> HIDE DEF low
  <2>1. Cardinality({}) = 0
    BY FS_EmptySet
  <2> QED
    BY <1>1, <1>5, <1>6, <1>7, <2>1
<1> QED
  BY <1>8

\* so that there are not fewer.
LEMMA UpToGrows ==
    ASSUME NEW n \in [Tiles -> 0 .. 4],
           NEW s \in 0 .. Suits * Ranks + Honours, NEW t \in 0 .. Suits * Ranks + Honours, s <= t
    PROVE  UpTo(n, s) <= UpTo(n, t)
<1> DEFINE C(m) == {copy \in (1 .. m) \X (1 .. 4) : copy[2] <= n[copy[1]]}
<1>1. C(s) \subseteq C(t)
  OBVIOUS
<1>2. IsFiniteSet(C(t)) /\ UpTo(n, s) = Cardinality(C(s)) /\ UpTo(n, t) = Cardinality(C(t))
  BY UpToType DEF UpTo
<1> HIDE DEF C
<1> QED
  BY <1>1, <1>2, FS_Subset

\* Each place has the tile whose copies reach up to it.
LEMMA SortedTile ==
    ASSUME NEW n \in Holdings, NEW i \in 1 .. HandSize
    PROVE  /\ Sorted(n)[i] \in Tiles
           /\ UpTo(n, Sorted(n)[i] - 1) < i /\ i <= UpTo(n, Sorted(n)[i])
<1> DEFINE N == Suits * Ranks + Honours
           T == {t \in 0 .. N : i <= UpTo(n, t)}
<1>1. N \in Nat /\ HandSize \in Nat /\ n \in [Tiles -> 0 .. 4] /\ UpTo(n, N) = HandSize
  BY TileNumbers, TilesAssumption, HandSizes DEF Holdings
<1>2. T \subseteq Nat /\ T # {}
  <2>1. N \in T
    BY <1>1
  <2> QED
    BY <2>1
<1>3. PICK t \in T : \A s \in T : t <= s
  <2> HIDE DEF T
  <2> QED
    BY <1>2, LeastNumber
<1>4. UpTo(n, 0) = 0
  <2>1. {copy \in (1 .. 0) \X (1 .. 4) : copy[2] <= n[copy[1]]} = {}
    OBVIOUS
  <2> QED
    BY <2>1, FS_EmptySet DEF UpTo
<1>5. t # 0 /\ i <= UpTo(n, t) /\ t \in 0 .. N
  BY <1>3, <1>4
<1>6. t \in Tiles /\ t - 1 \in 0 .. N
  BY <1>1, <1>5 DEF Tiles
<1>7. UpTo(n, t - 1) < i
  <2>1. t - 1 \notin T
    BY <1>3, <1>5
  <2>2. ~(i <= UpTo(n, t - 1))
    BY <1>6, <2>1
  <2>3. UpTo(n, t - 1) \in Nat
    BY <1>1, <1>6, UpToType
  <2> QED
    BY <2>2, <2>3
<1>8. \E u \in Tiles : UpTo(n, u - 1) < i /\ i <= UpTo(n, u)
  BY <1>5, <1>6, <1>7
<1>9. Sorted(n)[i] = CHOOSE u \in Tiles : UpTo(n, u - 1) < i /\ i <= UpTo(n, u)
  BY DEF Sorted
<1> QED
  BY <1>8, <1>9

\* The hand that the search begins with is sorted and has no more of a tile than are left.
LEMMA SortedHand ==
    ASSUME Init
    PROVE  HandOK
<1> DEFINE N == Suits * Ranks + Honours
<1>1. PICK n \in Holdings : lipai = Sorted(n)
  BY DEF Init
<1>2. /\ n \in [Tiles -> 0 .. 4] /\ N \in Nat /\ HandSize \in Nat
      /\ \A t \in Tiles : n[t] <= Left[t]
      /\ \A t \in Tiles : t \in 0 .. N /\ t - 1 \in 0 .. N /\ t \in Nat
  BY TileNumbers, TilesAssumption, HandSizes DEF Holdings, Tiles
<1>3. \A i \in 1 .. HandSize : /\ lipai[i] \in Tiles
                               /\ UpTo(n, lipai[i] - 1) < i /\ i <= UpTo(n, lipai[i])
  BY <1>1, SortedTile
<1>4. lipai \in [1 .. HandSize -> Tiles]
  <2>1. DOMAIN lipai = 1 .. HandSize /\ lipai = [i \in 1 .. HandSize |-> lipai[i]]
    BY <1>1 DEF Sorted
  <2> QED
    BY <1>3, <2>1
<1>5. ASSUME NEW i \in 1 .. HandSize, NEW j \in 1 .. HandSize, i < j
      PROVE  lipai[i] <= lipai[j]
  <2>1. lipai[i] \in Tiles /\ lipai[j] \in Tiles /\ lipai[i] \in Nat /\ lipai[j] \in Nat
    BY <1>2, <1>3
  <2>2. SUFFICES ASSUME lipai[j] < lipai[i] PROVE FALSE
    BY <2>1
  <2>3. UpTo(n, lipai[j]) <= UpTo(n, lipai[i] - 1)
    BY <1>2, <2>1, <2>2, UpToGrows
  <2>4. UpTo(n, lipai[j]) \in Nat /\ UpTo(n, lipai[i] - 1) \in Nat
    BY <1>2, <2>1, UpToType
  <2>5. UpTo(n, lipai[i] - 1) < i /\ j <= UpTo(n, lipai[j])
    BY <1>3
  <2> QED
    BY <1>2, <1>5, <2>3, <2>4, <2>5
<1>6. ASSUME NEW t \in Tiles PROVE Held[t] <= Left[t]
  <2> DEFINE low == UpTo(n, t - 1)
             high == UpTo(n, t)
             S == {i \in DOMAIN lipai : lipai[i] = t}
  <2>1. low \in Nat /\ high \in Nat /\ high = low + n[t] /\ n[t] \in Nat
    <3>1. t \in 0 .. N /\ t - 1 \in 0 .. N
      BY <1>2
    <3>2. low \in Nat /\ high \in Nat
      BY <1>2, <3>1, UpToType
    <3>3. high = low + n[t] /\ n[t] \in Nat
      BY <1>2, UpToStep
    <3> QED
      BY <3>2, <3>3
  <2>2. S \subseteq (low + 1) .. high
    <3> SUFFICES ASSUME NEW i \in S PROVE i \in (low + 1) .. high
      OBVIOUS
    <3>1. i \in 1 .. HandSize /\ low < i /\ i <= high
      BY <1>3, <1>4
    <3> HIDE DEF low, high, S
    <3> QED
      BY <1>2, <2>1, <3>1
  <2> HIDE DEF low, high
  <2>3. IsFiniteSet((low + 1) .. high) /\ Cardinality((low + 1) .. high) = n[t]
    <3>1. low + 1 \in Int /\ high \in Int
      BY <2>1
    <3>2. Cardinality((low + 1) .. high) = IF low + 1 > high THEN 0 ELSE high - (low + 1) + 1
      BY <3>1, FS_Interval
    <3>3. (high - (low + 1)) + 1 = n[t]
      BY <2>1
    <3>4. Cardinality((low + 1) .. high) = n[t]
      BY <2>1, <3>2, <3>3
    <3> QED
      BY <3>1, <3>4, FS_Interval
  <2>4. Cardinality(S) <= n[t]
    <3> HIDE DEF S
    <3> QED
      BY <2>2, <2>3, FS_Subset
  <2>5. Held[t] = Cardinality(S)
    BY DEF Held
  <2>6. Cardinality(S) \in Nat /\ Left[t] \in Nat
    <3> HIDE DEF S
    <3>1. IsFiniteSet(S)
      BY <2>2, <2>3, FS_Subset
    <3>2. Left[t] \in Nat
      BY LeftAssumption
    <3> QED
      BY <3>1, <3>2, FS_CardinalityType
  <2> HIDE DEF S
  <2> QED
    BY <1>2, <2>1, <2>4, <2>5, <2>6
<1>7. last \in 1 .. HandSize
  BY <1>4 DEF Init
<1> QED
  BY <1>4, <1>5, <1>6, <1>7 DEF HandOK

-----------------------------------------------------------------------------
(* The steps of the search for seven pairs.                                *)

\* What the search for pairs keeps of a node is its type, too.
LEMMA PairNodes ==
    ASSUME NEW node, PairNode(node)
    PROVE  node \in Nodes
BY DEF PairNode, Nodes

\* A try takes a pair, and leaves what was even even.
LEMMA PairAfter ==
    ASSUME HandOK, NEW node, PairNode(node), NEW try \in Tries(node)
    PROVE  /\ PairNode(After(node, try))
           /\ After(node, try).packs = Append(node.packs, Made(node, try))
           /\ Made(node, try) \in Packs
<1> DEFINE p == Made(node, try)
           next == After(node, try)
           packs == node.packs
           free == node.free
           more == Append(packs, p)
<1>1. /\ free \in SUBSET (1 .. HandSize) /\ node.mianzi_cnt = 0 /\ node.duizi_cnt \in Nat
      /\ packs \in Seq(Packs)
      /\ Len(packs) + node.duizi_cnt = 7
      /\ Cardinality(free) = 2 * node.duizi_cnt
      /\ \A k \in DOMAIN packs : packs[k].type = "Jiang"
      /\ \A t \in Tiles : (Held[t] - FreeOf(free, t)) % 2 = 0
      /\ \A t \in Tiles : TakenBy(packs, t) + FreeOf(free, t) = Held[t]
  BY DEF PairNode
<1>2. Makes(node, try, p)
  BY <1>1, TryMakes
<1>3. /\ p \in Packs /\ next.packs = more /\ next.free \subseteq free
      /\ \A t \in Tiles : FreeOf(next.free, t) = FreeOf(free, t) - TilesTaken(p, t)
      /\ p.type = "Jiang"
      /\ node.duizi_cnt > 0 /\ next.duizi_cnt = node.duizi_cnt - 1
      /\ next.mianzi_cnt = 0
      /\ Cardinality(next.free) = Cardinality(free) - 2
  BY <1>1, <1>2 DEF Makes
<1>4. /\ more \in Seq(Packs) /\ Len(more) = Len(packs) + 1
      /\ \A k \in DOMAIN more : more[k].type = "Jiang"
  BY <1>1, <1>3
<1>5. DOMAIN next = {"free", "mianzi_cnt", "duizi_cnt", "packs"}
      /\ next = [free |-> next.free, mianzi_cnt |-> next.mianzi_cnt,
                 duizi_cnt |-> next.duizi_cnt, packs |-> next.packs]
  BY DEF After
<1> HIDE DEF p, next, packs, free
<1>6. ASSUME NEW t \in Tiles
      PROVE  /\ (Held[t] - FreeOf(next.free, t)) % 2 = 0
             /\ TakenBy(more, t) + FreeOf(next.free, t) = Held[t]
  <2> DEFINE h == Held[t]
             f == FreeOf(free, t)
             x == TilesTaken(p, t)
             y == TakenBy(packs, t)
             g == FreeOf(next.free, t)
             z == TakenBy(more, t)
  <2>1. x \in {0, 2}
    BY <1>3 DEF TilesTaken
  <2>2. f \in Nat /\ h \in Nat
    <3>1. FreeOf(1 .. HandSize, t) \in Nat /\ FreeOf(1 .. HandSize, t) = Held[t]
      BY FreeOfFinite, FreeOfAll
    <3> QED
      BY <1>1, <3>1, FreeOfFinite
  <2>3. y \in Nat
    <3>1. Len(packs) \in Nat /\ DOMAIN packs = 1 .. Len(packs)
      BY <1>1
    <3> QED
      BY <3>1, CopiesFinite
  <2>4. z = y + x
    BY <1>1, <1>3, TakenByAppend
  <2>5. g = f - x /\ (h - f) % 2 = 0 /\ y + f = h
    BY <1>1, <1>3
  <2> HIDE DEF h, f, x, y, g, z
  <2>6. (h - g) % 2 = 0 /\ z + g = h
    BY <2>1, <2>2, <2>3, <2>4, <2>5
  <2> QED
    BY <2>6 DEF h, g, z
<1>7. next \in [free : SUBSET (1 .. HandSize), mianzi_cnt : {0}, duizi_cnt : Nat, packs : Seq(Packs)]
  <2>1. next.free \in SUBSET (1 .. HandSize)
    BY <1>1, <1>3
  <2>2. next.duizi_cnt \in Nat
    BY <1>1, <1>3
  <2>3. next.packs \in Seq(Packs)
    BY <1>3, <1>4
  <2> QED
    BY <1>3, <1>5, <2>1, <2>2, <2>3
<1>8. Len(more) + next.duizi_cnt = 7 /\ Cardinality(next.free) = 2 * next.duizi_cnt
  <2>1. Len(packs) \in Nat
    BY <1>1
  <2> HIDE DEF more
  <2> QED
    BY <1>1, <1>3, <1>4, <2>1
<1>9. PairNode(next)
  <2> HIDE DEF more
  <2> QED
    BY <1>3, <1>4, <1>6, <1>7, <1>8 DEF PairNode
<1> QED
  BY <1>3, <1>9 DEF p, next, packs

\* Seven pairs are an even hand.
LEMMA PairsAreEven ==
    ASSUME HandOK, NEW node, PairNode(node), IsComplete(node)
    PROVE  AllEven
<1>1. /\ node.free \in SUBSET (1 .. HandSize)
      /\ Cardinality(node.free) = 0
      /\ \A t \in Tiles : (Held[t] - FreeOf(node.free, t)) % 2 = 0
  BY DEF PairNode, IsComplete
<1>2. node.free = {}
  BY <1>1, FreeOfFinite, FS_EmptySet
<1>3. ASSUME NEW t \in Tiles PROVE Held[t] \in {0, 2, 4}
  <2>1. FreeOf(node.free, t) = 0
    BY <1>2, FreeOfNone
  <2>2. Held[t] \in Nat
    BY FreeOfFinite, FreeOfAll
  <2>3. Held[t] <= 4
    <3>1. Held[t] <= Left[t] /\ Left[t] \in 0 .. 4
      BY LeftAssumption DEF HandOK
    <3> QED
      BY <2>2, <3>1
  <2>4. (Held[t] - 0) % 2 = 0
    BY <1>1, <2>1
  <2> DEFINE h == Held[t]
  <2>5. h \in Nat /\ h <= 4 /\ (h - 0) % 2 = 0
    BY <2>2, <2>3, <2>4
  <2> HIDE DEF h
  <2>6. h \in {0, 2, 4}
    BY <2>5
  <2> QED
    BY <2>6 DEF h
<1> QED
  BY <1>3 DEF AllEven

\* In an even hand every tile finds its equal.
LEMMA EvenGoesOn ==
    ASSUME HandOK, AllEven, NEW node, PairNode(node), node.duizi_cnt > 0
    PROVE  Tries(node) # {}
<1> DEFINE free == node.free
           start == Min(free)
           a == lipai[start]
           S == {i \in free : lipai[i] = a}
<1>1. /\ free \in SUBSET (1 .. HandSize) /\ Cardinality(free) = 2 * node.duizi_cnt
      /\ node.duizi_cnt \in Nat /\ node.mianzi_cnt = 0
      /\ \A t \in Tiles : (Held[t] - FreeOf(free, t)) % 2 = 0
  BY DEF PairNode
<1>2. free # {}
  <2>1. Cardinality(free) # 0
    <3> HIDE DEF free
    <3> QED
      BY <1>1
  <2> QED
    BY <2>1, FS_EmptySet
<1>3. start \in free /\ a \in Tiles /\ (\A i \in free : start <= i) /\ free \subseteq Nat
  <2>1. free \subseteq Nat /\ \A i \in 1 .. HandSize : lipai[i] \in Tiles
    BY <1>1, HandSizes DEF HandOK
  <2>2. start \in free /\ \A i \in free : start <= i
    BY <1>2, <2>1, MinIsLeast
  <2> QED
    BY <1>1, <2>1, <2>2
<1> HIDE DEF free, start, a
<1>4. IsFiniteSet(S) /\ FreeOf(free, a) = Cardinality(S) /\ FreeOf(free, a) \in Nat /\ start \in S
  BY <1>1, <1>3, FreeOfFinite DEF FreeOf, a
<1>5. Cardinality(S) > 1
  <2> DEFINE f == Cardinality(S)
             h == Held[a]
  <2>1. f # 0
    <3> HIDE DEF S
    <3> QED
      BY <1>4, FS_EmptySet
  <2>2. h \in {0, 2, 4} /\ (h - f) % 2 = 0 /\ f \in Nat
    BY <1>1, <1>3, <1>4 DEF AllEven
  <2> HIDE DEF f, h
  <2>3. f > 1
    BY <2>1, <2>2
  <2> QED
    BY <2>3 DEF f
<1>6. S \ {start} # {}
  <2> HIDE DEF S
  <2> QED
    BY <1>4, <1>5, OtherElement
<1>7. PICK i \in free : i # start /\ lipai[i] = a
  BY <1>6
<1>8. i > start
  BY <1>3, <1>7
<1>9. i \in Nearby(free, start)
  BY <1>7, <1>8 DEF Nearby, Judge2SameOrAdjacent, a
<1>10. <<i, 0>> \in Tries(node)
  BY <1>2, <1>7, <1>9 DEF Tries, free, start, a
<1> QED
  BY <1>10

\* More than two packs of a pair each do not have the same tile.
LEMMA NoThreeAlike ==
    ASSUME HandOK, NEW node, PairNode(node), Len(node.packs) = 7
    PROVE  ~(node.packs[2] = node.packs[3] /\ node.packs[3] = node.packs[4])
<1> SUFFICES ASSUME node.packs[2] = node.packs[3], node.packs[3] = node.packs[4] PROVE FALSE
  OBVIOUS
<1> DEFINE packs == node.packs
           t == packs[2].middle
           block == (2 .. 4) \X (1 .. 2)
<1>1. /\ packs \in Seq(Packs) /\ DOMAIN packs = 1 .. 7
      /\ \A k \in 1 .. 7 : packs[k].type = "Jiang" /\ packs[k] \in Packs
      /\ \A u \in Tiles : TakenBy(packs, u) + FreeOf(node.free, u) = Held[u]
      /\ node.free \in SUBSET (1 .. HandSize)
  BY DEF PairNode
<1>2. t \in Tiles
  BY <1>1, PackIs
<1>3. \A k \in 2 .. 4 : packs[k] = packs[2] /\ TilesTaken(packs[k], t) = 2
  BY <1>1 DEF TilesTaken
<1>4. block \subseteq Copies(packs, t)
  <2> SUFFICES ASSUME NEW c \in block PROVE c \in Copies(packs, t)
    OBVIOUS
  <2>1. c = <<c[1], c[2]>> /\ c[1] \in 2 .. 4 /\ c[2] \in 1 .. 2
    OBVIOUS
  <2>2. c \in (1 .. 7) \X (1 .. 3) /\ c[2] <= TilesTaken(packs[c[1]], t)
    BY <1>3, <2>1
  <2> QED
    BY <1>1, <2>2 DEF Copies
<1>5. IsFiniteSet(Copies(packs, t)) /\ TakenBy(packs, t) = Cardinality(Copies(packs, t))
      /\ TakenBy(packs, t) \in Nat
  BY <1>1, CopiesFinite
<1>6. Cardinality(block) = 6 /\ IsFiniteSet(block)
  <2>1. IsFiniteSet(2 .. 4) /\ Cardinality(2 .. 4) = 3
    <3>1. 2 \in Int /\ 4 \in Int
      OBVIOUS
    <3>2. IsFiniteSet(2 .. 4) /\ Cardinality(2 .. 4) = IF 2 > 4 THEN 0 ELSE 4 - 2 + 1
      BY <3>1, FS_Interval
    <3> QED
      BY <3>2
  <2>2. IsFiniteSet(1 .. 2) /\ Cardinality(1 .. 2) = 2
    <3>1. 1 \in Int /\ 2 \in Int
      OBVIOUS
    <3>2. IsFiniteSet(1 .. 2) /\ Cardinality(1 .. 2) = IF 1 > 2 THEN 0 ELSE 2 - 1 + 1
      BY <3>1, FS_Interval
    <3> QED
      BY <3>2
  <2>3. IsFiniteSet(block) /\ Cardinality(block) = Cardinality(2 .. 4) * Cardinality(1 .. 2)
    BY <2>1, <2>2, FS_Product
  <2> QED
    BY <2>1, <2>2, <2>3
<1>7. Held[t] <= 4 /\ Held[t] \in Nat
  <2>1. Held[t] <= Left[t] /\ Left[t] \in 0 .. 4
    BY <1>2, LeftAssumption DEF HandOK
  <2>2. Held[t] \in Nat
    BY <1>2, FreeOfFinite, FreeOfAll
  <2> QED
    BY <2>1, <2>2
<1>8. FreeOf(node.free, t) \in Nat
  BY <1>1, FreeOfFinite
<1>9. TakenBy(packs, t) >= 6
  <2> HIDE DEF block
  <2> QED
    BY <1>4, <1>5, <1>6, FS_Subset
<1>10. TakenBy(packs, t) + FreeOf(node.free, t) = Held[t]
  BY <1>1, <1>2
<1> HIDE DEF packs, t
<1> QED
  BY <1>5, <1>7, <1>8, <1>9, <1>10

\* The number of six packs, or seven, is what the last five of them are, and something.
LEMMA LongCode ==
    ASSUME NEW s \in Seq(Packs), Len(s) \in {6, 7}
    PROVE  /\ Len(PacksHashcode(s)) = 6
           /\ \A k \in 2 .. 6 : PacksHashcode(s)[k] = s[(k + Len(s)) - 6]
<1>1. ~(Len(s) <= 5)
  <2> DEFINE n == Len(s)
  <2>1. n \in {6, 7}
    OBVIOUS
  <2> HIDE DEF n
  <2>2. ~(n <= 5)
    BY <2>1
  <2> QED
    BY <2>2 DEF n
<1> DEFINE l == Len(s)
           first == [s[l - 5] EXCEPT !.middle = @ % 32]
           tail == SubSeq(s, l - 4, l)
           S == Packs \cup {first}
<1>2. PacksHashcode(s) = <<first>> \o tail
  BY <1>1, Zenon DEF PacksHashcode
<1>3. l \in {6, 7} /\ \A i \in 1 .. l : s[i] \in Packs
  OBVIOUS
<1>4. tail \in Seq(S) /\ Len(tail) = 5 /\ \A k \in 1 .. 5 : tail[k] = s[((l - 4) + k) - 1]
  <2>1. \A i \in (l - 4) .. l : s[i] \in S
    <3> HIDE DEF l, first
    <3>1. \A i \in (l - 4) .. l : i \in 1 .. l
      BY <1>3
    <3> QED
      BY <1>3, <3>1
  <2>2. l - 4 \in Int /\ l \in Int /\ l - 4 <= l /\ (l - (l - 4)) + 1 = 5
    <3> HIDE DEF l
    <3> QED
      BY <1>3
  <2> HIDE DEF S
  <2> QED
    BY <2>1, <2>2, SubSeqProperties
<1>5. <<first>> \in Seq(S) /\ Len(<<first>>) = 1
  OBVIOUS
<1> DEFINE one == <<first>>
           all == one \o tail
<1> HIDE DEF first, tail, S, l, one
<1>6. Len(all) = 6 /\ \A k \in 2 .. 6 : all[k] = tail[k - 1]
  <2>1. one \in Seq(S) /\ Len(one) = 1
    BY <1>5 DEF one
  <2>2. /\ Len(all) = Len(one) + Len(tail)
        /\ \A i \in 1 .. Len(one) + Len(tail) : all[i] = IF i <= Len(one) THEN one[i] ELSE tail[i - Len(one)]
    BY <1>4, <2>1, ConcatProperties
  <2> HIDE DEF all
  <2> QED
    BY <1>4, <2>1, <2>2
<1>7. \A k \in 2 .. 6 : tail[k - 1] = s[(k + l) - 6]
  <2> TAKE k \in 2 .. 6
  <2>1. k - 1 \in 1 .. 5
    OBVIOUS
  <2>2. tail[k - 1] = s[((l - 4) + (k - 1)) - 1]
    BY <1>4, <2>1
  <2>3. ((l - 4) + (k - 1)) - 1 = (k + l) - 6
    BY <1>3
  <2> QED
    BY <2>2, <2>3
<1> QED
  BY <1>2, <1>6, <1>7 DEF l, one

\* Seven packs are more than the number has room for; still, no prefix of an even
\* hand is taken for another.
LEMMA NewPrefix ==
    ASSUME HandOK, NEW node, PairNode(node), NEW m \in 1 .. Len(node.packs) - 1
    PROVE  PacksHashcode(SubSeq(node.packs, 1, m)) # PacksHashcode(node.packs)
<1> DEFINE packs == node.packs
           n == Len(packs)
           short == SubSeq(packs, 1, m)
<1>1. packs \in Seq(Packs) /\ n \in Nat /\ n <= 7 /\ m \in Nat /\ m < n /\ m >= 1
  <2>1. packs \in Seq(Packs) /\ Len(packs) + node.duizi_cnt = 7 /\ node.duizi_cnt \in Nat
    BY DEF PairNode
  <2>2. n \in Nat /\ n + node.duizi_cnt = 7
    BY <2>1
  <2>3. m \in 1 .. n - 1
    OBVIOUS
  <2> HIDE DEF packs, n
  <2> QED
    BY <2>1, <2>2, <2>3
<1>2. short \in Seq(Packs) /\ Len(short) = m /\ \A k \in 1 .. m : short[k] = packs[k]
  BY <1>1
<1>3. \A s \in Seq(Packs) : Len(s) <= 5 => PacksHashcode(s) = s
  BY DEF PacksHashcode
<1>4. ~(n = 7 /\ packs[2] = packs[3] /\ packs[3] = packs[4])
  BY NoThreeAlike
<1>5. n = Len(packs)
  OBVIOUS
<1> HIDE DEF packs, n, short
<1>6. ASSUME n <= 5
      PROVE  PacksHashcode(short) # PacksHashcode(packs)
  <2>1. PacksHashcode(short) = short /\ PacksHashcode(packs) = packs
    BY <1>1, <1>2, <1>3, <1>5, <1>6
  <2> QED
    BY <1>1, <1>2, <1>5, <2>1
<1>7. ASSUME n > 5, m <= 5
      PROVE  PacksHashcode(short) # PacksHashcode(packs)
  <2>1. PacksHashcode(short) = short
    BY <1>1, <1>2, <1>3, <1>7
  <2>2. Len(PacksHashcode(packs)) = 6
    <3>1. Len(packs) \in {6, 7}
      BY <1>1, <1>5, <1>7
    <3> QED
      BY <1>1, <3>1, LongCode
  <2> QED
    <3>1. SUFFICES ASSUME PacksHashcode(short) = PacksHashcode(packs) PROVE FALSE
      OBVIOUS
    <3>2. Len(short) = 6
      BY <2>1, <2>2, <3>1
    <3>3. m = 6
      BY <1>2, <3>2
    <3> QED
      BY <1>7, <3>3
<1>8. ASSUME n > 5, m > 5
      PROVE  PacksHashcode(short) # PacksHashcode(packs)
  <2>1. n = 7 /\ m = 6
    BY <1>1, <1>8
  <2>2. \A k \in 2 .. 6 : PacksHashcode(packs)[k] = packs[(k + 7) - 6]
    BY <1>1, <1>5, <2>1, LongCode
  <2>3. \A k \in 2 .. 6 : PacksHashcode(short)[k] = short[(k + 6) - 6]
    BY <1>2, <2>1, LongCode
  <2>4. PacksHashcode(packs)[2] = packs[3] /\ PacksHashcode(packs)[3] = packs[4]
    BY <2>2
  <2>5. PacksHashcode(short)[2] = packs[2] /\ PacksHashcode(short)[3] = packs[3]
    BY <1>2, <2>1, <2>3
  <2> QED
    BY <1>4, <2>1, <2>4, <2>5
<1>9. PacksHashcode(short) # PacksHashcode(packs)
  BY <1>1, <1>6, <1>7, <1>8
<1> QED
  BY <1>9 DEF packs, short

\* A call without tries may go: the hand is not even.
LEMMA PairReturn ==
    ASSUME HandOK, NEW cs, NEW prefixes, PairSearch(cs, prefixes, {}),
           cs # <<>>, Last(cs).tries = {}
    PROVE  PairSearch(Front(cs), prefixes, {})
<1> DEFINE rest == Front(cs)
<1>1. /\ cs \in Seq(Calls)
      /\ \A c \in DOMAIN cs :
          /\ PairNode(cs[c].node) /\ cs[c].node.duizi_cnt > 0
          /\ cs[c].tries \subseteq Tries(cs[c].node)
      /\ AllEven => StraightOn(cs, prefixes)
  BY DEF PairSearch, PairCalls
<1>2. /\ rest \in Seq(Calls) /\ DOMAIN rest = 1 .. Len(cs) - 1
      /\ \A c \in 1 .. Len(cs) - 1 : rest[c] = cs[c] /\ c \in DOMAIN cs
  BY <1>1 DEF Front
<1>3. Len(cs) \in DOMAIN cs /\ Last(cs) = cs[Len(cs)]
  BY <1>1 DEF Last
<1> HIDE DEF rest
<1>4. PairCalls(rest)
  BY <1>1, <1>2 DEF PairCalls
<1>5. ~AllEven
  <2>1. SUFFICES ASSUME AllEven PROVE FALSE
    OBVIOUS
  <2>2. Last(cs).tries = Tries(Last(cs).node)
    <3>1. Last(cs) = Call(Last(cs).node)
      BY <1>1, <2>1 DEF StraightOn
    <3>2. Last(cs).node \in Nodes
      BY <1>1, <1>3, PairNodes
    <3> QED
      BY <3>1, <3>2, CallOf
  <2>3. Tries(Last(cs).node) # {}
    BY <1>1, <1>3, <2>1, EvenGoesOn
  <2> QED
    BY <2>2, <2>3
<1> QED
  BY <1>4, <1>5 DEF PairSearch, rest

\* A try of an even hand goes straight on, to the seventh pair.
LEMMA PairTry ==
    ASSUME HandOK, NEW cs, NEW prefixes, PairSearch(cs, prefixes, {}),
           cs # <<>>, NEW try \in Last(cs).tries
    PROVE  LET next == After(Last(cs).node, try)
               code == PacksHashcode(next.packs)
               waiting == OneLess(cs, try)
           IN  /\ code \in prefixes => PairSearch(waiting, prefixes \cup {code}, {})
               /\ code \notin prefixes /\ ~IsComplete(next) =>
                     PairSearch(Append(waiting, Call(next)), prefixes \cup {code}, {})
               /\ code \notin prefixes /\ IsComplete(next) =>
                     PairSearch(waiting, prefixes \cup {code}, {next.packs})
<1> DEFINE top == Last(cs)
           packs == top.node.packs
           p == Made(top.node, try)
           next == After(top.node, try)
           code == PacksHashcode(next.packs)
           waiting == OneLess(cs, try)
           L == Len(packs)
           prefix(n) == PacksHashcode(SubSeq(packs, 1, n))
<1>1. /\ cs \in Seq(Calls)
      /\ \A c \in DOMAIN cs :
          /\ PairNode(cs[c].node) /\ cs[c].node.duizi_cnt > 0
          /\ cs[c].tries \subseteq Tries(cs[c].node)
      /\ AllEven => StraightOn(cs, prefixes)
  BY DEF PairSearch, PairCalls
<1>2. /\ waiting \in Seq(Calls) /\ Len(waiting) = Len(cs)
      /\ Len(cs) \in DOMAIN cs /\ top = cs[Len(cs)]
      /\ \A c \in 1 .. Len(cs) : waiting[c].node = cs[c].node /\ waiting[c].tries \subseteq cs[c].tries
  BY <1>1, OneTryLess
<1>3. PairNode(top.node) /\ try \in Tries(top.node) /\ packs \in Seq(Packs) /\ L \in Nat
  <2>1. PairNode(top.node) /\ try \in Tries(top.node)
    BY <1>1, <1>2
  <2> QED
    BY <2>1 DEF PairNode
<1>4. PairNode(next) /\ next.packs = Append(packs, p) /\ p \in Packs
  BY <1>3, PairAfter
<1>5. next \in Nodes /\ Len(next.packs) = L + 1 /\ next.mianzi_cnt = 0 /\ next.duizi_cnt \in Nat
  <2>1. next \in Nodes
    BY <1>4, PairNodes
  <2>2. Len(next.packs) = L + 1
    BY <1>3, <1>4
  <2>3. next.mianzi_cnt = 0 /\ next.duizi_cnt \in Nat
    <3> HIDE DEF next
    <3> QED
      BY <1>4 DEF PairNode
  <2> QED
    BY <2>1, <2>2, <2>3
<1>6. \A n \in 1 .. L : SubSeq(next.packs, 1, n) = SubSeq(packs, 1, n)
  BY <1>3, <1>4
<1>7. SubSeq(next.packs, 1, L + 1) = next.packs
  BY <1>3, <1>4
<1> HIDE DEF top, packs, p, next, code, waiting, L
<1>8. PairCalls(waiting)
  <2>1. DOMAIN waiting = 1 .. Len(cs) /\ DOMAIN cs = 1 .. Len(cs)
    BY <1>1, <1>2
  <2> QED
    BY <1>1, <1>2, <2>1 DEF PairCalls
<1>9. AllEven => prefixes = {prefix(n) : n \in 1 .. L}
  BY <1>1 DEF StraightOn, top, packs, L
\* The prefix is a new one.
<1>10. AllEven => code \notin prefixes
  <2>1. SUFFICES ASSUME AllEven, code \in prefixes PROVE FALSE
    OBVIOUS
  <2>2. PICK n \in 1 .. L : code = prefix(n)
    BY <1>9, <2>1
  <2>3. prefix(n) = PacksHashcode(SubSeq(next.packs, 1, n))
    BY <1>6
  <2>4. n \in 1 .. Len(next.packs) - 1
    BY <1>3, <1>5
  <2>5. PacksHashcode(SubSeq(next.packs, 1, n)) # PacksHashcode(next.packs)
    BY <1>4, <2>4, NewPrefix
  <2> QED
    BY <2>2, <2>3, <2>5 DEF code
<1>11. ASSUME code \in prefixes
       PROVE  PairSearch(waiting, prefixes \cup {code}, {})
  BY <1>8, <1>10, <1>11 DEF PairSearch
<1>12. ASSUME code \notin prefixes, ~IsComplete(next)
       PROVE  PairSearch(Append(waiting, Call(next)), prefixes \cup {code}, {})
  <2> DEFINE more == Append(waiting, Call(next))
  <2>1. Call(next) \in Calls /\ Call(next).node = next /\ Call(next).tries = Tries(next)
    BY <1>5, CallOf
  <2>2. more \in Seq(Calls) /\ DOMAIN more = 1 .. Len(waiting) + 1
        /\ more[Len(waiting) + 1] = Call(next) /\ DOMAIN waiting = 1 .. Len(waiting)
        /\ (\A c \in 1 .. Len(waiting) : more[c] = waiting[c])
        /\ more # <<>> /\ Last(more) = Call(next) /\ Len(waiting) \in Nat
    BY <1>2, <2>1 DEF Last
  <2> HIDE DEF more
  <2>3. next.duizi_cnt > 0
    BY <1>5, <1>12 DEF IsComplete
  <2>4. PairCalls(more)
    <3> DEFINE l == Len(waiting)
    <3>1. l \in Nat /\ DOMAIN more = 1 .. l + 1 /\ DOMAIN waiting = 1 .. l
          /\ more[l + 1] = Call(next) /\ \A c \in 1 .. l : more[c] = waiting[c]
      BY <2>2
    <3> HIDE DEF l
    <3>2. ASSUME NEW c \in DOMAIN more
          PROVE  /\ PairNode(more[c].node) /\ more[c].node.duizi_cnt > 0
                 /\ more[c].tries \subseteq Tries(more[c].node)
      <4>1. CASE c = l + 1
        BY <1>4, <2>1, <2>3, <3>1, <4>1
      <4>2. CASE c # l + 1
        <5>1. c \in 1 .. l
          BY <3>1, <4>2
        <5> QED
          BY <1>8, <3>1, <5>1 DEF PairCalls
      <4> QED
        BY <4>1, <4>2
    <3> QED
      BY <2>2, <3>2 DEF PairCalls
  <2>5. ASSUME AllEven PROVE StraightOn(more, prefixes \cup {code})
    <3> DEFINE later(n) == PacksHashcode(SubSeq(next.packs, 1, n))
    <3>1. \A n \in 1 .. L : later(n) = prefix(n)
      BY <1>6
    <3>2. later(L + 1) = code
      BY <1>7 DEF code
    <3> HIDE DEF later
    <3>3. {later(n) : n \in 1 .. L + 1} = {prefix(n) : n \in 1 .. L} \cup {code}
      <4> HIDE DEF prefix
      <4>1. \A n : n \in 1 .. L + 1 <=> n \in 1 .. L \/ n = L + 1
        BY <1>3
      <4> QED
        BY <3>1, <3>2, <4>1
    <3>4. prefixes \cup {code} = {later(n) : n \in 1 .. L + 1}
      <4> HIDE DEF prefix
      <4> QED
        BY <1>9, <2>5, <3>3
    <3> QED
      BY <1>5, <2>1, <2>2, <3>4 DEF StraightOn, later
  <2> QED
    BY <2>4, <2>5 DEF PairSearch, more
<1>13. ASSUME code \notin prefixes, IsComplete(next)
       PROVE  PairSearch(waiting, prefixes \cup {code}, {next.packs})
  <2>1. AllEven
    BY <1>4, <1>13, PairsAreEven
  <2> QED
    BY <1>8, <2>1 DEF PairSearch
<1> QED
  BY <1>11, <1>12, <1>13 DEF top, next, code, waiting

\* The search for pairs begins with all tiles free, and no prefix seen.
LEMMA PairBegins ==
    ASSUME HandOK, Melds = 0
    PROVE  PairSearch(Dfs(0, 7), {}, {})
<1> DEFINE root == [free |-> 1 .. HandSize, mianzi_cnt |-> 0, duizi_cnt |-> 7, packs |-> <<>>]
<1>1. Dfs(0, 7) = <<Call(root)>> /\ root.packs = <<>> /\ root.free = 1 .. HandSize
  BY DEF Dfs, HandOK
<1>2. PairNode(root) /\ root.duizi_cnt > 0
  <2>1. HandSize = 14
    BY DEF HandSize
  <2>2. Cardinality(1 .. HandSize) = HandSize
    BY HandSizes, FS_Interval
  <2>3. ASSUME NEW t \in Tiles
        PROVE  /\ TakenBy(root.packs, t) + FreeOf(root.free, t) = Held[t]
               /\ (Held[t] - FreeOf(root.free, t)) % 2 = 0
    <3> DEFINE h == Held[t]
               f == FreeOf(1 .. HandSize, t)
    <3>1. TakenBy(<<>>, t) = 0
      BY TakenByNone
    <3>2. f = h /\ h \in Nat
      BY FreeOfAll, FreeOfFinite
    <3> HIDE DEF h, f
    <3>3. 0 + f = h /\ (h - f) % 2 = 0
      BY <3>2
    <3> QED
      BY <3>1, <3>3 DEF h, f
  <2>4. root \in [free : SUBSET (1 .. HandSize), mianzi_cnt : {0}, duizi_cnt : Nat,
                   packs : Seq(Packs)]
    OBVIOUS
  <2>5. Len(root.packs) = 0 /\ DOMAIN root.packs = {} /\ Cardinality(root.free) = 14
    BY <1>1, <2>1, <2>2
  <2> QED
    BY <2>3, <2>4, <2>5 DEF PairNode
<1> HIDE DEF root
<1>3. Call(root) \in Calls /\ Call(root).node = root /\ Call(root).tries = Tries(root)
  BY <1>2, PairNodes, CallOf
<1> DEFINE cs == Dfs(0, 7)
<1>4. /\ cs \in Seq(Calls) /\ DOMAIN cs = {1} /\ cs[1] = Call(root) /\ cs # <<>>
      /\ Last(cs) = Call(root)
  <2> DEFINE call == Call(root)
  <2>1. cs = <<call>> /\ call \in Calls
    BY <1>1, <1>3
  <2> HIDE DEF call, cs
  <2>2. cs \in Seq(Calls) /\ DOMAIN cs = {1} /\ cs[1] = call /\ cs # <<>> /\ Len(cs) = 1
    BY <2>1
  <2> QED
    BY <2>2 DEF Last, call
<1> HIDE DEF cs
<1>5. PairCalls(cs)
  BY <1>2, <1>3, <1>4 DEF PairCalls
<1>6. StraightOn(cs, {})
  <2>1. {PacksHashcode(SubSeq(root.packs, 1, n)) : n \in 1 .. Len(root.packs)} = {}
    BY <1>1
  <2>2. Call(root).node = root
    BY <1>3
  <2> QED
    BY <1>4, <2>1, <2>2 DEF StraightOn
<1> QED
  BY <1>5, <1>6 DEF PairSearch, cs

-----------------------------------------------------------------------------
(* The inductive invariant.                                                *)

\* All of it is about a hand, which stays the same.
LEMMA Frame ==
    ASSUME lipai' = lipai, last' = last
    PROVE  /\ HandOK' <=> HandOK
           /\ Winning' <=> Winning
           /\ AllEven' <=> AllEven
           /\ \A cs, prefixes, ways :
                /\ BasicSearch(cs, prefixes, ways)' <=> BasicSearch(cs, prefixes, ways)
                /\ PairSearch(cs, prefixes, ways)' <=> PairSearch(cs, prefixes, ways)
<1>1. HandOK' <=> HandOK
  BY DEF HandOK, Held
<1>2. FullWays' = FullWays
  BY DEF FullWays, Held, HasLast
<1>3. AllEven' <=> AllEven
  BY DEF AllEven, Held
<1>4. \A node : Tries(node)' = Tries(node)
  BY DEF Tries, Nearby
<1>5. \A node, try : After(node, try)' = After(node, try)
  BY DEF After
<1>6. \A node : Call(node)' = Call(node)
  BY <1>4 DEF Call
<1>7. ASSUME NEW cs, NEW prefixes, NEW ways
      PROVE  BasicSearch(cs, prefixes, ways)' <=> BasicSearch(cs, prefixes, ways)
  <2>1. \A node : BasicNode(node)' <=> BasicNode(node)
    BY DEF BasicNode, Held, HasLast, FreeOf
  <2>2. BasicCalls(cs)' <=> BasicCalls(cs)
    BY <1>4, <2>1 DEF BasicCalls
  <2>3. \A bag, n : StillToCome(cs, bag, n)' <=> StillToCome(cs, bag, n)
    BY <1>2, <1>5 DEF StillToCome
  <2>4. NothingLost(cs, prefixes, ways)' <=> NothingLost(cs, prefixes, ways)
    BY <1>2, <2>3 DEF NothingLost, Met
  <2> QED
    BY <1>2, <2>2, <2>4 DEF BasicSearch
<1>8. ASSUME NEW cs, NEW prefixes, NEW ways
      PROVE  PairSearch(cs, prefixes, ways)' <=> PairSearch(cs, prefixes, ways)
  <2>1. \A node : PairNode(node)' <=> PairNode(node)
    BY DEF PairNode, Held, FreeOf
  <2>2. PairCalls(cs)' <=> PairCalls(cs)
    BY <1>4, <2>1 DEF PairCalls
  <2>3. StraightOn(cs, prefixes)' <=> StraightOn(cs, prefixes)
    BY <1>6 DEF StraightOn
  <2> QED
    BY <1>3, <2>2, <2>3 DEF PairSearch
<1>9. Winning' <=> Winning
  BY <1>2, <1>3 DEF Winning
<1> QED
  BY <1>1, <1>3, <1>7, <1>8, <1>9

\* The first search begins well.
LEMMA InitIInv == Init => IInv
<1> SUFFICES ASSUME Init PROVE IInv
  OBVIOUS
<1>1. HandOK
  BY SortedHand
<1>2. seen = {} /\ found = {}
  BY DEF Init
<1>3. CASE Melds = 0
  <2>1. phase = "qidui" /\ calls = Dfs(0, 7)
    BY <1>3 DEF Init
  <2>2. PairInv
    BY <1>1, <1>2, <1>3, <2>1, PairBegins DEF PairInv
  <2> QED
    BY <1>1, <2>1, <2>2 DEF IInv
<1>4. CASE Melds # 0
  <2>1. phase = "basic" /\ calls = BasicDfs
    BY <1>4 DEF Init
  <2>2. BasicInv
    BY <1>1, <1>2, <2>1, BasicBegins DEF BasicInv
  <2> QED
    BY <1>1, <1>4, <2>1, <2>2 DEF IInv
<1> QED
  BY <1>3, <1>4

\* Where a search that finds something has come from.
LEMMA FoundIsWinning ==
    ASSUME IInv, found # {}
    PROVE  phase \in {"qidui", "basic", "count"} => Winning
<1>1. ASSUME phase = "qidui" PROVE Winning
  BY <1>1 DEF IInv, PairInv, PairSearch, Winning
<1>2. ASSUME phase = "basic" PROVE Winning
  BY <1>2 DEF IInv, BasicInv, BasicSearch, Winning
<1> QED
  BY <1>1, <1>2 DEF IInv

\* Each step keeps the invariant: a try,
LEMMA TryNextKeeps == IInv /\ TryNext => IInv'
<1> SUFFICES ASSUME IInv, TryNext PROVE IInv'
  OBVIOUS
<1> DEFINE call == Last(calls)
           try == FirstOf(call.tries)
           next == After(call.node, try)
           code == PacksHashcode(next.packs)
           waiting == OneLess(calls, try)
<1>1. /\ HandOK /\ phase \in {"qidui", "basic", "count"} /\ calls # <<>>
      /\ phase # "count" => found = {}
      /\ lipai' = lipai /\ last' = last /\ phase' = phase
      /\ call.tries # {}
  BY DEF IInv, TryNext, Enough
<1>2. /\ HandOK'
      /\ Winning' <=> Winning
      /\ AllEven' <=> AllEven
      /\ \A cs, prefixes, ways :
           /\ BasicSearch(cs, prefixes, ways)' <=> BasicSearch(cs, prefixes, ways)
           /\ PairSearch(cs, prefixes, ways)' <=> PairSearch(cs, prefixes, ways)
  BY <1>1, Frame
<1>3. /\ seen' = seen \cup {code}
      /\ calls' = IF code \notin seen /\ ~IsComplete(next) THEN Append(waiting, Call(next)) ELSE waiting
      /\ found' = IF code \notin seen /\ IsComplete(next) THEN found \cup {next.packs} ELSE found
  BY DEF TryNext, OneLess
<1>4. calls \in Seq(Calls)
  BY <1>1 DEF IInv, BasicInv, BasicSearch, BasicCalls, PairInv, PairSearch, PairCalls
<1>5. try \in call.tries
  <2>1. call \in Calls
    BY <1>1, <1>4 DEF Last
  <2>2. call.tries \subseteq Nat \X Nat
    BY <2>1 DEF Calls
  <2> QED
    BY <1>1, <2>2, FirstOfIsOne
<1>6. CASE phase = "qidui"
  <2>1. PairSearch(calls, seen, {}) /\ found = {} /\ Melds = 0
    BY <1>1, <1>6 DEF IInv, PairInv
  <2>2. /\ code \in seen => PairSearch(waiting, seen \cup {code}, {})
        /\ code \notin seen /\ ~IsComplete(next) =>
              PairSearch(Append(waiting, Call(next)), seen \cup {code}, {})
        /\ code \notin seen /\ IsComplete(next) =>
              PairSearch(waiting, seen \cup {code}, {next.packs})
    BY <1>1, <1>5, <2>1, PairTry
  <2> HIDE DEF call, try, next, code, waiting
  <2>3. PairSearch(calls', seen', found')
    <3>1. {} \cup {next.packs} = {next.packs}
      OBVIOUS
    <3> QED
      BY <1>3, <2>1, <2>2, <3>1
  <2>4. PairInv'
    BY <1>2, <2>1, <2>3 DEF PairInv
  <2> QED
    BY <1>1, <1>2, <1>6, <2>4 DEF IInv
<1>7. CASE phase \in {"basic", "count"}
  <2>1. BasicSearch(calls, seen, found)
    BY <1>7 DEF IInv, BasicInv
  <2>2. /\ code \in seen => BasicSearch(waiting, seen \cup {code}, found)
        /\ code \notin seen /\ ~IsComplete(next) =>
              BasicSearch(Append(waiting, Call(next)), seen \cup {code}, found)
        /\ code \notin seen /\ IsComplete(next) =>
              BasicSearch(waiting, seen \cup {code}, found \cup {next.packs})
    BY <1>1, <1>5, <2>1, BasicTry
  <2> HIDE DEF call, try, next, code, waiting
  <2>3. BasicSearch(calls', seen', found')
    BY <1>3, <2>1, <2>2
  <2>4. BasicInv'
    BY <1>2, <2>3 DEF BasicInv
  <2>5. phase = "basic" => ~(Melds = 0 /\ AllEven)
    BY DEF IInv
  <2>6. phase = "count" => Winning
    BY DEF IInv
  <2> QED
    BY <1>1, <1>2, <1>7, <2>4, <2>5, <2>6 DEF IInv
<1> QED
  BY <1>1, <1>6, <1>7

\* the end of a call,
LEMMA ReturnKeeps == IInv /\ Return => IInv'
<1> SUFFICES ASSUME IInv, Return PROVE IInv'
  OBVIOUS
<1>1. /\ HandOK /\ phase \in {"qidui", "basic", "count"} /\ calls # <<>>
      /\ phase # "count" => found = {}
      /\ lipai' = lipai /\ last' = last /\ phase' = phase /\ seen' = seen /\ found' = found
      /\ Last(calls).tries = {} /\ calls' = Front(calls)
  BY DEF IInv, Return, Enough
<1>2. /\ HandOK'
      /\ Winning' <=> Winning
      /\ AllEven' <=> AllEven
      /\ \A cs, prefixes, ways :
           /\ BasicSearch(cs, prefixes, ways)' <=> BasicSearch(cs, prefixes, ways)
           /\ PairSearch(cs, prefixes, ways)' <=> PairSearch(cs, prefixes, ways)
  BY <1>1, Frame
<1>3. CASE phase = "qidui"
  <2>1. PairSearch(calls, seen, {}) /\ found = {} /\ Melds = 0
    BY <1>1, <1>3 DEF IInv, PairInv
  <2>2. PairSearch(calls', seen', found')
    BY <1>1, <2>1, PairReturn
  <2>3. PairInv'
    BY <1>2, <2>1, <2>2 DEF PairInv
  <2> QED
    BY <1>1, <1>2, <1>3, <2>3 DEF IInv
<1>4. CASE phase \in {"basic", "count"}
  <2>1. BasicSearch(calls, seen, found)
    BY <1>4 DEF IInv, BasicInv
  <2>2. BasicSearch(calls', seen', found')
    BY <1>1, <2>1, BasicReturn
  <2>3. BasicInv'
    BY <1>2, <2>2 DEF BasicInv
  <2>4. /\ phase = "basic" => ~(Melds = 0 /\ AllEven)
        /\ phase = "count" => Winning
    BY DEF IInv
  <2> QED
    BY <1>1, <1>2, <1>4, <2>3, <2>4 DEF IInv
<1> QED
  BY <1>1, <1>3, <1>4

\* the beginning of the next search,
LEMMA NewSearchKeeps == IInv /\ (NoQidui \/ Hu) => IInv'
<1> SUFFICES ASSUME IInv, NoQidui \/ Hu PROVE IInv'
  OBVIOUS
<1>1. /\ HandOK /\ lipai' = lipai /\ last' = last
      /\ calls' = BasicDfs /\ seen' = {} /\ found' = {}
  BY DEF IInv, NoQidui, Hu
<1>2. /\ HandOK'
      /\ Winning' <=> Winning
      /\ AllEven' <=> AllEven
      /\ \A cs, prefixes, ways :
           BasicSearch(cs, prefixes, ways)' <=> BasicSearch(cs, prefixes, ways)
  BY <1>1, Frame
<1>3. BasicInv'
  <2>1. BasicSearch(calls', seen', found')
    BY <1>1, BasicBegins
  <2> QED
    BY <1>2, <2>1 DEF BasicInv
<1>4. CASE NoQidui
  <2>1. phase = "qidui" /\ phase' = "basic" /\ calls = <<>> /\ found = {}
    BY <1>4 DEF NoQidui
  <2>2. ~AllEven
    BY <2>1 DEF IInv, PairInv, PairSearch, StraightOn
  <2> QED
    BY <1>2, <1>3, <2>1, <2>2 DEF IInv
<1>5. CASE Hu
  <2>1. phase \in {"qidui", "basic"} /\ phase' = "count" /\ found # {}
    BY <1>5 DEF Hu
  <2>2. Winning
    BY <2>1, FoundIsWinning
  <2> QED
    BY <1>2, <1>3, <2>1, <2>2 DEF IInv
<1> QED
  BY <1>4, <1>5

\* and the end of a search with nothing after it.
LEMMA EndKeeps == IInv /\ (NoHu \/ CountEnds) => IInv'
<1> SUFFICES ASSUME IInv, NoHu \/ CountEnds PROVE IInv'
  OBVIOUS
<1>1. /\ HandOK /\ lipai' = lipai /\ last' = last /\ calls = <<>>
      /\ calls' = calls /\ seen' = seen /\ found' = found
      /\ phase \in {"basic", "count"}
      /\ BasicSearch(calls, seen, found)
  BY DEF IInv, NoHu, CountEnds, BasicInv
<1>2. /\ HandOK'
      /\ Winning' <=> Winning
      /\ AllEven' <=> AllEven
      /\ \A cs, prefixes, ways :
           BasicSearch(cs, prefixes, ways)' <=> BasicSearch(cs, prefixes, ways)
  BY <1>1, Frame
<1>3. BasicInv'
  BY <1>1, <1>2 DEF BasicInv
<1>4. CASE NoHu
  <2>1. phase = "basic" /\ phase' = "lost" /\ found = {}
    BY <1>4 DEF NoHu
  <2> QED
    BY <1>1, <1>2, <1>3, <2>1 DEF IInv
<1>5. CASE CountEnds
  <2>1. phase = "count" /\ phase' = "counted"
    BY <1>5 DEF CountEnds
  <2> QED
    BY <1>1, <1>2, <1>3, <2>1 DEF IInv
<1> QED
  BY <1>4, <1>5

\* The searches lose no way and find nothing that is none.
THEOREM Searches == Spec => []IInv
<1>1. IInv /\ [Next]_vars => IInv'
  <2> SUFFICES ASSUME IInv, [Next]_vars PROVE IInv'
    OBVIOUS
  <2>1. CASE TryNext
    BY <2>1, TryNextKeeps
  <2>2. CASE Return
    BY <2>2, ReturnKeeps
  <2>3. CASE NoQidui \/ Hu
    BY <2>3, NewSearchKeeps
  <2>4. CASE NoHu \/ CountEnds
    BY <2>4, EndKeeps
  <2>5. CASE UNCHANGED vars
    <3>1. /\ lipai' = lipai /\ last' = last /\ phase' = phase
          /\ calls' = calls /\ seen' = seen /\ found' = found
      BY <2>5 DEF vars
    <3>2. /\ HandOK' <=> HandOK
          /\ Winning' <=> Winning
          /\ AllEven' <=> AllEven
          /\ \A cs, prefixes, ways :
               /\ BasicSearch(cs, prefixes, ways)' <=> BasicSearch(cs, prefixes, ways)
               /\ PairSearch(cs, prefixes, ways)' <=> PairSearch(cs, prefixes, ways)
      BY <3>1, Frame
    <3>3. (PairInv' <=> PairInv) /\ (BasicInv' <=> BasicInv)
      BY <3>1, <3>2 DEF PairInv, BasicInv
    <3> QED
      BY <3>1, <3>2, <3>3 DEF IInv
  <2> QED
    BY <2>1, <2>2, <2>3, <2>4, <2>5 DEF Next
<1> QED
  BY InitIInv, <1>1, PTL DEF Spec

-----------------------------------------------------------------------------
(* The ways that are found, and what a winning hand is.                    *)

\* The mark of the last tile is of no account for what packs take.
LEMMA SameTaken ==
    ASSUME NEW w \in [1 .. Parts -> Packs], NEW v \in [1 .. Parts -> Packs],
           \A k \in 1 .. Parts : v[k].type = w[k].type /\ v[k].middle = w[k].middle,
           NEW t
    PROVE  /\ \A k \in 1 .. Parts : TilesTaken(v[k], t) = TilesTaken(w[k], t)
           /\ TakenBy(v, t) = TakenBy(w, t)
<1>1. \A k \in 1 .. Parts : TilesTaken(v[k], t) = TilesTaken(w[k], t)
  BY DEF TilesTaken
<1>2. Copies(v, t) = Copies(w, t)
  <2>1. \A c \in (1 .. Parts) \X (1 .. 3) : TilesTaken(v[c[1]], t) = TilesTaken(w[c[1]], t)
    BY <1>1
  <2> QED
    BY <2>1 DEF Copies
<1>3. TakenBy(v, t) = TakenBy(w, t)
  BY <1>2 DEF TakenBy, Copies
<1> QED
  BY <1>1, <1>3

\* A pack takes no more than all.
LEMMA TakesItsShare ==
    ASSUME NEW w \in [1 .. Parts -> Packs], NEW t, NEW k \in 1 .. Parts
    PROVE  TilesTaken(w[k], t) <= TakenBy(w, t)
<1>1. Parts \in Nat /\ DOMAIN w = 1 .. Parts
  BY HandSizes
<1>2. TakenBy(w, t) = Cardinality(Copies(w, t))
  BY <1>1, CopiesFinite
<1>3. Rest(w, 0, t) = Copies(w, t)
  <2>1. \A c \in Copies(w, t) : c[1] > 0
    BY <1>1 DEF Copies
  <2> QED
    BY <2>1 DEF Rest
<1>4. TilesTaken(w[k], t) <= Cardinality(Rest(w, 0, t))
  BY <1>1, RestTakes
<1> QED
  BY <1>2, <1>3, <1>4

\* Sets and a pair, one after the other, unmarked.
PlainWay(way) ==
    /\ way \in [1 .. Parts -> Packs]
    /\ \A k \in 1 .. Parts : ~way[k].last /\ (way[k].type = "Jiang" <=> k = Parts)
    /\ \A t \in Tiles : TakenBy(way, t) = Held[t]

\* What the packs of the definition are.
LEMMA PlainPacks ==
    /\ Kezis \cup Shunzis = {p \in Packs : p.type # "Jiang" /\ ~p.last}
    /\ Jiangs = {p \in Packs : p.type = "Jiang" /\ ~p.last}
<1>1. ASSUME NEW p \in Kezis \cup Shunzis PROVE p \in Packs /\ p.type # "Jiang" /\ ~p.last
  <2>1. CASE p \in Kezis
    <3>1. PICK t \in Tiles : p = Pack("Kezi", t, FALSE)
      BY <2>1 DEF Kezis
    <3> QED
      BY <3>1, PackFields
  <2>2. CASE p \in Shunzis
    <3>1. PICK m \in ShunziMiddles : p = Pack("Shunzi", m, FALSE)
      BY <2>2 DEF Shunzis
    <3>2. m \in Tiles
      BY <3>1, ShunziIsMade
    <3> QED
      BY <3>1, <3>2, PackFields
  <2> QED
    BY <2>1, <2>2
<1>2. ASSUME NEW p \in Packs, p.type # "Jiang", ~p.last PROVE p \in Kezis \cup Shunzis
  <2>1. /\ p.type \in {"Shunzi", "Kezi"} /\ p.middle \in Tiles /\ p.last = FALSE
        /\ p.type = "Shunzi" => p.middle \in ShunziMiddles
        /\ p = Pack(p.type, p.middle, p.last)
    <3>1. /\ p.type \in {"Shunzi", "Kezi", "Jiang"} /\ p.middle \in Tiles /\ p.last \in BOOLEAN
          /\ p.type = "Shunzi" => p.middle \in ShunziMiddles
      BY PackIs
    <3>2. p = Pack(p.type, p.middle, p.last)
      BY PackIs
    <3> QED
      BY <1>2, <3>1, <3>2
  <2>2. CASE p.type = "Kezi"
    BY <2>1, <2>2 DEF Kezis
  <2>3. CASE p.type = "Shunzi"
    BY <2>1, <2>3 DEF Shunzis
  <2> QED
    BY <2>1, <2>2, <2>3
<1>3. ASSUME NEW p \in Jiangs PROVE p \in Packs /\ p.type = "Jiang" /\ ~p.last
  <2>1. PICK t \in Tiles : p = Pack("Jiang", t, FALSE)
    BY DEF Jiangs
  <2> QED
    BY <2>1, PackFields
<1>4. ASSUME NEW p \in Packs, p.type = "Jiang", ~p.last PROVE p \in Jiangs
  <2>1. p.middle \in Tiles /\ p.last = FALSE /\ p = Pack(p.type, p.middle, p.last)
    <3>1. p.middle \in Tiles /\ p.last \in BOOLEAN
      BY PackIs
    <3>2. p = Pack(p.type, p.middle, p.last)
      BY PackIs
    <3> QED
      BY <1>4, <3>1, <3>2
  <2> QED
    BY <1>4, <2>1 DEF Jiangs
<1>5. Kezis \cup Shunzis = {p \in Packs : p.type # "Jiang" /\ ~p.last}
  BY <1>1, <1>2
<1>6. Jiangs = {p \in Packs : p.type = "Jiang" /\ ~p.last}
  BY <1>3, <1>4
<1> QED
  BY <1>5, <1>6

\* A pair behind the sets is the last pack.
LEMMA AppendIs ==
    ASSUME NEW S, NEW n \in Nat, NEW s \in [1 .. n -> S], NEW e \in S
    PROVE  /\ Append(s, e) \in [1 .. n + 1 -> S]
           /\ Append(s, e)[n + 1] = e /\ \A k \in 1 .. n : Append(s, e)[k] = s[k]
<1>1. s \in Seq(S) /\ Len(s) = n
  OBVIOUS
<1>2. Append(s, e) \in Seq(S) /\ Len(Append(s, e)) = n + 1
      /\ Append(s, e)[n + 1] = e /\ \A k \in 1 .. n : Append(s, e)[k] = s[k]
  BY <1>1
<1> DEFINE all == Append(s, e)
<1>3. all \in Seq(S) /\ Len(all) = n + 1
  BY <1>2
<1> HIDE DEF all
<1>4. all \in [1 .. n + 1 -> S]
  BY <1>3
<1> QED
  BY <1>2, <1>4 DEF all

\* What fits in with the tiles that are left.
Fits(packs) == {p \in packs : \A t \in Tiles : TilesTaken(p, t) <= Left[t]}

\* A way of the hand is sets that fit and a pair that fits, and takes what is held.
LEMMA WaysAre ==
    ASSUME NEW way
    PROVE  way \in WaysOfHand <=>
             \E sets \in [1 .. 4 - Melds -> Fits(Kezis \cup Shunzis)], jiang \in Fits(Jiangs) :
               way = Append(sets, jiang) /\ \A t \in Tiles : TakenBy(way, t) = Held[t]
<1> DEFINE Sets == [1 .. 4 - Melds -> Fits(Kezis \cup Shunzis)]
           Pairs == Fits(Jiangs)
           W(sets, jiang) == [way |-> Append(sets, jiang),
                              takes |-> [t \in Tiles |-> TakenBy(Append(sets, jiang), t)]]
<1>1. WinningWays = {W(sets, jiang) : sets \in Sets, jiang \in Pairs}
  BY DEF WinningWays, Fits
<1>2. WaysOfHand = {w.way : w \in {v \in WinningWays : v.takes = Held}}
  BY DEF WaysOfHand
<1>3. \A w : [t \in Tiles |-> TakenBy(w, t)] = Held <=> \A t \in Tiles : TakenBy(w, t) = Held[t]
  BY DEF Held
<1>4. \A sets, jiang : /\ W(sets, jiang).way = Append(sets, jiang)
                       /\ W(sets, jiang).takes = [t \in Tiles |-> TakenBy(Append(sets, jiang), t)]
  OBVIOUS
<1> HIDE DEF Sets, Pairs, W
<1>5. ASSUME way \in WaysOfHand
      PROVE  \E sets \in Sets, jiang \in Pairs :
               way = Append(sets, jiang) /\ \A t \in Tiles : TakenBy(way, t) = Held[t]
  <2>1. PICK w \in WinningWays : w.takes = Held /\ way = w.way
    BY <1>2, <1>5
  <2>2. PICK sets \in Sets, jiang \in Pairs : w = W(sets, jiang)
    BY <1>1, <2>1
  <2>3. way = Append(sets, jiang) /\ [t \in Tiles |-> TakenBy(way, t)] = Held
    <3>1. /\ W(sets, jiang).way = Append(sets, jiang)
          /\ W(sets, jiang).takes = [t \in Tiles |-> TakenBy(Append(sets, jiang), t)]
      BY DEF W
    <3>2. way = Append(sets, jiang)
      BY <2>1, <2>2, <3>1, Zenon
    <3>3. W(sets, jiang).takes = Held
      BY <2>1, <2>2, Zenon
    <3> QED
      BY <3>1, <3>2, <3>3, Zenon
  <2> QED
    BY <1>3, <2>3
<1>6. ASSUME NEW sets \in Sets, NEW jiang \in Pairs,
             way = Append(sets, jiang), \A t \in Tiles : TakenBy(way, t) = Held[t]
      PROVE  way \in WaysOfHand
  <2>1. W(sets, jiang) \in WinningWays
    BY <1>1
  <2>2. W(sets, jiang).takes = Held /\ W(sets, jiang).way = way
    BY <1>3, <1>4, <1>6
  <2> QED
    BY <1>2, <2>1, <2>2
<1> QED
  BY <1>5, <1>6 DEF Sets, Pairs

\* The ways of the definition are the plain ones: no pack of a hand takes more than are left.
LEMMA WaysArePlain ==
    ASSUME HandOK, NEW way
    PROVE  way \in WaysOfHand <=> PlainWay(way)
<1> DEFINE n == 4 - Melds
           Sets == {p \in Packs : p.type # "Jiang" /\ ~p.last}
           Pairs == {p \in Packs : p.type = "Jiang" /\ ~p.last}
<1>1. n \in Nat /\ Parts = n + 1
  BY MeldsAssumption DEF Parts
<1>2. Kezis \cup Shunzis = Sets /\ Jiangs = Pairs
  BY PlainPacks
<1> HIDE DEF n
<1>3. ASSUME way \in WaysOfHand PROVE PlainWay(way)
  <2>1. PICK sets \in [1 .. n -> Fits(Sets)], jiang \in Fits(Pairs) :
          way = Append(sets, jiang) /\ \A t \in Tiles : TakenBy(way, t) = Held[t]
    BY <1>2, <1>3, WaysAre DEF n
  <2>2. sets \in [1 .. n -> Packs] /\ jiang \in Packs /\ jiang.type = "Jiang" /\ ~jiang.last
        /\ \A k \in 1 .. n : sets[k].type # "Jiang" /\ ~sets[k].last
    BY DEF Fits
  <2>3. /\ way \in [1 .. n + 1 -> Packs] /\ way[n + 1] = jiang
        /\ \A k \in 1 .. n : way[k] = sets[k]
    BY <1>1, <2>1, <2>2, AppendIs
  <2>4. \A k \in 1 .. Parts : ~way[k].last /\ (way[k].type = "Jiang" <=> k = Parts)
    <3> TAKE k \in 1 .. Parts
    <3>1. CASE k = n + 1
      BY <1>1, <2>2, <2>3, <3>1
    <3>2. CASE k # n + 1
      <4>1. k \in 1 .. n
        BY <1>1, <3>2
      <4> QED
        BY <1>1, <2>2, <2>3, <3>2, <4>1
    <3> QED
      BY <3>1, <3>2
  <2> QED
    BY <1>1, <2>1, <2>3, <2>4 DEF PlainWay
<1>4. ASSUME PlainWay(way) PROVE way \in WaysOfHand
  <2> DEFINE sets == [k \in 1 .. n |-> way[k]]
             jiang == way[n + 1]
  <2>1. /\ way \in [1 .. n + 1 -> Packs]
        /\ \A k \in 1 .. n + 1 : ~way[k].last /\ (way[k].type = "Jiang" <=> k = n + 1)
        /\ \A t \in Tiles : TakenBy(way, t) = Held[t]
    BY <1>1, <1>4 DEF PlainWay
  <2>2. \A k \in 1 .. n + 1 : \A t \in Tiles : TilesTaken(way[k], t) <= Left[t]
    <3> SUFFICES ASSUME NEW k \in 1 .. n + 1, NEW t \in Tiles PROVE TilesTaken(way[k], t) <= Left[t]
      OBVIOUS
    <3>1. TilesTaken(way[k], t) <= Held[t]
      BY <1>1, <2>1, TakesItsShare
    <3>2. Held[t] <= Left[t]
      BY DEF HandOK
    <3>3. TilesTaken(way[k], t) \in Nat /\ Held[t] \in Nat /\ Left[t] \in Nat
      <4>1. TilesTaken(way[k], t) \in Nat
        BY TilesTakenType
      <4>2. Held[t] \in Nat
        BY FreeOfFinite, FreeOfAll
      <4>3. Left[t] \in Nat
        BY LeftAssumption
      <4> QED
        BY <4>1, <4>2, <4>3
    <3> QED
      BY <3>1, <3>2, <3>3
  <2>3. \A k \in 1 .. n : k \in 1 .. n + 1 /\ k # n + 1
    BY <1>1
  <2>4. sets \in [1 .. n -> Fits(Sets)]
    BY <2>1, <2>2, <2>3 DEF Fits
  <2>5. jiang \in Fits(Pairs)
    <3>1. n + 1 \in 1 .. n + 1
      BY <1>1
    <3> QED
      BY <2>1, <2>2, <3>1 DEF Fits
  <2>6. way = Append(sets, jiang)
    <3>1. sets \in [1 .. n -> Packs] /\ jiang \in Packs /\ \A k \in 1 .. n : sets[k] = way[k]
      BY <1>1, <2>1, <2>3
    <3> DEFINE all == Append(sets, jiang)
    <3>2. all \in [1 .. n + 1 -> Packs] /\ all[n + 1] = jiang /\ \A k \in 1 .. n : all[k] = sets[k]
      <4> HIDE DEF sets, jiang
      <4> QED
        BY <1>1, <3>1, AppendIs
    <3>3. jiang = way[n + 1]
      OBVIOUS
    <3> HIDE DEF sets, jiang, all
    <3>4. \A k \in 1 .. n + 1 : all[k] = way[k]
      <4> TAKE k \in 1 .. n + 1
      <4>1. CASE k \in 1 .. n
        BY <3>1, <3>2, <4>1
      <4>2. CASE k = n + 1
        BY <3>2, <3>3, <4>2
      <4> QED
        BY <1>1, <4>1, <4>2
    <3>5. all = way
      <4>1. all = [k \in 1 .. n + 1 |-> all[k]] /\ way = [k \in 1 .. n + 1 |-> way[k]]
        BY <2>1, <3>2
      <4> QED
        BY <3>4, <4>1
    <3> QED
      BY <3>5 DEF all
  <2> HIDE DEF sets, jiang
  <2>7. \E s \in [1 .. 4 - Melds -> Fits(Kezis \cup Shunzis)], j \in Fits(Jiangs) :
          way = Append(s, j) /\ \A t \in Tiles : TakenBy(way, t) = Held[t]
    BY <1>2, <2>1, <2>4, <2>5, <2>6 DEF n
  <2> QED
    BY <2>7, WaysAre
<1> QED
  BY <1>3, <1>4

\* With the last tile marked, a plain way is a full one.
LEMMA MarkedIsFull ==
    ASSUME HandOK, NEW way, PlainWay(way), NEW k \in 1 .. Parts,
           TilesTaken(way[k], lipai[last]) > 0
    PROVE  [way EXCEPT ![k].last = TRUE] \in FullWays
<1> DEFINE w == [way EXCEPT ![k].last = TRUE]
           marked == [way[k] EXCEPT !.last = TRUE]
<1>1. /\ way \in [1 .. Parts -> Packs] /\ Parts \in Nat /\ Parts > 0
      /\ \A m \in 1 .. Parts : ~way[m].last /\ (way[m].type = "Jiang" <=> m = Parts)
      /\ \A t \in Tiles : TakenBy(way, t) = Held[t]
  BY HandSizes DEF PlainWay
<1>2. marked \in Packs /\ marked.type = way[k].type /\ marked.middle = way[k].middle /\ marked.last
  <2>1. way[k] \in Packs
    BY <1>1
  <2> QED
    BY <2>1 DEF Packs
<1>3. w \in [1 .. Parts -> Packs] /\ w[k] = marked /\ \A m \in 1 .. Parts : m # k => w[m] = way[m]
  BY <1>1, <1>2
<1> HIDE DEF w, marked
<1>4. /\ \A m \in 1 .. Parts : w[m].type = way[m].type /\ w[m].middle = way[m].middle
      /\ \A m \in 1 .. Parts : w[m].last => m = k
      /\ w[k].last
  BY <1>1, <1>2, <1>3
<1>5. DOMAIN w = 1 .. Parts /\ DOMAIN way = 1 .. Parts
  BY <1>1, <1>3
<1>6. /\ \A m \in 1 .. Parts : \A t : TilesTaken(w[m], t) = TilesTaken(way[m], t)
      /\ \A t : TakenBy(w, t) = TakenBy(way, t)
  <2>1. \A m \in 1 .. Parts : w[m].type = way[m].type /\ w[m].middle = way[m].middle
    BY <1>4
  <2>2. ASSUME NEW t
        PROVE  /\ \A m \in 1 .. Parts : TilesTaken(w[m], t) = TilesTaken(way[m], t)
               /\ TakenBy(w, t) = TakenBy(way, t)
    BY <1>1, <1>3, <2>1, SameTaken
  <2> QED
    BY <2>2
<1>7. OnePair(w) /\ HasPair(w)
  <2>1. Parts \in 1 .. Parts
    BY <1>1
  <2> QED
    BY <1>1, <1>4, <1>5, <2>1 DEF OnePair, HasPair
<1>8. OneLast(w) /\ HasLast(w)
  BY <1>4, <1>5, <1>6 DEF OneLast, HasLast
<1>9. w \in FullWays
  BY <1>1, <1>3, <1>6, <1>7, <1>8 DEF FullWays
<1> QED
  BY <1>9 DEF w

\* A full way is a plain one with the last tile marked, but for the order.
LEMMA FullIsMarked ==
    ASSUME HandOK, NEW w \in FullWays
    PROVE  \E way : /\ PlainWay(way)
                    /\ \E k \in 1 .. Parts :
                         /\ TilesTaken(way[k], lipai[last]) > 0
                         /\ ToBag([way EXCEPT ![k].last = TRUE]) = ToBag(w)
<1>1. PICK j \in 1 .. Parts : w[j].type = "Jiang"
  BY DEF FullWays, HasPair
<1>2. Parts \in Nat /\ Parts \in 1 .. Parts
  BY HandSizes
<1> DEFINE v == Swapped(w, Parts, j)
<1>3. v \in FullWays /\ ToBag(v) = ToBag(w)
  BY <1>2, SwapFullWay
<1>4. v[Parts] = w[j]
  BY <1>1, <1>2 DEF Swapped, FullWays
<1> HIDE DEF v
<1> DEFINE way == [k \in 1 .. Parts |-> [v[k] EXCEPT !.last = FALSE]]
<1>5. /\ v \in [1 .. Parts -> Packs] /\ OnePair(v) /\ OneLast(v) /\ HasLast(v)
      /\ DOMAIN v = 1 .. Parts /\ \A t \in Tiles : TakenBy(v, t) = Held[t]
  BY <1>3 DEF FullWays
<1>6. \A k \in 1 .. Parts : /\ way[k] \in Packs /\ way[k].type = v[k].type
                            /\ way[k].middle = v[k].middle /\ ~way[k].last
                            /\ v[k].last => [way[k] EXCEPT !.last = TRUE] = v[k]
                            /\ ~v[k].last => way[k] = v[k]
  <2> TAKE k \in 1 .. Parts
  <2>1. v[k] \in Packs
    BY <1>5
  <2>2. way[k] = [v[k] EXCEPT !.last = FALSE]
    OBVIOUS
  <2> HIDE DEF way
  <2> QED
    BY <2>1, <2>2 DEF Packs
<1>7. DOMAIN way = 1 .. Parts /\ way = [k \in 1 .. Parts |-> way[k]]
  OBVIOUS
<1> HIDE DEF way
<1>8. way \in [1 .. Parts -> Packs]
  BY <1>6, <1>7
<1>9. /\ \A k \in 1 .. Parts : \A t : TilesTaken(way[k], t) = TilesTaken(v[k], t)
      /\ \A t : TakenBy(way, t) = TakenBy(v, t)
  <2>1. \A k \in 1 .. Parts : way[k].type = v[k].type /\ way[k].middle = v[k].middle
    BY <1>6
  <2>2. ASSUME NEW t
        PROVE  /\ \A k \in 1 .. Parts : TilesTaken(way[k], t) = TilesTaken(v[k], t)
               /\ TakenBy(way, t) = TakenBy(v, t)
    BY <1>5, <1>8, <2>1, SameTaken
  <2> QED
    BY <2>2
<1>10. PlainWay(way)
  <2>1. \A k \in 1 .. Parts : way[k].type = "Jiang" <=> k = Parts
    BY <1>1, <1>2, <1>4, <1>5, <1>6 DEF OnePair
  <2> QED
    BY <1>5, <1>6, <1>8, <1>9, <2>1 DEF PlainWay
<1>11. PICK l \in 1 .. Parts : v[l].last /\ TilesTaken(v[l], lipai[last]) > 0
  BY <1>5 DEF HasLast
<1>12. [way EXCEPT ![l].last = TRUE] = v
  <2> DEFINE u == [way EXCEPT ![l].last = TRUE]
  <2>1. /\ u = [k \in 1 .. Parts |-> u[k]] /\ u[l] = [way[l] EXCEPT !.last = TRUE]
        /\ \A k \in 1 .. Parts : k # l => u[k] = way[k]
    BY <1>8
  <2> HIDE DEF u
  <2>2. \A k \in 1 .. Parts : u[k] = v[k]
    BY <1>5, <1>6, <1>11, <2>1 DEF OneLast
  <2>3. v = [k \in 1 .. Parts |-> v[k]]
    BY <1>5
  <2>4. u = v
    BY <2>1, <2>2, <2>3
  <2> QED
    BY <2>4 DEF u
<1>13. TilesTaken(way[l], lipai[last]) > 0
  BY <1>9, <1>11
<1> QED
  BY <1>3, <1>10, <1>12, <1>13

\* A plain way has a pack with the tile that wins.
LEMMA SomeMark ==
    ASSUME HandOK, NEW way, PlainWay(way)
    PROVE  \E k \in 1 .. Parts : TilesTaken(way[k], lipai[last]) > 0
<1> DEFINE x == lipai[last]
<1>1. way \in [1 .. Parts -> Packs] /\ Parts \in Nat /\ DOMAIN way = 1 .. Parts
      /\ \A t \in Tiles : TakenBy(way, t) = Held[t]
  BY HandSizes DEF PlainWay
<1>2. x \in Tiles /\ last \in 1 .. HandSize
  BY DEF HandOK
<1> HIDE DEF x
<1>3. Held[x] # 0
  <2>1. FreeOf(1 .. HandSize, x) = Held[x] /\ IsFiniteSet({i \in 1 .. HandSize : lipai[i] = x})
    BY <1>2, FreeOfAll, FreeOfFinite
  <2>2. last \in {i \in 1 .. HandSize : lipai[i] = x}
    BY <1>2 DEF x
  <2> QED
    BY <2>1, <2>2, FS_EmptySet DEF FreeOf
<1>4. Rest(way, 0, x) = Copies(way, x)
  <2>1. \A c \in Copies(way, x) : c[1] > 0
    BY <1>1 DEF Copies
  <2> QED
    BY <2>1 DEF Rest
<1>5. Cardinality(Rest(way, 0, x)) # 0
  <2>1. TakenBy(way, x) = Cardinality(Copies(way, x))
    BY <1>1, CopiesFinite
  <2> QED
    BY <1>1, <1>2, <1>3, <1>4, <2>1
<1> QED
  BY <1>1, <1>5, RestHasPack DEF x

\* The complete ways are those of the definition, with the last tile marked in any
\* pack that has such a tile, but for the order of their packs.
LEMMA MarkedWays ==
    ASSUME HandOK
    PROVE  /\ {ToBag(w) : w \in FullWays} =
                {ToBag(packs) : packs \in UNION {WithLast(way) : way \in WaysOfHand}}
           /\ FullWays # {} <=> WaysOfHand # {}
<1> DEFINE All == UNION {WithLast(way) : way \in WaysOfHand}
           Mark(way, k) == [way EXCEPT ![k].last = TRUE]
<1>1. \A u : u \in All <=> \E way \in WaysOfHand : u \in WithLast(way)
  OBVIOUS
<1> HIDE DEF All, Mark
<1>2. ASSUME NEW way, PlainWay(way), NEW u
      PROVE  u \in WithLast(way) <=>
               \E k \in 1 .. Parts : TilesTaken(way[k], lipai[last]) > 0 /\ u = Mark(way, k)
  <2>1. DOMAIN way = 1 .. Parts
    BY <1>2 DEF PlainWay
  <2> QED
    BY <2>1 DEF WithLast, Mark
<1>3. ASSUME NEW u \in All PROVE u \in FullWays
  <2>1. PICK way \in WaysOfHand : u \in WithLast(way)
    BY <1>1
  <2>2. PlainWay(way)
    BY <2>1, WaysArePlain
  <2>3. PICK k \in 1 .. Parts : TilesTaken(way[k], lipai[last]) > 0 /\ u = Mark(way, k)
    BY <1>2, <2>1, <2>2
  <2> QED
    BY <2>2, <2>3, MarkedIsFull DEF Mark
<1>4. ASSUME NEW w \in FullWays PROVE \E u \in All : ToBag(u) = ToBag(w)
  <2>1. PICK way : /\ PlainWay(way)
                   /\ \E k \in 1 .. Parts : /\ TilesTaken(way[k], lipai[last]) > 0
                                            /\ ToBag(Mark(way, k)) = ToBag(w)
    BY FullIsMarked DEF Mark
  <2>2. PICK k \in 1 .. Parts : /\ TilesTaken(way[k], lipai[last]) > 0
                                /\ ToBag(Mark(way, k)) = ToBag(w)
    BY <2>1
  <2>3. way \in WaysOfHand /\ Mark(way, k) \in WithLast(way)
    BY <1>2, <2>1, <2>2, WaysArePlain
  <2> QED
    BY <1>1, <2>2, <2>3
<1>5. {ToBag(w) : w \in FullWays} = {ToBag(packs) : packs \in All}
  BY <1>3, <1>4
<1>6. ASSUME NEW w \in FullWays PROVE WaysOfHand # {}
  BY <1>1, <1>4
<1>7. ASSUME NEW way \in WaysOfHand PROVE FullWays # {}
  <2>1. PlainWay(way)
    BY WaysArePlain
  <2>2. PICK k \in 1 .. Parts : TilesTaken(way[k], lipai[last]) > 0
    BY <2>1, SomeMark
  <2> QED
    BY <2>1, <2>2, MarkedIsFull
<1> QED
  BY <1>5, <1>6, <1>7 DEF All

\* When all calls have returned, every way has been found.
LEMMA AllFound ==
    ASSUME IInv, phase \in {"counted", "lost"}
    PROVE  /\ found \subseteq FullWays
           /\ {ToBag(packs) : packs \in found} = {ToBag(w) : w \in FullWays}
<1>1. calls = <<>> /\ found \subseteq FullWays /\ NothingLost(calls, seen, found)
  BY DEF IInv, BasicInv, BasicSearch
<1>2. ASSUME NEW w \in FullWays PROVE ToBag(w) \in {ToBag(packs) : packs \in found}
  <2>1. Extends(w, <<>>)
    BY HandSizes DEF Extends
  <2>2. Met(calls, found, ToBag(w), Len(<<>>))
    BY <1>1, <2>1 DEF NothingLost
  <2>3. ~StillToCome(calls, ToBag(w), Len(<<>>))
    BY <1>1 DEF StillToCome
  <2> QED
    BY <2>2, <2>3 DEF Met
<1> QED
  BY <1>1, <1>2

\* The library says of a hand that it wins if and only if it is made of a pair and
\* sets, or of seven pairs.
THEOREM HandsAreJudgedRight == Spec => []JudgedRight
<1>1. IInv => JudgedRight
  <2> SUFFICES ASSUME IInv, phase \in {"lost", "counted"}
               PROVE  phase = "counted" <=> \/ WaysOfHand # {}
                                            \/ Melds = 0 /\ \A t \in Tiles : Held[t] \in {0, 2, 4}
    BY DEF JudgedRight
  <2>1. FullWays # {} <=> WaysOfHand # {}
    BY MarkedWays DEF IInv
  <2>2. CASE phase = "counted"
    <3>1. Winning
      BY <2>2 DEF IInv
    <3> QED
      BY <2>1, <2>2, <3>1 DEF Winning, AllEven
  <2>3. CASE phase = "lost"
    <3>1. found = {} /\ ~(Melds = 0 /\ AllEven)
      BY <2>3 DEF IInv
    <3>2. FullWays = {}
      BY <2>3, <3>1, AllFound
    <3> QED
      BY <2>1, <2>3, <3>1, <3>2 DEF AllEven
  <2> QED
    BY <2>2, <2>3
<1> QED
  BY Searches, <1>1, PTL

\* CountFan has counted every way to take a hand apart, with every pack that the
\* winning tile may have completed, and nothing else.
THEOREM EveryWayCounts == Spec => []EveryWayIsCounted
<1>1. IInv => EveryWayIsCounted
  <2> SUFFICES ASSUME IInv, phase = "counted"
               PROVE  {ToBag(packs) : packs \in found} =
                        {ToBag(packs) : packs \in UNION {WithLast(way) : way \in WaysOfHand}}
    BY DEF EveryWayIsCounted
  <2>1. {ToBag(packs) : packs \in found} = {ToBag(w) : w \in FullWays}
    BY AllFound
  <2>2. {ToBag(w) : w \in FullWays} =
          {ToBag(packs) : packs \in UNION {WithLast(way) : way \in WaysOfHand}}
    BY MarkedWays DEF IInv
  <2> QED
    BY <2>1, <2>2
<1> QED
  BY Searches, <1>1, PTL
=============================================================================

----------------------------- MODULE WinningHand -----------------------------
(***************************************************************************)
(* The search of the fan library for the sets and pairs that a hand is     *)
(* made of: Fan::_Dfs in third_party/GB-Mahjong/mahjong/fan.cpp, as        *)
(* JudgeHu uses it, to know whether there is a way, and CountFan, to count *)
(* every way.  The search tries the tiles in their order, remembers the    *)
(* prefixes of packs that it has been through and prunes what starts with  *)
(* one of them.  It is compared with what a winning hand is.  The calls of *)
(* _Dfs_recursive are a stack, and a step is one try of the innermost one. *)
(*                                                                         *)
(* Left out: the hands that are not made of sets (thirteen orphans, the    *)
(* knitted ones), where the melds came from, and what a way is worth.      *)
(***************************************************************************)
EXTENDS Integers, Sequences, SequencesExt, FiniteSetsExt

CONSTANTS
    Suits,       \* number of suits
    Ranks,       \* number of tiles in a suit
    Honours,     \* number of winds and dragons
    Melds,       \* number of melds that lie open, fulu.size()
    Left         \* bound: how many copies of each tile may be in the hand

ASSUME TilesAssumption == Suits \in Nat /\ Ranks \in Nat \ {0} /\ Honours \in Nat
ASSUME MeldsAssumption == Melds \in 0 .. 4

\* The tiles are numbered through, one suit after the other and honours last:
\* the last tile of a suit has the number before the first one of the next.
Tiles == 1 .. Suits * Ranks + Honours
IsShu(t) == t <= Suits * Ranks

ASSUME LeftAssumption == Left \in [Tiles -> 0 .. 4]

\* Mutant of Suit: the tiles are counted from zero.
SuitFromZero(t) == IF IsShu(t) THEN t \div Ranks ELSE Suits

Suit(t) == IF IsShu(t) THEN (t - 1) \div Ranks ELSE Suits

VARIABLES
    lipai,   \* the sorted tiles that are not melded
    last,    \* place of the tile that wins, the one with a draw flag
    phase,   \* the search that runs, or "counted" or "lost" in the end
    calls,   \* the calls of _Dfs_recursive that have not returned
    seen,    \* st: the prefixes tried so far
    found    \* the complete ways, with their packs in the order of the search

vars == <<lipai, last, phase, calls, seen, found>>

-----------------------------------------------------------------------------
(* Packs.                                                                  *)

Pack(type, middle, has_last) == [type |-> type, middle |-> middle, last |-> has_last]

\* Of tiles a <= b.
Judge2SameOrAdjacent(a, b) ==
    \/ a = b
    \/ IsShu(a) /\ Suit(a) = Suit(b) /\ b = a + 1

Judge3MakePack(a, b, c) ==
    IF /\ IsShu(a) /\ Suit(b) = Suit(a) /\ Suit(b) = Suit(c)
       /\ b = a + 1 /\ b = c - 1
    THEN "Shunzi"
    ELSE IF b = a /\ b = c THEN "Kezi" ELSE "None"

-----------------------------------------------------------------------------
(* The search.                                                             *)

\* Mutant of PacksHashcode: only kinds of packs, without the place of the last tile.
PacksWithoutLast(packs) == [k \in DOMAIN packs |-> <<packs[k].type, packs[k].middle>>]

\* Mutant of PacksHashcode: the number has room for one pack only.
LastPackOnly(packs) == <<Last(packs)>>

\* A number of 64 bits, eleven for each pack from the last one back: there is room
\* for five, and for the one before them but for two bits of its middle tile.
PacksHashcode(packs) ==
    LET n == Len(packs)
    IN  IF n <= 5 THEN packs
        ELSE <<[packs[n - 5] EXCEPT !.middle = @ % 32]>> \o SubSeq(packs, n - 4, n)

\* The free places after i that may be in a pack with it.  The loops over them end
\* at the first tile that is too far off: the tiles are sorted, and the rest is too.
Nearby(free, i) ==
    {k \in free : k > i /\ Judge2SameOrAdjacent(lipai[i], lipai[k])}

\* What the lowest free tile may be put together with: <<i, 0>> for a pair with i,
\* <<i, j>> for a set with i and j.
Tries(node) ==
    IF node.free = {} THEN {}
    ELSE LET start == Min(node.free)
             near == Nearby(node.free, start)
             pairs == {<<i, 0>> : i \in {k \in near : lipai[k] = lipai[start]}}
             sets == {t \in near \X node.free :
                         /\ t[2] \in Nearby(node.free, t[1])
                         /\ Judge3MakePack(lipai[start], lipai[t[1]], lipai[t[2]]) # "None"}
         IN  (IF node.duizi_cnt > 0 THEN pairs ELSE {})
                 \cup (IF node.mianzi_cnt > 0 THEN sets ELSE {})

\* The next one in the order of the loops.
FirstOf(tries) ==
    CHOOSE t \in tries : \A u \in tries : t[1] < u[1] \/ (t[1] = u[1] /\ t[2] <= u[2])

\* The search after a try: its places are taken.
After(node, try) ==
    LET start == Min(node.free)
        places == {start, try[1], try[2]} \ {0}
        type == IF try[2] = 0 THEN "Jiang"
                ELSE Judge3MakePack(lipai[start], lipai[try[1]], lipai[try[2]])
    IN  [ free |-> node.free \ places,
          mianzi_cnt |-> IF type = "Jiang" THEN node.mianzi_cnt ELSE node.mianzi_cnt - 1,
          duizi_cnt |-> IF type = "Jiang" THEN node.duizi_cnt - 1 ELSE node.duizi_cnt,
          packs |-> Append(node.packs, Pack(type, lipai[try[1]], last \in places)) ]

IsComplete(node) == node.mianzi_cnt = 0 /\ node.duizi_cnt = 0

\* A call, before its loops.
Call(node) == [node |-> node, tries |-> Tries(node)]

\* The first call of _Dfs.
Dfs(mianzi_cnt, duizi_cnt) ==
    <<Call([free |-> DOMAIN lipai, mianzi_cnt |-> mianzi_cnt,
            duizi_cnt |-> duizi_cnt, packs |-> <<>>])>>

\* JudgeHu is content with one way: all calls return.
Enough == phase # "count" /\ found # {}

\* One round of the loops of the innermost call: unless a prefix has been met
\* before, the search goes on from it, or a way is complete.
TryNext ==
    /\ calls # <<>> /\ Last(calls).tries # {}
    /\ ~Enough
    /\ LET call == Last(calls)
           try == FirstOf(call.tries)
           next == After(call.node, try)
           code == PacksHashcode(next.packs)
           waiting == [calls EXCEPT ![Len(calls)].tries = @ \ {try}]
           is_new == code \notin seen
       IN  /\ seen' = seen \cup {code}
           /\ calls' = IF is_new /\ ~IsComplete(next) THEN Append(waiting, Call(next)) ELSE waiting
           /\ found' = IF is_new /\ IsComplete(next) THEN found \cup {next.packs} ELSE found
    /\ UNCHANGED <<lipai, last, phase>>

\* The loops of the innermost call have ended.
Return ==
    /\ calls # <<>> /\ Last(calls).tries = {}
    /\ ~Enough
    /\ calls' = Front(calls)
    /\ UNCHANGED <<lipai, last, phase, seen, found>>

\* JudgeBasicHu, and the part of CountFan that counts basic ways.
BasicDfs == Dfs(4 - Melds, 1)

-----------------------------------------------------------------------------
\* How many tiles up to t there are in a hand with n[u] copies of each tile u.
UpTo(n, t) == Cardinality({copy \in (1 .. t) \X (1 .. 4) : copy[2] <= n[copy[1]]})

HandSize == 14 - 3 * Melds

\* The sorted hand with n[t] copies of tile t.
Sorted(n) ==
    [i \in 1 .. HandSize |-> CHOOSE t \in Tiles : UpTo(n, t - 1) < i /\ i <= UpTo(n, t)]

\* What one can hold of the copies that are left.
Holdings ==
    {n \in [Tiles -> 0 .. 4] :
        (\A t \in Tiles : n[t] <= Left[t]) /\ UpTo(n, Suits * Ranks + Honours) = HandSize}

\* JudgeHu begins with the seven pairs, if there is no meld.  The library leaves it
\* open where among its equals the marked tile comes to lie: last is any place.
Init ==
    /\ \E n \in Holdings : lipai = Sorted(n)
    /\ last \in DOMAIN lipai
    /\ phase = IF Melds = 0 THEN "qidui" ELSE "basic"
    /\ calls = IF Melds = 0 THEN Dfs(0, 7) ELSE BasicDfs
    /\ seen = {} /\ found = {}

\* No seven pairs: JudgeBasicHu is asked.
NoQidui ==
    /\ phase = "qidui" /\ calls = <<>> /\ found = {}
    /\ phase' = "basic" /\ calls' = BasicDfs /\ seen' = {}
    /\ UNCHANGED <<lipai, last, found>>

\* The hand wins: CountFan counts every way.
Hu ==
    /\ phase \in {"qidui", "basic"} /\ found # {}
    /\ phase' = "count" /\ calls' = BasicDfs /\ seen' = {} /\ found' = {}
    /\ UNCHANGED <<lipai, last>>

\* The last call has returned: no win, or all is counted.
NoHu ==
    /\ phase = "basic" /\ calls = <<>> /\ found = {}
    /\ phase' = "lost"
    /\ UNCHANGED <<lipai, last, calls, seen, found>>

CountEnds ==
    /\ phase = "count" /\ calls = <<>>
    /\ phase' = "counted"
    /\ UNCHANGED <<lipai, last, calls, seen, found>>

Next == TryNext \/ Return \/ NoQidui \/ Hu \/ NoHu \/ CountEnds

Spec == Init /\ [][Next]_vars

-----------------------------------------------------------------------------
(* What a winning hand is.                                                 *)

Kezis == {Pack("Kezi", t, FALSE) : t \in Tiles}
ShunziMiddles == {suit * Ranks + rank : suit \in 0 .. Suits - 1, rank \in 2 .. Ranks - 1}
Shunzis == {Pack("Shunzi", m, FALSE) : m \in ShunziMiddles}
Jiangs == {Pack("Jiang", t, FALSE) : t \in Tiles}

\* How many of tile t are in a pack.
TilesTaken(pack, t) ==
    IF pack.type = "Shunzi" THEN IF t \in pack.middle - 1 .. pack.middle + 1 THEN 1 ELSE 0
    ELSE IF t # pack.middle THEN 0
    ELSE IF pack.type = "Kezi" THEN 3 ELSE 2

\* How many of tile t are in the packs of a sequence.
TakenBy(packs, t) ==
    Cardinality({copy \in (DOMAIN packs) \X (1 .. 3) : copy[2] <= TilesTaken(packs[copy[1]], t)})

\* Every way to make a hand of the tiles that are left, with the tiles it takes.
WinningWays ==
    LET fitting(packs) == {p \in packs : \A t \in Tiles : TilesTaken(p, t) <= Left[t]}
    IN  { [way |-> Append(sets, jiang), takes |-> [t \in Tiles |-> TakenBy(Append(sets, jiang), t)]] :
            sets \in [1 .. 4 - Melds -> fitting(Kezis \cup Shunzis)], jiang \in fitting(Jiangs) }

Held == [t \in Tiles |-> Cardinality({i \in DOMAIN lipai : lipai[i] = t})]

WaysOfHand == LET held == Held IN {w.way : w \in {v \in WinningWays : v.takes = held}}

\* The tile that wins may be counted to any pack that has such a tile.
WithLast(way) ==
    { [way EXCEPT ![k].last = TRUE] :
        k \in {m \in DOMAIN way : TilesTaken(way[m], lipai[last]) > 0} }

-----------------------------------------------------------------------------
(* Properties.                                                             *)

\* The library says of a hand that it wins if and only if it can be taken apart
\* into a pair and sets, or into seven pairs: the order in which it tries the
\* tiles, and the prefixes that it does not try twice, lose no hand; and no set
\* goes across two suits or is made of honours in a row.
JudgedRight ==
    phase \in {"lost", "counted"} =>
        (phase = "counted" <=> \/ WaysOfHand # {}
                               \/ Melds = 0 /\ \A t \in Tiles : Held[t] \in {0, 2, 4})

\* CountFan has counted every way to take the hand apart, for each of them every
\* pack that the winning tile may have completed, and nothing else, wherever the
\* marked tile lies among its equals: what the hand is worth is the best of all.
\* The order of the packs is of no account.
EveryWayIsCounted ==
    phase = "counted" =>
        {ToBag(packs) : packs \in found} =
            {ToBag(packs) : packs \in UNION {WithLast(way) : way \in WaysOfHand}}
=============================================================================

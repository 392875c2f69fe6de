------------------------------- MODULE SkipList -------------------------------
(***************************************************************************)
(* The sorted set of src/util/zset.go as it is built: a map from members   *)
(* to scores beside a skip list whose nodes are linked on several levels,  *)
(* every link carrying the number of nodes it jumps, and back on the       *)
(* lowest level.  A node is named by its member; the level the code draws  *)
(* at random is an argument.  Levels are numbered from 1.                  *)
(***************************************************************************)
EXTENDS Integers, FiniteSets, Sequences, SortedSet

CONSTANTS
  Members, Scores,   \* natural numbers in the order of the strings, integers
  MaxLevel,          \* 16 in the code
  Borders,           \* the borders RemoveByScore is called with
  Counts,            \* the limits PopMin is called with
  Ranks,             \* the ranks RemoveByRank is called with
  Header, Nil        \* the head node, and the nil pointer

ASSUME ListAssumption ==
  /\ Members \subseteq Nat /\ Scores \subseteq Int
  /\ MaxLevel \in Nat \ {0}
  /\ Header \notin Members /\ Nil \notin Members /\ Header # Nil

VARIABLE zset   \* [dict, list], a SortedSet

LOCAL Seqs == INSTANCE SequencesExt

Levels == 1..MaxLevel
Slots(n, h) == {n} \X (1..h)          \* the places of a node for its links
-----------------------------------------------------------------------------
(* Borders of a range of scores. *)

NegInf == [inf |-> -1, value |-> 0, exclude |-> FALSE]
PosInf == [inf |-> 1, value |-> 0, exclude |-> FALSE]
At(s) == [inf |-> 0, value |-> s, exclude |-> FALSE]
Past(s) == [inf |-> 0, value |-> s, exclude |-> TRUE]

\* As a minimum the border lies below s, as a maximum above it.
Less(b, s) ==
  \/ b.inf = -1
  \/ b.inf = 0 /\ (b.value < s \/ (b.value = s /\ ~b.exclude))
Greater(b, s) ==
  \/ b.inf = 1
  \/ b.inf = 0 /\ (b.value > s \/ (b.value = s /\ ~b.exclude))
-----------------------------------------------------------------------------
(* The list. *)

EmptyList ==
  [level |-> 1, length |-> 0, tail |-> Nil,
   score |-> [n \in {Header} |-> 0],
   back  |-> EmptyMap,
   link  |-> [k \in Slots(Header, MaxLevel) |-> [to |-> Nil, span |-> 0]]]

MakeSortedSet == [dict |-> EmptyMap, list |-> EmptyList]

To(L, n, i) == L.link[<<n, i>>].to
Nodes(L) == DOMAIN L.score \ {Header}
Key(L, n) == Entry(n, L.score[n])

\* The nodes a border admits as a maximum, and as a minimum.
Below(L, b) == {n \in Nodes(L) : Greater(b, L.score[n])}
Above(L, b) == {n \in Nodes(L) : Less(b, L.score[n])}

\* The nodes before the place of an entry.
Ahead(L, e) == {n \in Nodes(L) : Before(Key(L, n), e)}

(* Every search descends from the top level, and follows the links of a    *)
(* level as long as go[node, rank] holds of the node ahead and its rank.   *)
(* The places it leaves the levels at are the code's `update' and `rank'.  *)
Descend(L, go) ==
  LET walk[i \in Levels, n \in DOMAIN L.score, r \in Int] ==
        LET ahead == L.link[<<n, i>>]
        IN  IF ahead.to # Nil /\ go[ahead.to, r + ahead.span]
            THEN walk[i, ahead.to, r + ahead.span]
            ELSE [node |-> n, rank |-> r]
      place[i \in 1..L.level] ==
        IF i = L.level
        THEN walk[i, Header, 0]
        ELSE LET p == place[i + 1] IN walk[i, p.node, p.rank]
  IN  place

\* A search that passes the nodes of S.
Search(L, S) == Descend(L, [n \in Nodes(L), r \in Int |-> n \in S])

\* The nodes reached from n by step, up to the first that is not in S.
Walk(n, step, S) ==
  LET from[x \in Members \cup {Nil}] ==
        IF x \notin S THEN <<>> ELSE <<x>> \o from[step[x]]
  IN  from[n]

\* The links of `new' where it has one, those of `old' elsewhere.
Relinked(old, new) ==
  [k \in DOMAIN old \cup DOMAIN new |->
     IF k \in DOMAIN new THEN new[k] ELSE old[k]]

\* Seeded fault: a level that comes into use keeps the span it was left with.
SpotsStale(L, m, s, h) ==
  LET place == Search(L, Ahead(L, Entry(m, s)))
      old(i) == IF i <= L.level THEN place[i] ELSE [node |-> Header, rank |-> 0]
  IN  [i \in 1..(IF h > L.level THEN h ELSE L.level) |->
         [prev |-> old(i).node,
          gap  |-> place[1].rank - old(i).rank,
          span |-> L.link[<<old(i).node, i>>].span]]

\* Where insert links a node on each level: the node before it, the number of
\* nodes between the two, and the span to divide.  Levels not in use so far
\* jump over the whole list.
Spots(L, m, s, h) ==
  LET place == Search(L, Ahead(L, Entry(m, s)))
  IN  [i \in 1..(IF h > L.level THEN h ELSE L.level) |->
         IF i <= L.level
         THEN [prev |-> place[i].node,
               gap  |-> place[1].rank - place[i].rank,
               span |-> L.link[<<place[i].node, i>>].span]
         ELSE [prev |-> Header, gap |-> place[1].rank, span |-> L.length]]

\* insert, with the level h that randomLevel drew.
Insert(L, m, s, h) ==
  LET at   == Spots(L, m, s, h)
      prev == at[1].prev
      next == To(L, prev, 1)
      out  == [k \in Slots(m, h) |->
                 [to   |-> To(L, at[k[2]].prev, k[2]),
                  span |-> at[k[2]].span - at[k[2]].gap]]
      into == [k \in {<<at[i].prev, i>> : i \in DOMAIN at} |->
                 IF k[2] <= h
                 THEN [to |-> m, span |-> at[k[2]].gap + 1]
                 ELSE [L.link[k] EXCEPT !.span = @ + 1]]
      back == Put(L.back, m, IF prev = Header THEN Nil ELSE prev)
  IN  [level  |-> Len(at),
       length |-> L.length + 1,
       tail   |-> IF next = Nil THEN m ELSE L.tail,
       score  |-> Put(L.score, m, s),
       back   |-> IF next = Nil THEN back ELSE Put(back, next, m),
       link   |-> Relinked(Relinked(L.link, out), into)]

\* The level once the empty ones at the top are given up.
Lowered(link, level) ==
  LET used == {i \in 2..level : link[<<Header, i>>].to # Nil}
  IN  IF used = {} THEN 1 ELSE CHOOSE i \in used : \A j \in used : j <= i

\* The back pointers without n: the node behind it points to the one before.
BackWithout(L, n) ==
  LET next == To(L, n, 1)
      rest == Delete(L.back, n)
  IN  IF next = Nil THEN rest ELSE Put(rest, next, L.back[n])

\* removeNode, given the places the search left the levels at.
Unlink(L, n, place) ==
  LET into == [k \in {<<place[i].node, i>> : i \in 1..L.level} |->
                 IF L.link[k].to = n
                 THEN [to   |-> To(L, n, k[2]),
                       span |-> L.link[k].span + L.link[<<n, k[2]>>].span - 1]
                 ELSE [L.link[k] EXCEPT !.span = @ - 1]]
      link == Restrict(Relinked(L.link, into), {k \in DOMAIN L.link : k[1] # n})
  IN  [level  |-> Lowered(link, L.level),
       length |-> L.length - 1,
       tail   |-> IF To(L, n, 1) = Nil THEN L.back[n] ELSE L.tail,
       score  |-> Delete(L.score, n),
       back   |-> BackWithout(L, n),
       link   |-> link]

\* The nodes of a sequence unlinked one after the other, from one search.
UnlinkAll(L, ns, place) ==
  Seqs!FoldLeft(LAMBDA M, n : Unlink(M, n, place), L, ns)

RemoveNode(L, m, s) ==
  LET place == Search(L, Ahead(L, Entry(m, s)))
      n     == To(L, place[1].node, 1)
  IN  IF n # Nil /\ Key(L, n) = Entry(m, s) THEN Unlink(L, n, place) ELSE L

Forward(L, n, S) == Walk(n, [x \in Nodes(L) |-> To(L, x, 1)], S)
Back(L, n, S) == Walk(n, L.back, S)

\* Seeded fault: the limit is compared before the element is appended.
LimitedLate(ns, n) ==
  IF n > 0 /\ n + 1 < Len(ns) THEN SubSeq(ns, 1, n + 1) ELSE ns

\* At most n of the nodes of ns, all of them when n is not positive.
Limited(ns, n) == IF n > 0 /\ n < Len(ns) THEN SubSeq(ns, 1, n) ELSE ns

\* RemoveRangeByScore: the list that is left, and the nodes taken out of it.
RemoveRangeByScore(L, min, max, limit) ==
  LET place == Search(L, Nodes(L) \ Above(L, min))
      first == To(L, place[1].node, 1)
      ns    == Limited(Forward(L, first, Below(L, max)), limit)
  IN  [list |-> UnlinkAll(L, ns, place), removed |-> Seqs!ToSet(ns)]

\* RemoveRangeByRank, with 1-based ranks from start up to stop.
RemoveRangeByRank(L, start, stop) ==
  LET place == Descend(L, [n \in Nodes(L), r \in Int |-> r < start])
      first == To(L, place[1].node, 1)
      room  == stop - (place[1].rank + 1)
      ns    == IF room > 0
               THEN Limited(Forward(L, first, Nodes(L)), room)
               ELSE <<>>
  IN  [list |-> UnlinkAll(L, ns, place), removed |-> Seqs!ToSet(ns)]

\* Seeded fault: the search stops before the member itself, as insert's does.
GetNodeRankBefore(L, m, s) ==
  LET place == Search(L, Ahead(L, Entry(m, s)))
      hits  == {i \in 1..L.level : place[i].node = m}
  IN  IF hits = {} THEN 0
      ELSE place[CHOOSE i \in hits : \A j \in hits : j <= i].rank

\* 1-based rank, 0 for a member that is not found.
GetNodeRank(L, m, s) ==
  LET place == Search(L, {n \in Nodes(L) : ~Before(Entry(m, s), Key(L, n))})
      hits  == {i \in 1..L.level : place[i].node = m}
  IN  IF hits = {} THEN 0
      ELSE place[CHOOSE i \in hits : \A j \in hits : j <= i].rank

GetByRank(L, rank) ==
  LET place == Descend(L, [n \in Nodes(L), r \in Int |-> r <= rank])
      hits  == {i \in 1..L.level : place[i].rank = rank}
  IN  IF hits = {} THEN Nil
      ELSE place[CHOOSE i \in hits : \A j \in hits : j <= i].node

\* The value of an infinite border is 0 and compared like any other.
HasInRange(L, min, max) ==
  /\ ~(min.value > max.value /\ max.inf # 1)
  /\ ~(min.value = max.value /\ (min.exclude \/ max.exclude))
  /\ L.tail # Nil /\ Less(min, L.score[L.tail])
  /\ To(L, Header, 1) # Nil /\ Greater(max, L.score[To(L, Header, 1)])

GetFirstInScoreRange(L, min, max) ==
  LET place == Search(L, Nodes(L) \ Above(L, min))
      n     == To(L, place[1].node, 1)
  IN  IF HasInRange(L, min, max) /\ Greater(max, L.score[n]) THEN n ELSE Nil

GetLastInScoreRange(L, min, max) ==
  LET place == Search(L, Below(L, max))
      n     == place[1].node
  IN  IF HasInRange(L, min, max) /\ Less(min, L.score[n]) THEN n ELSE Nil
-----------------------------------------------------------------------------
(* The operations of the sorted set. *)

Add(z, m, s, h) ==
  [dict |-> Put(z.dict, m, s),
   list |-> IF m \notin DOMAIN z.dict THEN Insert(z.list, m, s, h)
            ELSE IF z.dict[m] = s THEN z.list
            ELSE Insert(RemoveNode(z.list, m, z.dict[m]), m, s, h)]

Remove(z, m) ==
  IF m \in DOMAIN z.dict
  THEN [dict |-> Delete(z.dict, m), list |-> RemoveNode(z.list, m, z.dict[m])]
  ELSE z

Without(z, cut) ==
  [dict |-> Restrict(z.dict, DOMAIN z.dict \ cut.removed), list |-> cut.list]

RemoveByScore(z, min, max) ==
  Without(z, RemoveRangeByScore(z.list, min, max, 0))

RemoveByRank(z, start, stop) ==
  Without(z, RemoveRangeByRank(z.list, start + 1, stop + 1))

PopMin(z, count) ==
  LET first  == GetFirstInScoreRange(z.list, NegInf, PosInf)
      border == At(z.list.score[first])
  IN  IF first = Nil THEN z
      ELSE Without(z, RemoveRangeByScore(z.list, border, border, count))

GetRank(z, m, desc) ==
  IF m \notin DOMAIN z.dict THEN -1
  ELSE LET r == GetNodeRank(z.list, m, z.dict[m])
       IN  IF desc THEN z.list.length - r ELSE r - 1

\* Range, for ranks ForEach does not panic on.
RangeLegal(z, start, stop) ==
  LET size == Cardinality(DOMAIN z.dict)
  IN  0 <= start /\ start < size /\ start <= stop /\ stop <= size

RangeByRank(z, start, stop, desc) ==
  LET size == Cardinality(DOMAIN z.dict)
      all  == IF desc
              THEN Back(z.list, IF start = 0 THEN z.list.tail
                                ELSE GetByRank(z.list, size - start),
                        Nodes(z.list))
              ELSE Forward(z.list, IF start = 0 THEN To(z.list, Header, 1)
                                   ELSE GetByRank(z.list, start + 1),
                           Nodes(z.list))
  IN  SubSeq(all, 1, stop - start)

\* Count, on a set that is not empty: ForEach panics on an empty one.
Count(z, min, max) ==
  LET above   == Above(z.list, min)
      visited == Forward(z.list, To(z.list, Header, 1),
                         (Nodes(z.list) \ above) \cup Below(z.list, max))
  IN  Cardinality(Seqs!ToSet(visited) \cap above)

\* RangeByScore without a limit and from the first member on, its one use.
RangeByScore(z, min, max, desc) ==
  LET inside == Above(z.list, min) \cap Below(z.list, max)
  IN  IF desc
      THEN Back(z.list, GetLastInScoreRange(z.list, min, max), inside)
      ELSE Forward(z.list, GetFirstInScoreRange(z.list, min, max), inside)
-----------------------------------------------------------------------------
Init == zset = MakeSortedSet

DoAdd ==
  \E m \in Members, s \in Scores, h \in Levels : zset' = Add(zset, m, s, h)
DoRemove == \E m \in Members : zset' = Remove(zset, m)
DoRemoveByScore ==
  \E min, max \in Borders : zset' = RemoveByScore(zset, min, max)
DoRemoveByRank ==
  \E start, stop \in Ranks : zset' = RemoveByRank(zset, start, stop)
DoPopMin == \E n \in Counts : zset' = PopMin(zset, n)

Next == DoAdd \/ DoRemove \/ DoRemoveByScore \/ DoRemoveByRank \/ DoPopMin

Spec == Init /\ [][Next]_zset
-----------------------------------------------------------------------------
(* What the list is, and what the operations promise. *)

Content(z) == {Key(z.list, n) : n \in Nodes(z.list)}

\* The nodes on level i, and the number of nodes up to n.
OnLevel(L, i) == {n \in Nodes(L) : <<n, i>> \in DOMAIN L.link}
UpTo(L, n) ==
  IF n = Header THEN {}
  ELSE {x \in Nodes(L) : ~Before(Key(L, n), Key(L, x))}
Rank(L, n) == Cardinality(UpTo(L, n))

\* The entries of S in order.
Sorted(S) ==
  CHOOSE q \in [1..Cardinality(S) -> S] :
    \A i, j \in 1..Cardinality(S) : i < j => Before(q[i], q[j])
Keys(z, ns) == [i \in DOMAIN ns |-> Key(z.list, ns[i])]

\* The variable has the type of a SortedSet: every node has a score, a back
\* pointer and links up to some level, which the level of the list covers
\* (the structs of zset.go and removeNode's lower bound of the level).
TypeOK ==
  LET L == zset.list
  IN  /\ IsMap(zset.dict, Members, Scores)
      /\ L.level \in Levels /\ L.length \in 0..Cardinality(Members)
      /\ L.tail \in Members \cup {Nil}
      /\ Nodes(L) \subseteq Members
      /\ IsMap(L.back, Members, Members \cup {Nil})
      /\ DOMAIN L.back = Nodes(L)
      /\ IsMap(L.link, (Members \cup {Header}) \X Levels,
               [to : Members \cup {Nil}, span : Int])
      /\ \A i \in Levels : <<Header, i>> \in DOMAIN L.link

\* Every level links its nodes in the order of the lowest one, skipping none
\* of them, and each link carries the number of nodes it jumps; the levels
\* in use end at the highest node (insert and removeNode relink the levels a
\* node is on, and correct the spans of those that pass over it).
Linked ==
  LET L == zset.list
  IN  /\ \A i \in 1..L.level : \A n \in OnLevel(L, i) \cup {Header} :
           LET ahead == OnLevel(L, i) \ UpTo(L, n)
               link  == L.link[<<n, i>>]
           IN  IF ahead = {}
               THEN link = [to |-> Nil, span |-> L.length - Rank(L, n)]
               ELSE /\ Key(L, link.to) = FirstOf({Key(L, x) : x \in ahead})
                    /\ link.span = Rank(L, link.to) - Rank(L, n)
      /\ \A i \in Levels : i > 1 => (i <= L.level <=> OnLevel(L, i) # {})

\* The back pointers and the tail mirror the lowest level, so that a
\* descending walk visits what an ascending one does (insert and removeNode
\* set them at both ends of the list).
Mirrored ==
  LET L == zset.list
      before(n) == {x \in Nodes(L) : Rank(L, x) < Rank(L, n)}
      lastOf(S) == IF S = {} THEN Nil
                   ELSE CHOOSE x \in S : \A y \in S : Rank(L, y) <= Rank(L, x)
  IN  /\ \A n \in Nodes(L) : L.back[n] = lastOf(before(n))
      /\ L.tail = lastOf(Nodes(L))

\* The map and the list hold the same members with the same scores, and the
\* list counts them (every operation of SortedSet changes both).
InStep ==
  /\ zset.dict = [n \in Nodes(zset.list) |-> zset.list.score[n]]
  /\ zset.list.length = Cardinality(DOMAIN zset.dict)

\* The representation invariant.  The structs and every relinking of zset.go
\* keep it: without it no search finds what it should.
WellFormed == TypeOK /\ Linked /\ Mirrored /\ InStep

\* Add and Remove do to the list what module SortedSet says, whatever level
\* is drawn: the tables of the gateway and of the online service rest on it
\* (Add moves a member whose score changes, and Remove finds it by the score
\* the map holds).
AddAndRemoveKept ==
  /\ \A m \in Members, s \in Scores, h \in Levels :
       Content(Add(zset, m, s, h)) = ListAdd(Content(zset), zset.dict, m, s)
  /\ \A m \in DOMAIN zset.dict :
       Content(Remove(zset, m)) = ListRemove(Content(zset), zset.dict, m)

\* The operations that remove many members take exactly those between the
\* borders, those of the ranks from start up to stop, and the first of those
\* with the lowest score: one search serves every node they unlink
\* (RemoveRangeByScore, RemoveRangeByRank, PopMin).
RemovesExactly ==
  LET all == Content(zset)
      rank(e) == Cardinality({f \in all : Before(f, e)})
      lowest == {e \in all : e[1] = FirstOf(all)[1]}
  IN  /\ \A min, max \in Borders :
           Content(RemoveByScore(zset, min, max)) =
             {e \in all : ~(Less(min, e[1]) /\ Greater(max, e[1]))}
      /\ \A start, stop \in Ranks :
           Content(RemoveByRank(zset, start, stop)) =
             {e \in all : ~(start <= rank(e) /\ rank(e) < stop)}
      /\ all # {} =>
           \A n \in Counts :
             Content(PopMin(zset, n)) =
               all \ (IF n > 0 THEN {e \in lowest : rank(e) < n} ELSE lowest)
      /\ all # {} =>
           LET m == MinMember(zset.dict)
           IN  Content(PopMin(zset, 1)) = ListRemove(all, zset.dict, m)

\* The operations of zset.go that change the set are those of the reference.
OperationsExact == AddAndRemoveKept /\ RemovesExactly

\* Ranks found through the spans are the places of the members in order, in
\* both directions (GetRank, and the Range that starts from getByRank).
RanksExact ==
  LET q == Sorted(Content(zset))
      size == Len(q)
  IN  /\ \A i \in 1..size :
           /\ GetRank(zset, Member(q[i]), FALSE) = i - 1
           /\ GetRank(zset, Member(q[i]), TRUE) = size - i
      /\ \A start, stop \in Ranks : RangeLegal(zset, start, stop) =>
           /\ Keys(zset, RangeByRank(zset, start, stop, FALSE)) =
                SubSeq(q, start + 1, stop)
           /\ Keys(zset, RangeByRank(zset, start, stop, TRUE)) =
                Seqs!Reverse(SubSeq(q, size - stop + 1, size - start))

\* A range by score visits the members between its borders in order, both
\* ways, and Count counts them.  Ranges with one infinite border are left to
\* the README: hasInRange compares the value such a border does not have.
ScoreRangesExact ==
  LET inside(min, max) ==
        {e \in Content(zset) : Less(min, e[1]) /\ Greater(max, e[1])}
  IN  \A min, max \in Borders :
        /\ (min.inf # 0 <=> max.inf # 0) =>
             /\ Keys(zset, RangeByScore(zset, min, max, FALSE)) =
                  Sorted(inside(min, max))
             /\ Keys(zset, RangeByScore(zset, min, max, TRUE)) =
                  Seqs!Reverse(Sorted(inside(min, max)))
        /\ DOMAIN zset.dict # {} =>
             Count(zset, min, max) = Cardinality(inside(min, max))

\* The queries of zset.go answer what the entries, read as a set, say.
QueriesExact == RanksExact /\ ScoreRangesExact
==============================================================================

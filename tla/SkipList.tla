------------------------------ MODULE SkipList ------------------------------
(***************************************************************************)
(* The skiplist of a large sorted set (src/core/skiplist.cpp), as a value. *)
(* A node is named by its member; members are naturals, compared as the    *)
(* code compares their bytes.  Levels count from 1.  A level of a node     *)
(* holds the next node on that level and the span of the pointer: how many *)
(* nodes it moves forward, or, where there is no next node, how many are   *)
(* left.                                                                   *)
(***************************************************************************)
EXTENDS Integers, Sequences, FiniteSets, FiniteSetsExt

CONSTANT MaxLevel   \* kSkipListMaxLevel, 32

Header == 0
Null == -1

NoLevel == [fwd |-> Null, span |-> 0]

(* SkipList() and clear.                                                    *)
NewSkipList ==
  [node |-> [x \in {Header} |->
               [score |-> 0, back |-> Null, next |-> [i \in 1 .. MaxLevel |-> NoLevel]]],
   tail |-> Null, length |-> 0, level |-> 1]

SkipMembers(sl) == DOMAIN sl.node \ {Header}
Next1(sl, x) == sl.node[x].next[1].fwd

isBefore(s1, m1, s2, m2) == s1 < s2 \/ (s1 = s2 /\ m1 < m2)

(***************************************************************************)
(* The descent all operations share: from the top level down, along each   *)
(* level while the next node is one of "past".  Where it leaves each       *)
(* level, and how many nodes it has passed by then.                        *)
(***************************************************************************)
RECURSIVE Advance(_, _, _, _)
Advance(sl, i, at, past) ==
  LET l == sl.node[at.node].next[i] IN
  IF l.fwd \in past
  THEN Advance(sl, i, [node |-> l.fwd, rank |-> at.rank + l.span], past)
  ELSE at

Descent(sl, past) ==
  LET stop[i \in 1 .. sl.level] ==
        Advance(sl, i,
                IF i = sl.level THEN [node |-> Header, rank |-> 0] ELSE stop[i + 1],
                past)
  IN stop

Below(sl, score, m) ==
  {x \in SkipMembers(sl) : isBefore(sl.node[x].score, x, score, m)}

(* The span that the header gets at a level nobody used yet.                *)
FreshSpan(sl) == sl.length

(***************************************************************************)
(* insert: height is what randomLevel drew.                                *)
(***************************************************************************)
InsertNode(sl, score, m, height) ==
  LET stop == Descent(sl, Below(sl, score, m))
      level == Max({height, sl.level})
      rank(i) == IF i <= sl.level THEN stop[i].rank ELSE 0
      update(i) == IF i <= sl.level THEN stop[i].node ELSE Header
      old(i) == IF i <= sl.level THEN sl.node[update(i)].next[i]
                ELSE [fwd |-> Null, span |-> FreshSpan(sl)]
      inserted == [score |-> score,
                   back |-> IF update(1) = Header THEN Null ELSE update(1),
                   next |-> [i \in 1 .. height |->
                               [fwd |-> old(i).fwd,
                                span |-> old(i).span - (rank(1) - rank(i))]]]
      relinked(x) ==
        [sl.node[x] EXCEPT
           !.back = IF x = old(1).fwd THEN m ELSE @,
           !.next = [i \in DOMAIN @ |->
             IF i > level \/ update(i) # x THEN @[i]
             ELSE IF i <= height THEN [fwd |-> m, span |-> rank(1) - rank(i) + 1]
             ELSE [@[i] EXCEPT !.span = @ + 1]]]
  IN [node |-> [x \in DOMAIN sl.node \union {m} |->
                  IF x = m THEN inserted ELSE relinked(x)],
      tail |-> IF old(1).fwd = Null THEN m ELSE sl.tail,
      length |-> sl.length + 1,
      level |-> level]

(* The span of a pointer that passes over the removed node.                 *)
PassingSpanKept(span) == span
PassingSpan(span) == span - 1

(***************************************************************************)
(* remove, of a member that is there.                                      *)
(***************************************************************************)
RemoveNode(sl, score, m) ==
  LET stop == Descent(sl, Below(sl, score, m))
      target == sl.node[m]
      unlinked(x) ==
        [sl.node[x] EXCEPT
           !.back = IF x = target.next[1].fwd THEN target.back ELSE @,
           !.next = [i \in DOMAIN @ |->
             IF i > sl.level \/ stop[i].node # x THEN @[i]
             ELSE IF @[i].fwd = m
                  THEN [fwd |-> target.next[i].fwd,
                        span |-> @[i].span + target.next[i].span - 1]
                  ELSE [@[i] EXCEPT !.span = PassingSpan(@)]]]
      node == [x \in DOMAIN sl.node \ {m} |-> unlinked(x)]
      used == {i \in 1 .. sl.level : node[Header].next[i].fwd # Null}
  IN [node |-> node,
      tail |-> IF target.next[1].fwd = Null THEN target.back ELSE sl.tail,
      length |-> sl.length - 1,
      level |-> Max(used \union {1})]

(***************************************************************************)
(* Queries.  A rank counts from 0, Null stands for no answer.              *)
(***************************************************************************)

(* rankOf stops as soon as it lands on the member.                          *)
RankOf(sl, score, m) ==
  LET stop == Descent(sl, Below(sl, score, m) \union {m})
      hits == {i \in 1 .. sl.level : stop[i].node = m}
  IN IF hits = {} \/ sl.node[m].score # score THEN Null
     ELSE stop[Max(hits)].rank - 1

(* nodeByRank goes by the spans alone.                                      *)
RECURSIVE Travel(_, _, _, _, _)
Travel(sl, i, x, travelled, target) ==
  LET l == sl.node[x].next[i] IN
  IF l.fwd # Null /\ travelled + l.span <= target
  THEN Travel(sl, i, l.fwd, travelled + l.span, target)
  ELSE IF travelled = target /\ x # Header THEN x
  ELSE IF i = 1 THEN Null
  ELSE Travel(sl, i - 1, x, travelled, target)

NodeByRank(sl, rank) ==
  IF rank >= sl.length THEN Null ELSE Travel(sl, sl.level, Header, 0, rank + 1)

(* ScoreRange.                                                              *)
IsEmptyRange(r) == r.min > r.max \/ (r.min = r.max /\ (r.minEx \/ r.maxEx))
AboveMin(r, score) == IF r.minEx THEN score > r.min ELSE score >= r.min
BelowMax(r, score) == IF r.maxEx THEN score < r.max ELSE score <= r.max

FirstInRange(sl, r) ==
  LET low == {x \in SkipMembers(sl) : ~AboveMin(r, sl.node[x].score)}
      x == Next1(sl, Descent(sl, low)[1].node)
  IN IF IsEmptyRange(r) \/ sl.length = 0 \/ sl.tail \in low \/ x = Null THEN Null
     ELSE IF BelowMax(r, sl.node[x].score) THEN x ELSE Null

LastInRange(sl, r) ==
  LET low == {x \in SkipMembers(sl) : BelowMax(r, sl.node[x].score)}
      x == Descent(sl, low)[1].node
  IN IF IsEmptyRange(r) \/ sl.length = 0 \/ x = Header THEN Null
     ELSE IF AboveMin(r, sl.node[x].score) THEN x ELSE Null

CountInRange(sl, r) ==
  LET first == FirstInRange(sl, r)
      last == LastInRange(sl, r)
  IN IF first = Null \/ last = Null THEN 0
     ELSE RankOf(sl, sl.node[last].score, last)
          - RankOf(sl, sl.node[first].score, first) + 1

(* The members from the head on, and from x to the end.                     *)
RECURSIVE ChainFrom(_, _)
ChainFrom(sl, x) ==
  IF x = Null THEN <<>> ELSE <<x>> \o ChainFrom(sl, Next1(sl, x))

Chain(sl) == ChainFrom(sl, Next1(sl, Header))

=============================================================================

------------------------------- MODULE Values -------------------------------
(***************************************************************************)
(* The value types and their encodings (src/core/collections.cpp,          *)
(* src/core/object.cpp): a small hash, set or sorted set is a listpack, a  *)
(* small set of integers an intset; each becomes a hash table or a         *)
(* skiplist when it outgrows its limits.  A list is a quicklist of         *)
(* listpack nodes.  A string is an integer or bytes.                       *)
(*                                                                         *)
(* The strings in a collection are naturals, ordered as the code orders    *)
(* bytes; a score in a listpack is its text, a string like any other.      *)
(***************************************************************************)
EXTENDS SkipList, Listpack, Codec, Functions

S == INSTANCE SequencesExt

CONSTANTS Strings,         \* the strings used with each type
          Scores, MaxLen, MaxBytes,
          ScoreText(_),    \* d2string: the text of a score, a string
          Size(_),         \* the length of a string
          Ints,            \* the strings that parse as integers
          Wide,            \* those of them that need a wider intset
          Oversized,       \* the strings over *_max_listpack_value
          MaxEntries,      \* hash_, zset_ and set_max_listpack_entries
          MaxInts,         \* set_max_intset_entries
          NodeBytes        \* list_max_listpack_bytes

PutIn(f, k, v) == [x \in DOMAIN f \union {k} |-> IF x = k THEN v ELSE f[x]]
TakeOut(f, k) == [x \in DOMAIN f \ {k} |-> f[x]]

(* A flat run of pairs: its length, its pairs and the map they make.        *)
Pairs(flat) == Len(flat) \div 2
First(flat, i) == flat[2 * i - 1]
Second(flat, i) == flat[2 * i]
PairMap(flat) ==
  [k \in {First(flat, i) : i \in 1 .. Pairs(flat)} |->
     Second(flat, CHOOSE i \in 1 .. Pairs(flat) : First(flat, i) = k)]

(***************************************************************************)
(* HashValue.                                                              *)
(***************************************************************************)
NewHash == [type |-> "hash", enc |-> "listpack", lp |-> NewListpack, table |-> <<>>]

HashSize(h) ==
  IF h.enc = "listpack" THEN numElements(h.lp) \div 2 ELSE Cardinality(DOMAIN h.table)

shouldConvert(h, f, v) ==
  HashSize(h) >= MaxEntries \/ f \in Oversized \/ v \in Oversized

HashToTable(h) ==
  IF h.enc = "hashtable" THEN h
  ELSE [h EXCEPT !.enc = "hashtable", !.table = PairMap(h.lp.elems), !.lp = NewListpack]

(* The field's position; fields are at even places.                         *)
FieldIndexAnywhere(lp, f) == find(lp, f, 0, 1)
FieldIndex(lp, f) == find(lp, f, 0, 2)

(* set.  An update in place does not look at the limits.                    *)
HashSet(h, f, v) ==
  LET i == FieldIndex(h.lp, f)
      big == HashToTable(h)
  IN IF h.enc = "hashtable" THEN [h EXCEPT !.table = PutIn(@, f, v)]
     ELSE IF i # NoIndex THEN [h EXCEPT !.lp = replaceAt(@, i + 1, v)]
     ELSE IF shouldConvert(h, f, v) THEN [big EXCEPT !.table = PutIn(@, f, v)]
     ELSE [h EXCEPT !.lp = append(append(@, f), v)]

HashHas(h, f) ==
  IF h.enc = "hashtable" THEN f \in DOMAIN h.table ELSE FieldIndex(h.lp, f) # NoIndex

(* erase: field and value go together.                                      *)
HashErase(h, f) ==
  IF ~HashHas(h, f) THEN h
  ELSE IF h.enc = "hashtable" THEN [h EXCEPT !.table = TakeOut(@, f)]
  ELSE [h EXCEPT !.lp = eraseRange(@, FieldIndex(h.lp, f), 2)]

(* adoptListpack re-applies the limits, to the longest element too.         *)
HashAdopt(lp) ==
  LET h == [NewHash EXCEPT !.lp = lp] IN
  IF numElements(lp) \div 2 > MaxEntries \/ Range(lp.elems) \cap Oversized # {}
  THEN HashToTable(h) ELSE h

(* Setting the fields of a flat run one by one.                             *)
RECURSIVE HashOf(_, _)
HashOf(h, flat) ==
  IF Len(flat) < 2 THEN h
  ELSE HashOf(HashSet(h, flat[1], flat[2]), SubSeq(flat, 3, Len(flat)))

HashMap(h) == IF h.enc = "listpack" THEN PairMap(h.lp.elems) ELSE h.table

(***************************************************************************)
(* SetValue and IntSet: ints is values_, in ascending order.               *)
(***************************************************************************)
NewSet == [type |-> "set", enc |-> "intset", ints |-> <<>>, width |-> 2,
           lp |-> NewListpack, table |-> {}]

SetSize(s) ==
  CASE s.enc = "intset" -> Len(s.ints)
    [] s.enc = "listpack" -> numElements(s.lp)
    [] s.enc = "hashtable" -> Cardinality(s.table)

SetHas(s, m) ==
  CASE s.enc = "intset" -> m \in Ints /\ m \in Range(s.ints)
    [] s.enc = "listpack" -> find(s.lp, m, 0, 1) # NoIndex
    [] s.enc = "hashtable" -> m \in s.table

widthFor(m) == IF m \in Wide THEN 4 ELSE 2
upgradeTo(s, w) == Max({s.width, w})

(* lower_bound: how many of the values are below m.                         *)
LowerBound(ints, m) == Cardinality({i \in DOMAIN ints : ints[i] < m})

IntSetAdd(s, m) ==
  LET n == LowerBound(s.ints, m) IN
  [s EXCEPT !.width = upgradeTo(s, widthFor(m)),
            !.ints = SubSeq(@, 1, n) \o <<m>> \o SubSeq(@, n + 1, Len(@))]

IntSetRemove(s, m) ==
  LET n == LowerBound(s.ints, m) IN
  [s EXCEPT !.ints = SubSeq(@, 1, n) \o SubSeq(@, n + 2, Len(@))]

SetToListpack(s) ==
  [s EXCEPT !.enc = "listpack", !.ints = <<>>, !.width = 2,
            !.lp = [elems |-> s.ints, count |-> Min({Len(s.ints), MaxInlineCount})]]

SetToTable(s) ==
  [s EXCEPT !.enc = "hashtable", !.ints = <<>>, !.width = 2, !.lp = NewListpack,
            !.table = IF s.enc = "intset" THEN Range(s.ints) ELSE Range(s.lp.elems)]

(* add, of a member that is not there: first what becomes of an intset...   *)
BeforeAdd(s, m) ==
  IF s.enc # "intset" \/ (m \in Ints /\ Len(s.ints) < MaxInts) THEN s
  ELSE IF Len(s.ints) < MaxEntries /\ (m \in Ints \/ m \notin Oversized)
       THEN SetToListpack(s)
       ELSE SetToTable(s)

(* ... then of a listpack.                                                  *)
SetAdd(s, m) ==
  LET t == BeforeAdd(s, m)
      big == IF t.enc = "listpack" /\ (numElements(t.lp) >= MaxEntries \/ m \in Oversized)
             THEN SetToTable(t) ELSE t
  IN IF SetHas(s, m) THEN s
     ELSE CASE big.enc = "intset" -> IntSetAdd(big, m)
            [] big.enc = "listpack" -> [big EXCEPT !.lp = append(@, m)]
            [] big.enc = "hashtable" -> [big EXCEPT !.table = @ \union {m}]

SetErase(s, m) ==
  IF ~SetHas(s, m) THEN s
  ELSE CASE s.enc = "intset" -> IntSetRemove(s, m)
         [] s.enc = "listpack" -> [s EXCEPT !.lp = eraseRange(@, find(@, m, 0, 1), 1)]
         [] s.enc = "hashtable" -> [s EXCEPT !.table = @ \ {m}]

AdoptIntSet(ints, width) ==
  LET s == [NewSet EXCEPT !.ints = ints, !.width = width] IN
  IF Len(ints) <= MaxInts THEN s
  ELSE IF Len(ints) <= MaxEntries THEN SetToListpack(s) ELSE SetToTable(s)

(* Only the number of entries is looked at here.                            *)
SetAdoptListpack(lp) ==
  LET s == [NewSet EXCEPT !.enc = "listpack", !.lp = lp] IN
  IF numElements(lp) > MaxEntries THEN SetToTable(s) ELSE s

SetMembers(s) ==
  CASE s.enc = "intset" -> Range(s.ints)
    [] s.enc = "listpack" -> Range(s.lp.elems)
    [] s.enc = "hashtable" -> s.table

RECURSIVE SetOf(_, _)
SetOf(s, members) ==
  IF members = <<>> THEN s ELSE SetOf(SetAdd(s, Head(members)), Tail(members))

(***************************************************************************)
(* ZSetValue.  Members are at even places of the listpack, the texts of    *)
(* their scores behind them.  h gives the height randomLevel draws for     *)
(* each member.                                                            *)
(***************************************************************************)
NewZSet == [type |-> "zset", enc |-> "listpack", lp |-> NewListpack,
            sl |-> NewSkipList, scores |-> <<>>]

scoreFromString(t) == CHOOSE s \in Scores : ScoreText(s) = t

ZSetSize(z) ==
  IF z.enc = "listpack" THEN numElements(z.lp) \div 2 ELSE Cardinality(DOMAIN z.scores)

ZSetHas(z, m) ==
  IF z.enc = "listpack" THEN FieldIndex(z.lp, m) # NoIndex ELSE m \in DOMAIN z.scores

InSkipList(z, m, score, h) ==
  [z EXCEPT !.sl = InsertNode(@, score, m, h[m]), !.scores = PutIn(@, m, score)]

RECURSIVE AllInSkipList(_, _, _)
AllInSkipList(z, flat, h) ==
  IF Len(flat) < 2 THEN z
  ELSE AllInSkipList(InSkipList(z, flat[1], scoreFromString(flat[2]), h),
                     SubSeq(flat, 3, Len(flat)), h)

ZSetToSkipList(z, h) ==
  AllInSkipList([z EXCEPT !.enc = "skiplist", !.lp = NewListpack], z.lp.elems, h)

(* A place found by the score alone.                                        *)
InsertionPointByScore(lp, m, score) ==
  Min({2 * Pairs(lp.elems)}
      \union {2 * (i - 1) : i \in {j \in 1 .. Pairs(lp.elems) :
                score < scoreFromString(Second(lp.elems, j))}})
(* The place of the first pair that comes after the new one.                *)
InsertionPoint(lp, m, score) ==
  Min({2 * Pairs(lp.elems)}
      \union {2 * (i - 1) : i \in {j \in 1 .. Pairs(lp.elems) :
                isBefore(score, m, scoreFromString(Second(lp.elems, j)), First(lp.elems, j))}})

InListpack(z, m, score) ==
  LET at == InsertionPoint(z.lp, m, score) IN
  [z EXCEPT !.lp = insertAt(insertAt(@, at, m), at + 1, ScoreText(score))]

Rescored(z, m, score, h) ==
  IF z.scores[m] = score THEN z
  ELSE InSkipList([z EXCEPT !.sl = RemoveNode(@, z.scores[m], m)], m, score, h)

ZSetAdd(z, m, score, h) ==
  IF z.enc = "skiplist"
  THEN IF ZSetHas(z, m) THEN Rescored(z, m, score, h) ELSE InSkipList(z, m, score, h)
  ELSE IF ZSetHas(z, m)
  THEN InListpack([z EXCEPT !.lp = eraseRange(@, FieldIndex(@, m), 2)], m, score)
  ELSE IF ZSetSize(z) >= MaxEntries \/ m \in Oversized
  THEN InSkipList(ZSetToSkipList(z, h), m, score, h)
  ELSE InListpack(z, m, score)

ZSetErase(z, m) ==
  IF ~ZSetHas(z, m) THEN z
  ELSE IF z.enc = "listpack" THEN [z EXCEPT !.lp = eraseRange(@, FieldIndex(@, m), 2)]
  ELSE [z EXCEPT !.sl = RemoveNode(@, z.scores[m], m), !.scores = TakeOut(@, m)]

(* all: the members in order; their scores are ZSetScores.                  *)
ZSetAll(z) ==
  IF z.enc = "listpack" THEN [i \in 1 .. Pairs(z.lp.elems) |-> First(z.lp.elems, i)]
  ELSE Chain(z.sl)

ZSetScores(z) ==
  IF z.enc = "skiplist" THEN z.scores
  ELSE LET texts == PairMap(z.lp.elems)
       IN [m \in DOMAIN texts |-> scoreFromString(texts[m])]

ZSetRank(z, m) ==
  IF z.enc = "listpack" THEN FieldIndex(z.lp, m) \div 2 ELSE RankOf(z.sl, z.scores[m], m)

(* rangeByScore: on a skiplist, from the first member in range to the first *)
(* that is not.                                                             *)
ZSetRangeByScore(z, r) ==
  LET inRange(m) == AboveMin(r, ZSetScores(z)[m]) /\ BelowMax(r, ZSetScores(z)[m])
      run == ChainFrom(z.sl, FirstInRange(z.sl, r))
      n == Min({Len(run)} \union {i - 1 : i \in {j \in DOMAIN run : ~inRange(run[j])}})
  IN IF IsEmptyRange(r) THEN <<>>
     ELSE IF z.enc = "skiplist" THEN SubSeq(run, 1, n)
     ELSE SelectSeq(ZSetAll(z), inRange)

ZSetAdopt(lp, h) ==
  LET z == [NewZSet EXCEPT !.lp = lp] IN
  IF numElements(lp) \div 2 > MaxEntries
     \/ \E i \in 1 .. Pairs(lp.elems) : First(lp.elems, i) \in Oversized
  THEN ZSetToSkipList(z, h) ELSE z

RECURSIVE ZSetOf(_, _, _, _)
ZSetOf(z, members, scores, h) ==
  IF members = <<>> THEN z
  ELSE ZSetOf(ZSetAdd(z, Head(members), scores[Head(members)], h), Tail(members), scores, h)

(***************************************************************************)
(* ListValue: a sequence of listpack nodes, never none.                    *)
(***************************************************************************)
NewList == [type |-> "list", enc |-> "listpack", nodes |-> <<NewListpack>>]

Elements(nodes) == S!FlattenSeq([i \in DOMAIN nodes |-> nodes[i].elems])
ListSize(l) == MapThenSumSet(LAMBDA i : numElements(l.nodes[i]), DOMAIN l.nodes)

maybeConvert(nodes) ==
  [type |-> "list", nodes |-> nodes,
   enc |-> IF Len(nodes) = 1 /\ totalBytes(nodes[1]) <= NodeBytes
           THEN "listpack" ELSE "quicklist"]

(* An over-estimate, by SIZE_ESTIMATE_OVERHEAD.                             *)
wouldOverflowNode(lp, v) ==
  numElements(lp) > 0 /\ totalBytes(lp) + Size(v) + 11 > NodeBytes

AddedBack(nodes, v) ==
  LET n == Len(nodes) IN
  IF wouldOverflowNode(nodes[n], v) THEN Append(nodes, append(NewListpack, v))
  ELSE [nodes EXCEPT ![n] = append(@, v)]

PushBack(l, v) == maybeConvert(AddedBack(l.nodes, v))

PushFront(l, v) ==
  maybeConvert(IF wouldOverflowNode(l.nodes[1], v)
               THEN <<append(NewListpack, v)>> \o l.nodes
               ELSE [l.nodes EXCEPT ![1] = insertAt(@, 0, v)])

(* A node that a pop empties goes, unless it is the only one.               *)
DroppedNever(nodes, i) == nodes
Dropped(nodes, i) ==
  IF numElements(nodes[i]) = 0 /\ Len(nodes) > 1 THEN S!RemoveAt(nodes, i) ELSE nodes

Occupied(l) == {i \in DOMAIN l.nodes : numElements(l.nodes[i]) > 0}

PopFront(l) ==
  LET i == Min(Occupied(l)) IN
  maybeConvert(Dropped([l.nodes EXCEPT ![i] = eraseRange(@, 0, 1)], i))

PopBack(l) ==
  LET i == Max(Occupied(l)) IN
  maybeConvert(Dropped([l.nodes EXCEPT ![i] = eraseRange(@, numElements(@) - 1, 1)], i))

resolveIndex(l, i) ==
  LET k == IF i < 0 THEN i + ListSize(l) ELSE i
  IN IF k < 0 \/ k >= ListSize(l) THEN NoIndex ELSE k

(* at and set walk the nodes to the one that holds position k: the node,    *)
(* and the position in it.                                                  *)
RECURSIVE Walk(_, _, _)
Walk(nodes, i, k) ==
  IF k < numElements(nodes[i]) THEN [node |-> i, pos |-> k]
  ELSE Walk(nodes, i + 1, k - numElements(nodes[i]))

ListAt(l, i) ==
  LET w == Walk(l.nodes, 1, resolveIndex(l, i)) IN l.nodes[w.node].elems[w.pos + 1]

(* set leaves the encoding as it is.                                        *)
ListSet(l, i, v) ==
  LET w == Walk(l.nodes, 1, resolveIndex(l, i))
  IN [l EXCEPT !.nodes[w.node] = replaceAt(@, w.pos, v)]

RECURSIVE Repacked(_, _)
Repacked(nodes, items) ==
  IF items = <<>> THEN nodes ELSE Repacked(AddedBack(nodes, Head(items)), Tail(items))

rebuildFrom(items) == maybeConvert(Repacked(<<NewListpack>>, items))

ListRange(l, from, to) ==
  LET n == ListSize(l)
      start == Max({IF from < 0 THEN from + n ELSE from, 0})
      stop == Min({IF to < 0 THEN to + n ELSE to, n - 1})
  IN IF n = 0 \/ start > stop \/ start >= n THEN <<>>
     ELSE SubSeq(Elements(l.nodes), start + 1, stop + 1)

RECURSIVE DropFirst(_, _, _)
DropFirst(items, v, n) ==
  IF n = 0 \/ items = <<>> THEN items
  ELSE IF Head(items) = v THEN DropFirst(Tail(items), v, n - 1)
  ELSE <<Head(items)>> \o DropFirst(Tail(items), v, n)

(* removeValue: a negative count from the tail, zero for all.               *)
Surviving(items, v, count) ==
  IF count = 0 THEN DropFirst(items, v, Len(items))
  ELSE IF count > 0 THEN DropFirst(items, v, count)
  ELSE S!Reverse(DropFirst(S!Reverse(items), v, -count))

RemoveValue(l, v, count) ==
  LET items == Elements(l.nodes)
      left == Surviving(items, v, count)
  IN IF Len(left) = Len(items) THEN l ELSE rebuildFrom(left)

IndexOf(l, v) ==
  LET hits == {i \in DOMAIN l.nodes : find(l.nodes[i], v, 0, 1) # NoIndex}
      i == Min(hits)
  IN IF hits = {} THEN NoIndex
     ELSE MapThenSumSet(LAMBDA j : numElements(l.nodes[j]), 1 .. i - 1)
          + find(l.nodes[i], v, 0, 1)

(***************************************************************************)
(* A string: an integer, or bytes.                                         *)
(***************************************************************************)
makeString(s) ==
  IF IsInt(s) THEN [type |-> "string", enc |-> "int", int |-> ToInt(s), bytes |-> <<>>]
  ELSE [type |-> "string", enc |-> IF Len(s) <= 44 THEN "embstr" ELSE "raw",
        int |-> Word(0), bytes |-> s]

stringValue(v) == IF v.enc = "int" THEN ToText(v.int) ELSE v.bytes

makeMutable(v) == [v EXCEPT !.enc = "raw", !.int = Word(0), !.bytes = stringValue(v)]

appendString(v, suffix) == [makeMutable(v) EXCEPT !.bytes = @ \o suffix]

RECURSIVE DigitCount(_)
DigitCount(w) ==
  LET rest == DividedBy[w, 10].quotient IN IF rest = Word(0) THEN 1 ELSE 1 + DigitCount(rest)

stringLength(v) ==
  IF v.enc # "int" THEN Len(v.bytes)
  ELSE (IF Negative(v.int) THEN 1 ELSE 0) + DigitCount(Magnitude(v.int))

(***************************************************************************)
(* What a value means.                                                     *)
(***************************************************************************)
Contents(v) ==
  CASE v.type = "hash" -> HashMap(v)
    [] v.type = "set" -> SetMembers(v)
    [] v.type = "zset" -> ZSetScores(v)
    [] v.type = "list" -> Elements(v.nodes)
    [] v.type = "string" -> stringValue(v)

(* The commands delete a collection they have emptied: it is not copied and *)
(* not saved.                                                               *)
IsEmpty(v) ==
  CASE v.type = "hash" -> HashSize(v) = 0
    [] v.type = "set" -> SetSize(v) = 0
    [] v.type = "zset" -> ZSetSize(v) = 0
    [] v.type = "list" -> ListSize(v) = 0
    [] v.type = "string" -> FALSE

Heights == [Strings["zset"] -> 1 .. MaxLevel]

(* An insertion into a skiplist draws one height, a conversion many.        *)
Draws(z) ==
  IF z.enc = "listpack" THEN Heights
  ELSE {[m \in Strings["zset"] |-> height] : height \in 1 .. MaxLevel}

(* A hash table yields its entries in the order of their hashes: any.       *)
Orders(set) == Bijection(1 .. Cardinality(set), set)
Flat(map, order) ==
  [i \in 1 .. 2 * Len(order) |->
     IF i % 2 = 1 THEN order[(i + 1) \div 2] ELSE map[order[i \div 2]]]

Flattenings(h) ==
  IF h.enc = "listpack" THEN {h.lp.elems}
  ELSE {Flat(h.table, o) : o \in Orders(DOMAIN h.table)}
Listings(s) ==
  CASE s.enc = "intset" -> {s.ints}
    [] s.enc = "listpack" -> {s.lp.elems}
    [] s.enc = "hashtable" -> Orders(s.table)

(* The copy constructors rebuild from the contents; a list and a string are *)
(* copied as they are.                                                      *)
Copies(v) ==
  CASE v.type = "hash" -> {HashOf(NewHash, flat) : flat \in Flattenings(v)}
    [] v.type = "set" -> {SetOf(NewSet, l) : l \in Listings(v)}
    [] v.type = "zset" -> {ZSetOf(NewZSet, ZSetAll(v), ZSetScores(v), h) : h \in Heights}
    [] v.type \in {"list", "string"} -> {v}

(* What loadObjectBody makes of what saveObjectBody wrote.  A small         *)
(* encoding travels as its bytes and is adopted, a large one element by     *)
(* element, a sorted set from the highest member down.                      *)
Reloads(v) ==
  CASE v.type = "hash" /\ v.enc = "listpack" -> {HashAdopt(v.lp)}
    [] v.type = "hash" /\ v.enc = "hashtable" -> Copies(v)
    [] v.type = "set" /\ v.enc = "intset" -> {AdoptIntSet(v.ints, v.width)}
    [] v.type = "set" /\ v.enc = "listpack" -> {SetAdoptListpack(v.lp)}
    [] v.type = "set" /\ v.enc = "hashtable" -> Copies(v)
    [] v.type = "zset" /\ v.enc = "listpack" -> {ZSetAdopt(v.lp, h) : h \in Heights}
    [] v.type = "zset" /\ v.enc = "skiplist" ->
         {ZSetOf(NewZSet, S!Reverse(ZSetAll(v)), ZSetScores(v), h) : h \in Heights}
    [] v.type = "list" -> {maybeConvert(v.nodes)}
    [] v.type = "string" -> {makeString(readString(saveString(stringValue(v))).text)}

(* Listpack::fromBytes counts the entries, and refuses a header that says   *)
(* otherwise; IntSet::fromBytes refuses values that do not ascend.          *)
CountsItsEntries(lp) == lp.count < MaxInlineCount => lp.count = Len(lp.elems)
Ascends(ints) == \A i \in 2 .. Len(ints) : ints[i - 1] < ints[i]

Listpacks(v) ==
  IF v.type = "list" THEN Range(v.nodes) ELSE IF v.enc = "listpack" THEN {v.lp} ELSE {}

(* The loader also refuses an empty object, an empty node and half a pair.  *)
Loadable(v) ==
  /\ ~IsEmpty(v)
  /\ \A lp \in Listpacks(v) :
       /\ CountsItsEntries(lp) /\ numElements(lp) > 0
       /\ v.type \in {"hash", "zset"} => numElements(lp) % 2 = 0
  /\ v.type = "set" /\ v.enc = "intset" => Ascends(v.ints)

=============================================================================

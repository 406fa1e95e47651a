---------------------------- MODULE Collections ----------------------------
(***************************************************************************)
(* The life of one value: the operations of its type, copies (RENAME and   *)
(* COPY make them) and a save followed by a load (RDB object bodies,       *)
(* src/persist/rdb.cpp).                                                   *)
(***************************************************************************)
EXTENDS Values, Resp

CONSTANTS BackLengths,    \* sizes of a listpack entry whose backlen is checked
          FileLengths,    \* words whose length encoding in a file is checked
          Window          \* how far from an argument's ends a stream is cut

VARIABLES value,   \* the collection
          reply    \* what the last operation answered; -1 for none

vars == <<value, reply>>

YesNo(b) == IF b THEN 1 ELSE 0

(***************************************************************************)
(* The operations of one value.                                            *)
(***************************************************************************)
Init ==
  /\ \/ value \in {NewHash, NewSet, NewZSet, NewList}
     \/ \E s \in Strings["string"] : value = makeString(s)
  /\ reply = -1

Becomes(v, r) == value' = v /\ reply' = r

HashOp ==
  /\ value.type = "hash"
  /\ \E f \in Strings["hash"] :
       \/ \E v \in Strings["hash"] : Becomes(HashSet(value, f, v), YesNo(~HashHas(value, f)))
       \/ Becomes(HashErase(value, f), YesNo(HashHas(value, f)))

SetOp ==
  /\ value.type = "set"
  /\ \E m \in Strings["set"] :
       \/ Becomes(SetAdd(value, m), YesNo(~SetHas(value, m)))
       \/ Becomes(SetErase(value, m), YesNo(SetHas(value, m)))

ZSetOp ==
  /\ value.type = "zset"
  /\ \E m \in Strings["zset"] :
       \/ \E s \in Scores, h \in Draws(value) :
            Becomes(ZSetAdd(value, m, s, h), YesNo(~ZSetHas(value, m)))
       \/ Becomes(ZSetErase(value, m), YesNo(ZSetHas(value, m)))

Push ==
  /\ value.type = "list"
  /\ ListSize(value) < MaxLen
  /\ \E v \in Strings["list"] :
       Becomes(PushBack(value, v), -1) \/ Becomes(PushFront(value, v), -1)

Pop ==
  /\ value.type = "list"
  /\ IF Occupied(value) = {} THEN Becomes(value, -1)
     ELSE \/ Becomes(PopFront(value), Head(Elements(value.nodes)))
          \/ Becomes(PopBack(value), S!Last(Elements(value.nodes)))

ListEdit ==
  /\ value.type = "list"
  /\ LET n == ListSize(value) IN
     \/ \E i \in -n - 1 .. n, v \in Strings["list"] :
          IF resolveIndex(value, i) = NoIndex THEN Becomes(value, 0)
          ELSE Becomes(ListSet(value, i, v), 1)
     \/ \E v \in Strings["list"], c \in -n .. n :
          Becomes(RemoveValue(value, v, c),
                  Len(Elements(value.nodes)) - Len(Surviving(Elements(value.nodes), v, c)))
     \/ \E from, to \in -n - 1 .. n : Becomes(rebuildFrom(ListRange(value, from, to)), -1)

Suffixes == {b \in Strings["string"] : Len(b) <= MaxBytes}

(* APPEND; SET makes a new value.                                           *)
StringOp ==
  /\ value.type = "string"
  /\ \E b \in Suffixes :
       LET v == appendString(value, b) IN
       stringLength(v) <= MaxBytes /\ Becomes(v, stringLength(v))

Copy == ~IsEmpty(value) /\ value' \in Copies(value) /\ UNCHANGED reply
Reload == Loadable(value) /\ value' \in Reloads(value) /\ UNCHANGED reply

Next == HashOp \/ SetOp \/ ZSetOp \/ Push \/ Pop \/ ListEdit \/ StringOp \/ Copy \/ Reload

Spec == Init /\ [][Next]_vars

(***************************************************************************)
(* Properties.                                                             *)
(***************************************************************************)
Abstract == INSTANCE Collection WITH type <- value.type, contents <- Contents(value)

(* In whatever encoding, through every conversion, copy and reload, each    *)
(* operation changes the value and answers as the plain map, set, sequence  *)
(* or string would.  (HashValue, SetValue, ZSetValue, ListValue, Value)     *)
ImplementsCollection == Abstract!Spec

(* The members that come before m in the order of scores, then bytes.       *)
Before(scores, m) == {x \in DOMAIN scores : isBefore(scores[x], x, scores[m], m)}

ScoreRanges == [min : Scores, max : Scores, minEx : BOOLEAN, maxEx : BOOLEAN]
InRange(scores, r) == {m \in DOMAIN scores : AboveMin(r, scores[m]) /\ BelowMax(r, scores[m])}

ZSetQueriesAgree(z) ==
  LET scores == ZSetScores(z)
      all == ZSetAll(z)
      n == Cardinality(DOMAIN scores)
  IN /\ ZSetSize(z) = n /\ Len(all) = n
     /\ \A m \in DOMAIN scores :
          LET rank == Cardinality(Before(scores, m)) IN
          /\ ZSetRank(z, m) = rank
          /\ all[rank + 1] = m
          /\ z.enc = "skiplist" => NodeByRank(z.sl, rank) = m
     /\ \A r \in ScoreRanges :
          /\ Range(ZSetRangeByScore(z, r)) = InRange(scores, r)
          /\ Len(ZSetRangeByScore(z, r)) = Cardinality(InRange(scores, r))
          /\ z.enc = "skiplist" => CountInRange(z.sl, r) = Cardinality(InRange(scores, r))

ListQueriesAgree(l) ==
  LET items == Elements(l.nodes)
      n == Len(items)
  IN /\ ListSize(l) = n
     /\ \A i \in 1 .. n : ListAt(l, i - 1) = items[i] /\ ListAt(l, i - 1 - n) = items[i]
     /\ \A v \in Strings["list"] :
          IndexOf(l, v) = IF v \in Range(items)
                          THEN Min({i \in 1 .. n : items[i] = v}) - 1 ELSE NoIndex

(* Every query answers from the contents, by whichever way its encoding     *)
(* takes: ranks and counts by a skiplist's spans or a listpack's positions, *)
(* a list's positions through its nodes, sizes from a saturating header.    *)
QueriesAgree ==
  CASE value.type = "hash" -> HashSize(value) = Cardinality(DOMAIN HashMap(value))
    [] value.type = "set" -> SetSize(value) = Cardinality(SetMembers(value))
    [] value.type = "zset" -> ZSetQueriesAgree(value)
    [] value.type = "list" -> ListQueriesAgree(value)
    [] value.type = "string" -> stringLength(value) = Len(stringValue(value))

(* A skiplist and the dictionary beside it hold the same members with the   *)
(* same scores; every level skips exactly as many nodes as its span says,   *)
(* the last pointer of a level those that are left; the backward chain and  *)
(* the tail mirror the forward one.  (SkipList::insert, remove)             *)
SkipListSound ==
  value.type = "zset" /\ value.enc = "skiplist" =>
    LET sl == value.sl
        chain == Chain(sl)
        at(x) == IF x = Header THEN 0 ELSE CHOOSE i \in DOMAIN chain : chain[i] = x
    IN /\ SkipMembers(sl) = DOMAIN value.scores
       /\ \A m \in SkipMembers(sl) : sl.node[m].score = value.scores[m]
       /\ sl.length = Len(chain) /\ Range(chain) = SkipMembers(sl)
       /\ sl.tail = IF chain = <<>> THEN Null ELSE chain[Len(chain)]
       /\ \A i \in DOMAIN chain : sl.node[chain[i]].back = IF i = 1 THEN Null ELSE chain[i - 1]
       /\ \A x \in DOMAIN sl.node : \A i \in DOMAIN sl.node[x].next :
            LET l == sl.node[x].next[i] IN
            i <= sl.level =>
              l.span = (IF l.fwd = Null THEN sl.length ELSE at(l.fwd)) - at(x)

(* A compact encoding is only used within its limits: few entries, no long  *)
(* field or member, an intset of integers its width can hold, one node.  A  *)
(* hash's values are not limited: an update in place may store a long one.  *)
CompactIsSmall ==
  CASE value.type = "hash" ->
         value.enc = "listpack" =>
           /\ Cardinality(DOMAIN HashMap(value)) <= MaxEntries
           /\ DOMAIN HashMap(value) \cap Oversized = {}
    [] value.type = "set" ->
         /\ value.enc = "intset" =>
              /\ Len(value.ints) <= MaxInts
              /\ \A i \in DOMAIN value.ints :
                   value.ints[i] \in Ints /\ widthFor(value.ints[i]) <= value.width
         /\ value.enc = "listpack" =>
              Cardinality(SetMembers(value)) <= MaxEntries /\ SetMembers(value) \cap Oversized = {}
    [] value.type = "zset" ->
         value.enc = "listpack" =>
           /\ Cardinality(DOMAIN ZSetScores(value)) <= MaxEntries
           /\ DOMAIN ZSetScores(value) \cap Oversized = {}
    [] value.type = "list" -> value.enc = "listpack" => Len(value.nodes) = 1
    [] value.type = "string" -> value.enc # "raw" => Len(stringValue(value)) <= 44

(* Whatever the server may save, its own loader accepts: no operation       *)
(* leaves an empty node in a list that has elements, half a pair, a header  *)
(* that miscounts or integers out of order.  (popFront, popBack,            *)
(* eraseRange, IntSet::add against loadObjectBody, fromBytes)               *)
EveryValueLoads == ~IsEmpty(value) => Loadable(value)

(* The places to cut n bytes that are near an end of one of the parts.      *)
Cuts(n, part) == {c \in 0 .. n - 1 : c % (part + 1) <= Window \/ n - c <= Window}

EntryDecodes(s) ==
  LET entry == buildEntry(s)
      payload == decodeBacklenBackwards(entry)
  IN /\ decodeAt(entry \o <<255>>) = [text |-> s, size |-> Len(entry)]
     /\ payload + Len(encodeBacklen(payload)) = Len(entry)
     /\ \A cut \in Cuts(Len(entry), Len(s)) : decodeAt(SubSeq(entry, 1, cut)) = NoElement

FileDecodes(s) ==
  LET saved == saveString(s)
  IN /\ readString(saved \o <<255>>) = Read(s, <<255>>)
     /\ \A cut \in Cuts(Len(saved), Len(s)) : readString(SubSeq(saved, 1, cut)) = NoRead

LengthsDecode ==
  /\ \A n \in BackLengths : decodeBacklenBackwards(<<255>> \o encodeBacklen(n)) = n
  /\ \A w \in FileLengths :
       LET saved == saveLen(w) IN
       /\ readLen(saved \o <<255>>) = Length(FALSE, w, <<255>>)
       /\ \A cut \in 0 .. Len(saved) - 1 : readLen(SubSeq(saved, 1, cut)) = NoLen

(* A string is read back from its bytes in a listpack, where the length     *)
(* behind it leads a backward walk to its first byte, and from its bytes in *)
(* a file; either reader stops where it should, and refuses bytes that were *)
(* cut short.  Lengths do so at the ends of every width.  (buildEntry,      *)
(* decodeAt, encodeBacklen, saveString, readString, saveLen, readLen)       *)
BytesDecode ==
  value.type = "string" =>
    EntryDecodes(stringValue(value)) /\ FileDecodes(stringValue(value)) /\ LengthsDecode

(* Commands that carry any string, sent one behind the other, are dispatched *)
(* as they were sent wherever the stream is cut between two reads: at any    *)
(* byte around a short string, and near the ends of a long one.              *)
(* (encodeCommand, RequestParser::parse, processInputBuffer)                 *)
RequestsSurviveCuts ==
  value.type = "string" =>
    LET s == stringValue(value)
        sent == <<<<s, s>>, <<s>>>>
        wire == encodeCommand(sent[1]) \o encodeCommand(sent[2])
    IN \A cut \in Cuts(Len(wire), Len(s)) \union {Len(wire)} :
         Dispatched(SubSeq(wire, 1, cut), From(wire, cut + 1)) = sent

=============================================================================

------------------------- MODULE CollectionCommands -------------------------
(***************************************************************************)
(* The handlers of list_commands.cpp, set_commands.cpp and                 *)
(* hash_commands.cpp over the helpers of type_helpers.cpp, as effects.     *)
(***************************************************************************)
EXTENDS KeyCommands, Functions

(* lookupTyped's and lookupTypedRead's type error.                          *)
TypeError(s, type) == Exists(s) /\ Found(s).val.type # type

(* A command that only looks one key up: LLEN, HGET, ZSCORE and the like.   *)
lookupTypedRead(db, a) == Reads({<<db, a.key>>})

(* lookupOrCreate: the collection found or a new one.                       *)
ListAt(s) == IF Exists(s) THEN Found(s).val.list ELSE << >>
SetAt(s) == IF Exists(s) THEN Found(s).val.set ELSE {}
HashAt(s) == IF Exists(s) THEN Found(s).val.hash ELSE [f \in {} |-> {}]

(* The order in which a push at the head leaves its elements.               *)
Reversed(l) == [i \in 1 .. Len(l) |-> l[Len(l) - i + 1]]

(* The collection was changed in place into v.                              *)
Updated(s, v) == OverwriteValue(Found(s), v)

(* deleteIfEmpty: what is left of the slot.                                 *)
UpdatedOrGone(s, v) == IF IsEmpty(v) THEN Gone ELSE Updated(s, v)

(* Mutant: the emptied collection stays.                                    *)
deleteIfEmptyNot(s, v, changed) ==
  EffectSaying({s}, One(s, Updated(s, v)), IF changed THEN {s} ELSE {})

(* Mutant: the deletion is not announced.                                   *)
deleteIfEmptyQuietly(s, v, changed) ==
  EffectSaying({s}, One(s, UpdatedOrGone(s, v)), IF changed /\ ~IsEmpty(v) THEN {s} ELSE {})

(* The handlers' usual end: an event if anything changed, and the deletion  *)
(* of an emptied collection, which is an event too.                         *)
deleteIfEmpty(s, v, changed) ==
  EffectSaying({s}, One(s, UpdatedOrGone(s, v)), IF changed \/ IsEmpty(v) THEN {s} ELSE {})

(* The replacement of a STORE destination: dst loses its deadline with its  *)
(* old value, and an empty result erases it, which is announced only if     *)
(* dict_ still held something.                                              *)
StoreResult(looked, dst, v) ==
  IF ~IsEmpty(v)
  THEN Effect(looked, One(dst, SetKey(v)))
  ELSE EffectSaying(looked, One(dst, Gone),
                    IF (IF dst \in looked THEN Found(dst) ELSE store[dst]).val # NoValue
                    THEN {dst} ELSE {})

(***************************************************************************)
(* Lists.                                                                  *)
(***************************************************************************)

(* LPUSH, RPUSH and, with a.x, LPUSHX, RPUSHX.  Elements pushed at the      *)
(* front end up in reverse.                                                 *)
pushGeneric(db, a) ==
  LET s == <<db, a.key>>
      new == IF a.front THEN Reversed(a.elems) \o ListAt(s) ELSE ListAt(s) \o a.elems
  IN  IF TypeError(s, "list") \/ (a.x /\ ~Exists(s))
      THEN Reads({s})
      ELSE ReadsThenWrites(s, Updated(s, MakeList(new)))

(* LPOP, RPOP with a.count.                                                 *)
popGeneric(db, a) ==
  LET s == <<db, a.key>>
      l == ListAt(s)
      n == IF a.count < Len(l) THEN a.count ELSE Len(l)
      left == IF a.front THEN SubSeq(l, n + 1, Len(l)) ELSE SubSeq(l, 1, Len(l) - n)
  IN  IF TypeError(s, "list") \/ ~Exists(s)
      THEN Reads({s})
      ELSE deleteIfEmpty(s, MakeList(left), n > 0)

(* Mutant: returns once the element is taken.                               *)
moveGenericPopsOnly(db, a) ==
  popGeneric(db, [op |-> "pop", key |-> a.key, count |-> 1, front |-> a.fromFront])

(* LMOVE and RPOPLPUSH, onto the same list too.                             *)
moveGeneric(db, a) ==
  LET src == <<db, a.key>>
      dst == <<db, a.dst>>
      l == ListAt(src)
      item == IF a.fromFront THEN Head(l) ELSE l[Len(l)]
      rest == IF a.fromFront THEN Tail(l) ELSE SubSeq(l, 1, Len(l) - 1)
      onto == IF src = dst THEN rest ELSE ListAt(dst)
      moved == IF a.toFront THEN <<item>> \o onto ELSE Append(onto, item)
  IN  CASE TypeError(src, "list") \/ ~Exists(src) -> Reads({src})
        [] ~TypeError(src, "list") /\ Exists(src) /\ TypeError(dst, "list") -> Reads({src, dst})
        [] OTHER -> Effect({src, dst},
                           [s \in {src, dst} |-> IF s = dst THEN Updated(dst, MakeList(moved))
                                                 ELSE UpdatedOrGone(src, MakeList(rest))])

(* resolveIndex: counting from 0, a negative index from the end.            *)
resolveIndex(i, n) == IF i < 0 THEN i + n ELSE i

lset(db, a) ==
  LET s == <<db, a.key>>
      i == resolveIndex(a.index, Len(ListAt(s)))
  IN  IF TypeError(s, "list") \/ ~Exists(s) \/ i < 0 \/ i >= Len(ListAt(s))
      THEN Reads({s})
      ELSE ReadsThenWrites(s, Updated(s, MakeList([ListAt(s) EXCEPT ![i + 1] = a.elem])))

(* The elements of l at the positions in `keep`, in their order.            *)
Nth(keep, i) ==
  LET isNth(p) == Cardinality({q \in keep : q <= p}) = i IN
  CHOOSE p \in keep : (\E q \in keep : isNth(q)) => isNth(p)
KeepOnly(l, keep) == [i \in 1 .. Cardinality(keep) |-> l[Nth(keep, i)]]

(* removeValue: all occurrences, or the first or the last |count|.          *)
Removed(l, elem, count) ==
  LET at == {i \in DOMAIN l : l[i] = elem} IN
  {i \in at : \/ count = 0
              \/ count > 0 /\ Cardinality({j \in at : j <= i}) <= count
              \/ count < 0 /\ Cardinality({j \in at : j >= i}) <= -count}

lrem(db, a) ==
  LET s == <<db, a.key>>
      l == ListAt(s)
      gone == Removed(l, a.elem, a.count)
  IN  IF TypeError(s, "list") \/ ~Exists(s)
      THEN Reads({s})
      ELSE deleteIfEmpty(s, MakeList(KeepOnly(l, DOMAIN l \ gone)), gone # {})

(* resolveIndexRange, and ListValue::range: what start and stop select of n *)
(* positions, as an interval that may be empty.                             *)
FirstOf(start, n) == LET i == resolveIndex(start, n) IN IF i < 0 THEN 0 ELSE i
LastOf(stop, n) == LET i == resolveIndex(stop, n) IN IF i >= n THEN n - 1 ELSE i

(* LTRIM announces itself whether or not it trims anything.                 *)
ltrim(db, a) ==
  LET s == <<db, a.key>>
      l == ListAt(s)
      kept == SubSeq(l, FirstOf(a.start, Len(l)) + 1, LastOf(a.stop, Len(l)) + 1)
  IN  IF TypeError(s, "list") \/ ~Exists(s)
      THEN Reads({s})
      ELSE deleteIfEmpty(s, MakeList(kept), TRUE)

(***************************************************************************)
(* Sets.                                                                   *)
(***************************************************************************)

sadd(db, a) ==
  LET s == <<db, a.key>> IN
  IF TypeError(s, "set")
  THEN Reads({s})
  ELSE EffectSaying({s}, One(s, Updated(s, MakeSet(SetAt(s) \cup a.members))),
                    IF a.members \subseteq SetAt(s) THEN {} ELSE {s})

(* SREM, and SPOP: a.members are then the ones it draws.                    *)
srem(db, a) ==
  LET s == <<db, a.key>> IN
  IF TypeError(s, "set") \/ ~Exists(s)
  THEN Reads({s})
  ELSE deleteIfEmpty(s, MakeSet(SetAt(s) \ a.members), SetAt(s) \cap a.members # {})

(* Mutant: returns once the member is taken.                                *)
smoveTakesOnly(db, a) == srem(db, [op |-> "srem", key |-> a.key, members |-> {a.member}])

(* SMOVE takes the member out before it puts it in: a set that was only     *)
(* this member is deleted on the way, its deadline with it, even when it is *)
(* the destination as well.                                                 *)
smove(db, a) ==
  LET src == <<db, a.key>>
      dst == <<db, a.dst>>
      rest == SetAt(src) \ {a.member}
      left == UpdatedOrGone(src, MakeSet(rest))
      onto == IF src = dst THEN rest ELSE SetAt(dst)
      base == IF src = dst THEN left ELSE Found(dst)
  IN  CASE TypeError(src, "set") -> Reads({src})
        [] ~TypeError(src, "set") /\ (TypeError(dst, "set") \/ a.member \notin SetAt(src)) ->
             Reads({src, dst})
        [] OTHER ->
             Effect({src, dst},
                    [s \in {src, dst} |->
                       IF s = dst THEN OverwriteValue(base, MakeSet(onto \cup {a.member})) ELSE left])

(* gatherSets looks the keys up in order and stops at the first that holds  *)
(* something else; a missing key is an empty set.  ends holds the positions *)
(* that end the search.                                                     *)
Gathered(slots, ends) ==
  {slots[i] : i \in {j \in DOMAIN slots : \A k \in 1 .. j - 1 : k \notin ends}}

NotSet(s) == TypeError(s, "set")

applySetOp(kind, slots) ==
  CASE kind = "inter" -> {m \in Elements : \A i \in DOMAIN slots : m \in SetAt(slots[i])}
    [] kind = "union" -> {m \in Elements : \E i \in DOMAIN slots : m \in SetAt(slots[i])}
    [] kind = "diff"  -> {m \in SetAt(slots[1]) : \A i \in DOMAIN slots \ {1} : m \notin SetAt(slots[i])}

(* SINTER, SUNION, SDIFF, SINTERCARD and, with a.store, the STORE variants. *)
setOpCommand(db, a) ==
  LET slots == [i \in DOMAIN a.keys |-> <<db, a.keys[i]>>]
      looked == Gathered(slots, {i \in DOMAIN slots : NotSet(slots[i])})
  IN  IF (\E i \in DOMAIN slots : NotSet(slots[i])) \/ ~a.store
      THEN Reads(looked)
      ELSE StoreResult(looked, <<db, a.dst>>, MakeSet(applySetOp(a.kind, slots)))

(***************************************************************************)
(* Hashes.                                                                 *)
(***************************************************************************)

Without(f, S) == Restrict(f, DOMAIN f \ S)

(* f with the entries of g, which replace its own.                          *)
With(f, g) == [x \in DOMAIN f \cup DOMAIN g |-> IF x \in DOMAIN g THEN g[x] ELSE f[x]]

(* HSET and HMSET announce themselves also when every value is the old one. *)
hset(db, a) ==
  LET s == <<db, a.key>> IN
  IF TypeError(s, "hash")
  THEN Reads({s})
  ELSE ReadsThenWrites(s, Updated(s, MakeHash(With(HashAt(s), a.fields))))

hsetnx(db, a) ==
  LET s == <<db, a.key>>
      h == HashAt(s)
  IN  CASE TypeError(s, "hash") -> Reads({s})
        [] ~TypeError(s, "hash") /\ a.field \in DOMAIN h -> deleteIfEmpty(s, MakeHash(h), FALSE)
        [] OTHER -> ReadsThenWrites(s, Updated(s, MakeHash(With(h, One(a.field, a.data)))))

hdel(db, a) ==
  LET s == <<db, a.key>>
      h == HashAt(s)
  IN  IF TypeError(s, "hash") \/ ~Exists(s)
      THEN Reads({s})
      ELSE deleteIfEmpty(s, MakeHash(Without(h, a.members)), DOMAIN h \cap a.members # {})

(* HINCRBY and HINCRBYFLOAT: a.ok says that the old value was a number and  *)
(* the sum representable.  The refusal comes after the hash was created     *)
(* (an infinite increment of a missing field), so it has to be undone.      *)
hincrby(db, a) ==
  LET s == <<db, a.key>>
      h == HashAt(s)
  IN  CASE TypeError(s, "hash") -> Reads({s})
        [] ~TypeError(s, "hash") /\ ~a.ok -> deleteIfEmpty(s, MakeHash(h), FALSE)
        [] OTHER -> ReadsThenWrites(s, Updated(s, MakeHash(With(h, One(a.field, a.data)))))

CollectionOps == {"typedread", "push", "pop", "lmove", "lset", "lrem", "ltrim", "sadd", "srem",
                  "smove", "setop", "hset", "hsetnx", "hdel", "hincrby"}

CollectionArgs ==
  [op : {"typedread"}, key : Names]
  \cup [op : {"push"}, key : Names, elems : Seq(Elements) \ {<< >>}, front : BOOLEAN, x : BOOLEAN]
  \cup [op : {"pop"}, key : Names, count : Nat, front : BOOLEAN]
  \cup [op : {"lmove"}, key : Names, dst : Names, fromFront : BOOLEAN, toFront : BOOLEAN]
  \cup [op : {"lset"}, key : Names, index : Int, elem : Elements]
  \cup [op : {"lrem"}, key : Names, count : Int, elem : Elements]
  \cup [op : {"ltrim"}, key : Names, start : Int, stop : Int]
  \cup [op : {"sadd"}, key : Names, members : (SUBSET Elements) \ {{}}]
  \cup [op : {"srem", "hdel"}, key : Names, members : SUBSET Elements]
  \cup [op : {"smove"}, key : Names, dst : Names, member : Elements]
  \cup [op : {"setop"}, kind : {"inter", "union", "diff"}, keys : Seq(Names) \ {<< >>},
        dst : Names, store : BOOLEAN]
  \cup [op : {"hset"}, key : Names, fields : {f \in Maps(Elements, Data) : DOMAIN f # {}}]
  \cup [op : {"hsetnx"}, key : Names, field : Elements, data : Data]
  \cup [op : {"hincrby"}, key : Names, field : Elements, data : Data, ok : BOOLEAN]

CollectionEffect(db, a) ==
  CASE a.op = "typedread" -> lookupTypedRead(db, a)
    [] a.op = "push"    -> pushGeneric(db, a)
    [] a.op = "pop"     -> popGeneric(db, a)
    [] a.op = "lmove"   -> moveGeneric(db, a)
    [] a.op = "lset"    -> lset(db, a)
    [] a.op = "lrem"    -> lrem(db, a)
    [] a.op = "ltrim"   -> ltrim(db, a)
    [] a.op = "sadd"    -> sadd(db, a)
    [] a.op = "srem"    -> srem(db, a)
    [] a.op = "smove"   -> smove(db, a)
    [] a.op = "setop"   -> setOpCommand(db, a)
    [] a.op = "hset"    -> hset(db, a)
    [] a.op = "hsetnx"  -> hsetnx(db, a)
    [] a.op = "hdel"    -> hdel(db, a)
    [] a.op = "hincrby" -> hincrby(db, a)

=============================================================================

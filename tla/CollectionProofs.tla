-------------------------- MODULE CollectionProofs --------------------------
(***************************************************************************)
(* What every command handler stores is something a database may hold: well *)
(* typed, never an empty collection, and announced whenever it is not what  *)
(* was there before; for any databases, names, types and values.  The       *)
(* string and key commands first, then lists, sets, hashes and sorted sets. *)
(***************************************************************************)
EXTENDS CommandTable, Effects, FiniteSetTheorems, TLAPS

(* The time that a leaf may take.                                           *)
USE SMTT(40), ZenonT(40), Z3T(40)

USE DEF Slots, Content, Gone

(* What a lookup leaves is sound.                                           *)
LEMMA FoundSound ==
  ASSUME SoundStore, NEW s \in Slots
  PROVE  /\ Sound(Found(s))
         /\ Exists(s) => Found(s).val \in Value /\ ~IsEmpty(Found(s).val)
BY DEF SoundStore, Sound, Found, Exists

(* Overwriting, and moving the deadline of, a sound content.                *)
LEMMA UpdateSound ==
  ASSUME NEW c, Sound(c), NEW v \in Value, ~IsEmpty(v), NEW t \in Int \cup {NoTTL}
  PROVE  /\ Sound(OverwriteValue(c, v))
         /\ OverwriteValue(c, v).val = v
         /\ Sound(SetKey(v))
         /\ SetKey(v).val = v
         /\ c.val # NoValue => Sound(SetExpireAt(c, t))
         /\ SetKey(v).val # NoValue
BY KeyspaceAssumption DEF Sound, OverwriteValue, SetKey, SetExpireAt

(* A missing key is sound.                                                  *)
LEMMA GoneSound == Sound(Gone)
BY DEF Sound

(* Running a sound effect leaves a sound store, and every slot that changed *)
(* is one it announced or a dead key its lookups deleted.                   *)
LEMMA StoreAfterSound ==
  ASSUME SoundStore, NEW e, SoundEffect(e)
  PROVE  SoundResult(e)
<1>1. ExpiredBy(e) \in SUBSET Slots /\ \A s \in ExpiredBy(e) : s \in e.looked /\ Dead(store[s])
  BY DEF SoundEffect, ExpiredBy
<1>2. ASSUME NEW s \in Slots
      PROVE  \/ s \in DOMAIN e.writes /\ StoreAfter(e)[s] = e.writes[s]
             \/ s \notin DOMAIN e.writes /\ s \in ExpiredBy(e) /\ StoreAfter(e)[s] = Gone
             \/ s \notin DOMAIN e.writes /\ s \notin ExpiredBy(e) /\ StoreAfter(e)[s] = store[s]
  BY DEF StoreAfter
<1>3. ASSUME NEW s \in Slots PROVE Sound(StoreAfter(e)[s])
  BY <1>2, GoneSound DEF SoundStore, SoundEffect
<1>4. ASSUME NEW s \in Slots, s \in DOMAIN e.writes, s \notin e.events
      PROVE  \/ s \in ExpiredBy(e) /\ Dead(store[s]) /\ e.writes[s] = Gone
             \/ s \notin ExpiredBy(e) /\ e.writes[s] = store[s]
  BY <1>4 DEF SoundEffect, FoundBy, Found, ExpiredBy
<1>5. ASSUME NEW s \in Slots
      PROVE  \/ s \in e.events
             \/ s \in ExpiredBy(e) /\ Dead(store[s]) /\ StoreAfter(e)[s] = Gone
             \/ s \notin ExpiredBy(e) /\ StoreAfter(e)[s] = store[s]
  BY <1>1, <1>2, <1>4
<1>6. StoreAfter(e) \in [Slots -> Content]
  BY <1>3 DEF StoreAfter, Sound
<1>7. e.events \in SUBSET Slots
  BY DEF SoundEffect
<1> QED
  BY <1>1, <1>3, <1>5, <1>6, <1>7, ZenonT(40) DEF SoundResult

(* The shapes most handlers have.                                           *)
LEMMA ShapesSound ==
  ASSUME NEW s \in Slots, NEW S \in SUBSET Slots, NEW c, Sound(c)
  PROVE  /\ SoundEffect(Reads(S))
         /\ SoundEffect(Reads({s}))
         /\ SoundEffect(ReadsThenWrites(s, c))
         /\ SoundEffect(Effect(S, One(s, c)))
BY DEF SoundEffect, Reads, ReadsThenWrites, Effect, EffectSaying, One, Nothing

(* A handler that only looks slots up.                                      *)
LEMMA ReadsSound ==
  ASSUME NEW S \in SUBSET Slots
  PROVE  SoundEffect(Reads(S))
BY DEF SoundEffect, Reads, Effect, EffectSaying, Nothing

(* Deadlines are integers, wrapped ones too.                                *)
LEMMA WrapType ==
  ASSUME NEW n \in Int
  PROVE  Wrap(n) \in Int
BY KeyspaceAssumption DEF Wrap

(* A sum with the clock is a deadline.                                      *)
LEMMA DeadlineType ==
  ASSUME now \in Int, NEW t \in Ttl
  PROVE  parseExpireToken(t) \in Int
BY WrapType DEF parseExpireToken, Ttl

(* A string is a value.                                                     *)
LEMMA MakeStringType ==
  ASSUME NEW d \in Data
  PROVE  MakeString(d) \in Value /\ ~IsEmpty(MakeString(d))
BY DEF MakeString, Value, IsEmpty

(* What the string commands store is sound.                                 *)
LEMMA StringEffectSound ==
  ASSUME SoundStore, now \in Int, NEW db \in Dbs, NEW a \in StringArgs
  PROVE  SoundEffect(StringEffect(db, a))
<1> DEFINE s == <<db, a.key>>
<1>1. CASE a.op = "set"
  <2>1. s \in Slots /\ a.data \in Data /\ a.ttl \in Ttl
    BY <1>1, ZenonT(40) DEF StringArgs
  <2> DEFINE c == OverwriteValue(Found(s), MakeString(a.data))
  <2>2. Sound(c) /\ c.val # NoValue
    BY <2>1, FoundSound, UpdateSound, MakeStringType, KeyspaceAssumption
  <2>3. Sound(applyExpire(c, a.ttl))
    BY <2>1, <2>2, UpdateSound, MakeStringType, DeadlineType DEF applyExpire
  <2>4. SoundEffect(set(db, a))
    BY <2>1, <2>3, ShapesSound DEF set
  <2> QED
    BY <1>1, <2>4 DEF StringEffect
<1>2. CASE a.op \in {"get", "getdel", "getset", "setnx"}
  <2>1. s \in Slots /\ (a.op \in {"getset", "setnx"} => a.data \in Data)
    BY <1>2, ZenonT(40) DEF StringArgs
  <2> QED
    BY <1>2, <2>1, UpdateSound, MakeStringType, FoundSound, GoneSound, ShapesSound, ZenonT(40)
    DEF StringEffect, get, getdel, getset, setnx
<1>3. CASE a.op = "mget"
  <2>1. {db} \X a.keys \subseteq Slots
    BY <1>3, ZenonT(40) DEF StringArgs
  <2> QED
    BY <1>3, <2>1 DEF StringEffect, mget, SoundEffect, Reads, Effect, EffectSaying, Nothing
<1>4. CASE a.op = "getex"
  <2>1. s \in Slots /\ a.ttl \in Ttl
    BY <1>4, ZenonT(40) DEF StringArgs
  <2>2. /\ Sound(Found(s))
        /\ IsString(Found(s)) => /\ Sound(SetExpireAt(Found(s), parseExpireToken(a.ttl)))
                                 /\ Sound(SetExpireAt(Found(s), NoTTL))
    BY <2>1, FoundSound, DeadlineType DEF IsString, Sound, SetExpireAt
  <2>3. SoundEffect(getex(db, a))
    BY <2>1, <2>2, GoneSound, ShapesSound DEF getex
  <2> QED
    BY <1>4, <2>3 DEF StringEffect
<1>5. CASE a.op = "setex"
  <2>0. a \in [op : {"setex"}, key : Names, data : Data, n : Nat \ {0}]
    BY <1>5, ZenonT(40) DEF StringArgs
  <2>1. s \in Slots /\ a.data \in Data /\ a.n \in Int
    BY <2>0
  <2>2. Sound(SetExpireAt(SetKey(MakeString(a.data)), Wrap(now + a.n)))
    BY <2>1, WrapType, MakeStringType, KeyspaceAssumption DEF Sound, SetExpireAt, SetKey
  <2> QED
    BY <1>5, <2>1, <2>2, ShapesSound, ZenonT(40) DEF StringEffect, setexGeneric
<1>6. CASE a.op = "mset"
  <2>1. a.keys \subseteq Names /\ a.data \in [Names -> Data]
    BY <1>6, ZenonT(40) DEF StringArgs
  <2>2. SoundEffect(mset(db, a))
    BY <2>1, MakeStringType, UpdateSound, GoneSound DEF mset, SoundEffect, Effect, EffectSaying
  <2> QED
    BY <1>6, <2>2 DEF StringEffect
<1>7. CASE a.op = "msetnx"
  <2>1. a.order \in Seq(Names) /\ a.data \in [Names -> Data]
    BY <1>7, ZenonT(40) DEF StringArgs
  <2>2. \A i \in DOMAIN a.order : a.order[i] \in Names
    BY <2>1
  <2>3. \A x \in Slots : Sound(SetKey(MakeString(a.data[x[2]])))
    BY <2>1, MakeStringType, UpdateSound, GoneSound
  <2> DEFINE slot(i) == <<db, a.order[i]>>
             taken == {i \in DOMAIN a.order : Exists(slot(i))}
             looked == {slot(i) : i \in {j \in DOMAIN a.order : \A k \in taken : j <= k}}
  <2>4. looked \subseteq Slots
    BY <2>2
  <2>5. /\ msetnx(db, a).looked = looked
        /\ msetnx(db, a).events = DOMAIN msetnx(db, a).writes
        /\ \/ msetnx(db, a).writes = Nothing
           \/ msetnx(db, a).writes = [x \in looked |-> SetKey(MakeString(a.data[x[2]]))]
    BY DEF msetnx, Effect, EffectSaying, Reads
  <2> HIDE DEF looked
  <2>6. SoundEffect(msetnx(db, a))
    BY <2>3, <2>4, <2>5 DEF SoundEffect, Nothing
  <2> QED
    BY <1>7, <2>6 DEF StringEffect
<1>8. CASE a.op \in {"append", "setrange", "incrby"}
  <2>1. s \in Slots /\ a.data \in Data
    BY <1>8, ZenonT(40) DEF StringArgs
  <2> QED
    BY <1>8, <2>1, FoundSound, UpdateSound, MakeStringType, ShapesSound
    DEF StringEffect, append, setrange, incrDecrBy
<1> QED
  BY <1>1, <1>2, <1>3, <1>4, <1>5, <1>6, <1>7, <1>8, ZenonT(40) DEF StringArgs

(* What the key, flush and restore commands store is sound.           *)
LEMMA KeyEffectSound ==
  ASSUME SoundStore, now \in Int, NEW db \in Dbs, NEW a \in KeyArgs
  PROVE  SoundEffect(KeyEffect(db, a))
<1> DEFINE s == <<db, a.key>>
<1>1. CASE a.op \in {"del", "exists", "keys", "randomkey"}
  <2>1. {db} \X a.keys \subseteq Slots /\ {db} \X Names \subseteq Slots
    BY <1>1 DEF KeyArgs
  <2> QED
    BY <1>1, <2>1, GoneSound, ZenonT(40)
    DEF KeyEffect, del, exists, keys, randomkey, SoundEffect, Reads, Effect, EffectSaying, Nothing
<1>2. CASE a.op = "rename"
  <2>1. s \in Slots /\ <<db, a.dst>> \in Slots
    BY <1>2 DEF KeyArgs
  <2>2. SoundEffect(renameGeneric(db, a))
    BY <2>1, FoundSound, GoneSound DEF renameGeneric, SoundEffect, Reads, Effect, EffectSaying, Nothing
  <2> QED
    BY <1>2, <2>2 DEF KeyEffect
<1>3. CASE a.op = "copy"
  <2>1. s \in Slots /\ <<a.db, a.dst>> \in Slots
    BY <1>3 DEF KeyArgs
  <2>2. SoundEffect(copy(db, a))
    BY <2>1, FoundSound DEF copy, SoundEffect, Reads, Effect, EffectSaying, Nothing, One
  <2> QED
    BY <1>3, <2>2 DEF KeyEffect
<1>4. CASE a.op = "expire"
  <2>1. s \in Slots /\ a.ttl.n \in Int
    BY <1>4 DEF KeyArgs, Deadline, Ttl
  <2>2. \A t \in Int : Exists(s) => Sound(SetExpireAt(Found(s), t))
    BY <2>1, FoundSound DEF Exists, Sound, SetExpireAt
  <2> DEFINE when == IF a.ttl.kind = "rel" THEN now + a.ttl.n ELSE a.ttl.n
  <2>3. when \in Int
    BY <2>1
  <2>4. /\ SoundEffect(Reads({s}))
        /\ SoundEffect(ReadsThenWrites(s, Gone))
        /\ Exists(s) => SoundEffect(ReadsThenWrites(s, SetExpireAt(Found(s), when)))
    BY <2>1, <2>2, <2>3, GoneSound, ShapesSound
  <2>5. SoundEffect(expireGeneric(db, a))
    BY <2>4, ZenonT(40) DEF expireGeneric
  <2> QED
    BY <1>4, <2>5 DEF KeyEffect
<1>5. CASE a.op = "persist"
  <2>1. s \in Slots
    BY <1>5 DEF KeyArgs
  <2>2. Sound(Found(s)) /\ Sound(SetExpireAt(Found(s), NoTTL))
    BY <2>1, FoundSound DEF Sound, SetExpireAt
  <2> QED
    BY <1>5, <2>1, <2>2, ShapesSound DEF KeyEffect, persist
<1>6. CASE a.op \in {"flushdb", "flushall"}
  BY <1>6, GoneSound, ZenonT(40) DEF KeyEffect, flushdb, flushall, Resident, SoundEffect, Effect, EffectSaying
<1>7. CASE a.op = "restore"
  <2>1. s \in Slots /\ a.value \in Value /\ ~IsEmpty(a.value) /\ a.ttl \in Ttl
    BY <1>7 DEF KeyArgs, Deadline
  <2> DEFINE fresh == SetKey(a.value)
  <2>2. Sound(fresh) /\ fresh.val # NoValue
    BY <2>1, UpdateSound, GoneSound
  <2>3. Sound(SetExpireAt(fresh, parseExpireToken(a.ttl)))
    BY <2>1, <2>2, DeadlineType, UpdateSound
  <2>4. SoundEffect(restore(db, a))
    BY <2>1, <2>2, <2>3, ShapesSound, ZenonT(40) DEF restore
  <2> QED
    BY <1>7, <2>4 DEF KeyEffect
<1> QED
  BY <1>1, <1>2, <1>3, <1>4, <1>5, <1>6, <1>7 DEF KeyArgs

HIDE DEF Slots, Content, Gone

(* The functions on a part of D.                                            *)
LEMMA MapsMembers ==
  ASSUME NEW D, NEW R, NEW f
  PROVE  f \in Maps(D, R) <=> /\ DOMAIN f \subseteq D
                              /\ f \in [DOMAIN f -> R]
BY DEF Maps

(* What a value of each type holds.                                         *)
LEMMA ValueParts ==
  ASSUME NEW v \in Value
  PROVE  /\ v.type = "list" => v.list \in Seq(Elements) /\ v = MakeList(v.list)
         /\ v.type = "set" => v.set \in SUBSET Elements /\ v = MakeSet(v.set)
         /\ v.type = "hash" => v.hash \in Maps(Elements, Data) /\ v = MakeHash(v.hash)
         /\ v.type = "zset" => v.zset \in Maps(Elements, Scores) /\ v = MakeZSet(v.zset)
BY DEF Value, MakeList, MakeSet, MakeHash, MakeZSet

(* The values the commands build are typed, and empty as their contents are. *)
LEMMA MakeTypes ==
  /\ \A l \in Seq(Elements) : MakeList(l) \in Value /\ (IsEmpty(MakeList(l)) <=> l = << >>)
  /\ \A m \in SUBSET Elements : MakeSet(m) \in Value /\ (IsEmpty(MakeSet(m)) <=> m = {})
  /\ \A h \in Maps(Elements, Data) : MakeHash(h) \in Value /\ (IsEmpty(MakeHash(h)) <=> DOMAIN h = {})
  /\ \A z \in Maps(Elements, Scores) : MakeZSet(z) \in Value /\ (IsEmpty(MakeZSet(z)) <=> DOMAIN z = {})
BY DEF Value, IsEmpty, MakeList, MakeSet, MakeHash, MakeZSet

(* The collection a handler works on, found or new.                         *)
LEMMA FoundParts ==
  ASSUME SoundStore, NEW s \in Slots
  PROVE  /\ ~TypeError(s, "list") =>
              /\ ListAt(s) \in Seq(Elements)
              /\ Exists(s) => ListAt(s) # << >> /\ Found(s).val = MakeList(ListAt(s))
         /\ ~TypeError(s, "set") =>
              /\ SetAt(s) \in SUBSET Elements
              /\ Exists(s) => SetAt(s) # {} /\ Found(s).val = MakeSet(SetAt(s))
         /\ ~TypeError(s, "hash") =>
              /\ HashAt(s) \in Maps(Elements, Data)
              /\ Exists(s) => DOMAIN HashAt(s) # {} /\ Found(s).val = MakeHash(HashAt(s))
         /\ ~TypeError(s, "zset") =>
              /\ ZSetAt(s) \in Maps(Elements, Scores)
              /\ Exists(s) => DOMAIN ZSetAt(s) # {} /\ Found(s).val = MakeZSet(ZSetAt(s))
<1>1. CASE ~Exists(s)
  <2>1. /\ ListAt(s) = << >>
        /\ SetAt(s) = {}
        /\ HashAt(s) = [f \in {} |-> {}]
        /\ ZSetAt(s) = [m \in {} |-> 0]
    BY <1>1 DEF ListAt, SetAt, HashAt, ZSetAt
  <2>2. HashAt(s) \in [{} -> Data] /\ ZSetAt(s) \in [{} -> Scores]
    BY <2>1
  <2>3. HashAt(s) \in Maps(Elements, Data) /\ ZSetAt(s) \in Maps(Elements, Scores)
    BY <2>2, ZenonT(40) DEF Maps
  <2> QED
    BY <1>1, <2>1, <2>3
<1>2. CASE Exists(s)
  <2>1. Found(s).val \in Value /\ ~IsEmpty(Found(s).val)
    BY <1>2, FoundSound
  <2>2. /\ ListAt(s) = Found(s).val.list
        /\ SetAt(s) = Found(s).val.set
        /\ HashAt(s) = Found(s).val.hash
        /\ ZSetAt(s) = Found(s).val.zset
    BY <1>2 DEF ListAt, SetAt, HashAt, ZSetAt
  <2> DEFINE v == Found(s).val
  <2>3. /\ v.type = "list" => ListAt(s) \in Seq(Elements) /\ v = MakeList(ListAt(s))
        /\ v.type = "set" => SetAt(s) \in SUBSET Elements /\ v = MakeSet(SetAt(s))
        /\ v.type = "hash" => HashAt(s) \in Maps(Elements, Data) /\ v = MakeHash(HashAt(s))
        /\ v.type = "zset" => ZSetAt(s) \in Maps(Elements, Scores) /\ v = MakeZSet(ZSetAt(s))
    BY <2>1, <2>2, ValueParts
  <2>4. /\ ListAt(s) \in Seq(Elements) /\ v = MakeList(ListAt(s)) => ListAt(s) # << >>
        /\ SetAt(s) \in SUBSET Elements /\ v = MakeSet(SetAt(s)) => SetAt(s) # {}
        /\ HashAt(s) \in Maps(Elements, Data) /\ v = MakeHash(HashAt(s)) => DOMAIN HashAt(s) # {}
        /\ ZSetAt(s) \in Maps(Elements, Scores) /\ v = MakeZSet(ZSetAt(s)) => DOMAIN ZSetAt(s) # {}
    BY <2>1, MakeTypes, ZenonT(40)
  <2>5. \A t : ~TypeError(s, t) => v.type = t
    BY <1>2 DEF TypeError
  <2> QED
    BY <2>3, <2>4, <2>5
<1> QED
  BY <1>1, <1>2

(* A collection changed in place, or emptied.                               *)
LEMMA UpdatedSound ==
  ASSUME SoundStore, NEW s \in Slots, NEW v \in Value
  PROVE  /\ Sound(UpdatedOrGone(s, v))
         /\ ~IsEmpty(v) => Sound(Updated(s, v))
         /\ Found(s).val = v => Updated(s, v) = Found(s)
<1>1. Sound(Found(s)) /\ Found(s) \in Content
  BY FoundSound DEF Sound
<1>2. ~IsEmpty(v) => Sound(Updated(s, v))
  BY <1>1, UpdateSound DEF Updated
<1>3. Found(s).val = v => Updated(s, v) = Found(s)
  BY <1>1 DEF Content, Updated, OverwriteValue
<1> QED
  BY <1>2, <1>3, GoneSound DEF UpdatedOrGone

(* The usual end of a handler, which stays silent only when the collection  *)
(* is what it was.                                                          *)
LEMMA deleteIfEmptySound ==
  ASSUME SoundStore, NEW s \in Slots, NEW v \in Value, NEW ch \in BOOLEAN,
         ~ch /\ ~IsEmpty(v) => Found(s).val = v
  PROVE  SoundEffect(deleteIfEmpty(s, v, ch))
<1>1. Sound(UpdatedOrGone(s, v))
  BY UpdatedSound
<1>2. ~ch /\ ~IsEmpty(v) => UpdatedOrGone(s, v) = Found(s)
  BY UpdatedSound DEF UpdatedOrGone
<1> QED
  BY <1>1, <1>2 DEF deleteIfEmpty, SoundEffect, EffectSaying, One, FoundBy

(* Storing a result under a destination.                                    *)
LEMMA StoreResultSound ==
  ASSUME SoundStore, NEW L \in SUBSET Slots, NEW s \in Slots, NEW v \in Value
  PROVE  SoundEffect(StoreResult(L, s, v))
<1> DEFINE before == IF s \in L THEN Found(s) ELSE store[s]
<1>1. Sound(before)
  BY FoundSound DEF SoundStore
<1>2. before.val = NoValue => before = Gone
  BY <1>1 DEF Sound, Content, Gone
<1>3. CASE ~IsEmpty(v)
  BY <1>3, UpdateSound, GoneSound, ShapesSound, ZenonT(40) DEF StoreResult
<1>4. CASE IsEmpty(v)
  BY <1>2, <1>4, GoneSound DEF StoreResult, SoundEffect, EffectSaying, One, FoundBy
<1> QED
  BY <1>3, <1>4

(***************************************************************************)
(* Lists.                                                                  *)
(***************************************************************************)

(* A reversed list is a list of the same length.                            *)
LEMMA ReversedType ==
  ASSUME NEW S, NEW l \in Seq(S)
  PROVE  /\ Reversed(l) \in Seq(S)
         /\ Len(Reversed(l)) = Len(l)
<1>1. \A i \in 1 .. Len(l) : l[(Len(l) - i) + 1] \in S
  OBVIOUS
<1> QED
  BY <1>1 DEF Reversed

(* The effect of push is sound.                                             *)
LEMMA pushSound ==
  ASSUME SoundStore, NEW s \in Slots, NEW db, NEW a, s = <<db, a.key>>,
         a.elems \in Seq(Elements) \ {<< >>}
  PROVE  SoundEffect(pushGeneric(db, a))
<1> DEFINE l == ListAt(s)
           new == IF a.front THEN Reversed(a.elems) \o l ELSE l \o a.elems
<1>1. SoundEffect(Reads({s}))
  BY ShapesSound, GoneSound
<1>2. ASSUME ~TypeError(s, "list")
      PROVE  SoundEffect(ReadsThenWrites(s, Updated(s, MakeList(new))))
  <2>1. l \in Seq(Elements)
    BY <1>2, FoundParts
  <2>2. Reversed(a.elems) \in Seq(Elements) /\ Len(Reversed(a.elems)) = Len(a.elems)
    BY ReversedType
  <2>3. Len(a.elems) > 0 /\ Len(l) >= 0
    BY <2>1
  <2>4. new \in Seq(Elements) /\ Len(new) > 0
    BY <2>1, <2>2, <2>3
  <2>5. new # << >>
    BY <2>4
  <2>6. MakeList(new) \in Value /\ ~IsEmpty(MakeList(new))
    BY <2>4, <2>5, MakeTypes, ZenonT(40)
  <2> QED
    BY <2>6, UpdatedSound, ShapesSound, ZenonT(40)
<1> QED
  BY <1>1, <1>2 DEF pushGeneric

(* A part of a list is one.                                                 *)
LEMMA SubSeqType ==
  ASSUME NEW l \in Seq(Elements), NEW m \in Nat \ {0}, NEW n \in Int, n <= Len(l)
  PROVE  SubSeq(l, m, n) \in Seq(Elements)
<1>1. \A i \in m .. n : l[i] \in Elements
  OBVIOUS
<1> QED
  BY <1>1

(* The effect of pop is sound.                                              *)
LEMMA popSound ==
  ASSUME SoundStore, NEW s \in Slots, NEW db, NEW a, s = <<db, a.key>>, a.count \in Nat
  PROVE  SoundEffect(popGeneric(db, a))
<1> DEFINE l == ListAt(s)
           n == IF a.count < Len(l) THEN a.count ELSE Len(l)
           left == IF a.front THEN SubSeq(l, n + 1, Len(l)) ELSE SubSeq(l, 1, Len(l) - n)
<1>1. SoundEffect(Reads({s}))
  BY ShapesSound, GoneSound
<1>2. ASSUME ~TypeError(s, "list"), Exists(s)
      PROVE  SoundEffect(deleteIfEmpty(s, MakeList(left), n > 0))
  <2>1. l \in Seq(Elements) /\ Len(l) \in Nat /\ Found(s).val = MakeList(l)
    BY <1>2, FoundParts
  <2>2. n \in Nat /\ n <= Len(l)
    BY <2>1
  <2> HIDE DEF l, n
  <2>3. SubSeq(l, n + 1, Len(l)) \in Seq(Elements) /\ SubSeq(l, 1, Len(l) - n) \in Seq(Elements)
    <3>1. n + 1 \in Nat \ {0} /\ Len(l) - n \in Int /\ Len(l) - n <= Len(l)
      BY <2>1, <2>2
    <3> QED
      BY <2>1, <3>1, SubSeqType
  <2>4. left \in Seq(Elements)
    BY <2>3
  <2>5. ~(n > 0) => left = l
    BY <2>1, <2>2
  <2> HIDE DEF left
  <2>6. MakeList(left) \in Value /\ (n > 0) \in BOOLEAN
    BY <2>4, MakeTypes
  <2>7. ~(n > 0) => Found(s).val = MakeList(left)
    BY <2>1, <2>5
  <2> QED
    BY <2>6, <2>7, deleteIfEmptySound, ZenonT(40)
<1> QED
  BY <1>1, <1>2 DEF popGeneric

(* The effect of move is sound.                                             *)
LEMMA moveSound ==
  ASSUME SoundStore, NEW src \in Slots, NEW dst \in Slots, NEW db, NEW a,
         src = <<db, a.key>>, dst = <<db, a.dst>>
  PROVE  SoundEffect(moveGeneric(db, a))
<1> DEFINE l == ListAt(src)
           item == IF a.fromFront THEN Head(l) ELSE l[Len(l)]
           rest == IF a.fromFront THEN Tail(l) ELSE SubSeq(l, 1, Len(l) - 1)
           onto == IF src = dst THEN rest ELSE ListAt(dst)
           moved == IF a.toFront THEN <<item>> \o onto ELSE Append(onto, item)
           after == [s \in {src, dst} |-> IF s = dst THEN Updated(dst, MakeList(moved))
                                          ELSE UpdatedOrGone(src, MakeList(rest))]
<1>1. SoundEffect(Reads({src})) /\ SoundEffect(Reads({src, dst}))
  BY ShapesSound, GoneSound, ZenonT(40)
<1>2. ASSUME ~TypeError(src, "list"), Exists(src), ~TypeError(dst, "list")
      PROVE  SoundEffect(Effect({src, dst}, after))
  <2>1. l \in Seq(Elements) /\ l # << >> /\ ListAt(dst) \in Seq(Elements)
    BY <1>2, FoundParts
  <2>2. Len(l) \in Nat \ {0}
    BY <2>1
  <2>3. item \in Elements
    BY <2>1, <2>2
  <2>4. rest \in Seq(Elements)
    BY <2>1, <2>2, SubSeqType
  <2>5. onto \in Seq(Elements)
    BY <2>1, <2>4
  <2> HIDE DEF item, rest, onto
  <2>6. moved \in Seq(Elements) /\ Len(moved) = Len(onto) + 1 /\ Len(onto) \in Nat
    <3>1. <<item>> \in Seq(Elements) /\ Len(<<item>>) = 1
      BY <2>3
    <3> QED
      BY <2>3, <2>5, <3>1
  <2>7. moved # << >>
    BY <2>6
  <2> HIDE DEF moved
  <2>8. MakeList(moved) \in Value /\ ~IsEmpty(MakeList(moved)) /\ MakeList(rest) \in Value
    BY <2>4, <2>6, <2>7, MakeTypes
  <2>9. Sound(Updated(dst, MakeList(moved))) /\ Sound(UpdatedOrGone(src, MakeList(rest)))
    BY <2>8, UpdatedSound
  <2> QED
    BY <2>9 DEF SoundEffect, Effect, EffectSaying
<1> QED
  BY <1>1, <1>2, ZenonT(40) DEF moveGeneric

(* The effect of lset is sound.                                             *)
LEMMA lsetSound ==
  ASSUME SoundStore, NEW s \in Slots, NEW db, NEW a, s = <<db, a.key>>,
         a.index \in Int, a.elem \in Elements
  PROVE  SoundEffect(lset(db, a))
<1> DEFINE l == ListAt(s)
           i == resolveIndex(a.index, Len(l))
           new == [l EXCEPT ![i + 1] = a.elem]
<1>1. SoundEffect(Reads({s}))
  BY ShapesSound, GoneSound
<1>2. ASSUME ~TypeError(s, "list"), Exists(s), ~(i < 0), ~(i >= Len(l))
      PROVE  SoundEffect(ReadsThenWrites(s, Updated(s, MakeList(new))))
  <2>1. l \in Seq(Elements) /\ l # << >> /\ Len(l) \in Nat
    BY <1>2, FoundParts
  <2>2. i \in Int
    BY <2>1 DEF resolveIndex
  <2>3. i + 1 \in 1 .. Len(l)
    BY <1>2, <2>1, <2>2
  <2> HIDE DEF i
  <2>4. new \in Seq(Elements) /\ Len(new) = Len(l)
    BY <2>1, <2>3
  <2>5. new # << >>
    BY <2>1, <2>4
  <2>6. MakeList(new) \in Value /\ ~IsEmpty(MakeList(new))
    BY <2>4, <2>5, MakeTypes, ZenonT(40)
  <2> QED
    BY <2>6, UpdatedSound, ShapesSound, ZenonT(40)
<1> QED
  BY <1>1, <1>2, ZenonT(40) DEF lset


(* Keeping some positions of a list, and all of them.                       *)
LEMMA NthType ==
  ASSUME NEW keep, keep # {}, NEW i
  PROVE  Nth(keep, i) \in keep
<1> DEFINE isNth(p) == Cardinality({q \in keep : q <= p}) = i
<1>1. \E p \in keep : (\E q \in keep : isNth(q)) => isNth(p)
  BY ZenonT(40)
<1> QED
  BY <1>1, ZenonT(40) DEF Nth

(* A filtered list is a list.                                               *)
LEMMA KeepOnlyType ==
  ASSUME NEW l \in Seq(Elements), NEW keep \in SUBSET DOMAIN l
  PROVE  KeepOnly(l, keep) \in Seq(Elements)
<1>1. DOMAIN l = 1 .. Len(l) /\ Len(l) \in Nat
  OBVIOUS
<1>2. IsFiniteSet(keep) /\ Cardinality(keep) \in Nat
  <2>1. IsFiniteSet(1 .. Len(l))
    BY <1>1, FS_Interval
  <2>2. IsFiniteSet(keep)
    BY <1>1, <2>1, FS_Subset, ZenonT(40)
  <2> QED
    BY <2>2, FS_CardinalityType, ZenonT(40)
<1>3. ASSUME NEW i \in 1 .. Cardinality(keep)
      PROVE  l[Nth(keep, i)] \in Elements
  <2>1. keep # {}
    BY <1>2, <1>3, FS_EmptySet
  <2>2. Nth(keep, i) \in 1 .. Len(l)
    BY <1>1, <2>1, NthType, ZenonT(40)
  <2> QED
    BY <2>2
<1> QED
  BY <1>2, <1>3 DEF KeepOnly

(* The size of an initial segment.                                          *)
LEMMA UpToCardinality ==
  ASSUME NEW n \in Nat
  PROVE  Cardinality(1 .. n) = n
BY FS_Interval

(* A filter that drops nothing is the identity.                             *)
LEMMA KeepAll ==
  ASSUME NEW l \in Seq(Elements)
  PROVE  KeepOnly(l, DOMAIN l) = l
<1> DEFINE n == Len(l)
<1>1. DOMAIN l = 1 .. n /\ n \in Nat /\ l = [i \in 1 .. n |-> l[i]]
  OBVIOUS
<1>2. Cardinality(1 .. n) = n
  BY <1>1, UpToCardinality
<1> HIDE DEF n
<1>3. ASSUME NEW i \in 1 .. n
      PROVE  Nth(1 .. n, i) = i
  <2>1. \A p \in 1 .. n : Cardinality({q \in 1 .. n : q <= p}) = p
    <3> SUFFICES ASSUME NEW p \in 1 .. n PROVE Cardinality({q \in 1 .. n : q <= p}) = p
      OBVIOUS
    <3>1. {q \in 1 .. n : q <= p} = 1 .. p
      BY <1>1
    <3>2. p \in Nat
      BY <1>1
    <3> QED
      BY <3>1, <3>2, UpToCardinality, ZenonT(40)
  <2> DEFINE P(p) == (\E q \in 1 .. n : Cardinality({r \in 1 .. n : r <= q}) = i)
                       => Cardinality({r \in 1 .. n : r <= p}) = i
  <2>2. \E p \in 1 .. n : P(p)
    BY ZenonT(40)
  <2>3. Nth(1 .. n, i) \in 1 .. n /\ P(Nth(1 .. n, i))
    BY <2>2, ZenonT(40) DEF Nth
  <2> QED
    BY <2>1, <2>3
<1>4. KeepOnly(l, 1 .. n) = [i \in 1 .. n |-> l[i]]
  BY <1>2, <1>3 DEF KeepOnly
<1> QED
  BY <1>1, <1>4

(* The effect of lrem is sound.                                             *)
LEMMA lremSound ==
  ASSUME SoundStore, NEW s \in Slots, NEW db, NEW a, s = <<db, a.key>>
  PROVE  SoundEffect(lrem(db, a))
<1> DEFINE l == ListAt(s)
           gone == Removed(l, a.elem, a.count)
           left == KeepOnly(l, DOMAIN l \ gone)
<1>1. SoundEffect(Reads({s}))
  BY ShapesSound, GoneSound
<1>2. ASSUME ~TypeError(s, "list"), Exists(s)
      PROVE  SoundEffect(deleteIfEmpty(s, MakeList(left), gone # {}))
  <2>1. l \in Seq(Elements) /\ Found(s).val = MakeList(l)
    BY <1>2, FoundParts
  <2> HIDE DEF l, gone
  <2>2. left \in Seq(Elements)
    BY <2>1, KeepOnlyType
  <2>3. gone = {} => left = l
    BY <2>1, KeepAll
  <2> HIDE DEF left
  <2>4. MakeList(left) \in Value
    BY <2>2, MakeTypes, ZenonT(40)
  <2> QED
    BY <2>1, <2>3, <2>4, deleteIfEmptySound, ZenonT(40)
<1> QED
  BY <1>1, <1>2, ZenonT(40) DEF lrem

(* The effect of ltrim is sound.                                            *)
LEMMA ltrimSound ==
  ASSUME SoundStore, NEW s \in Slots, NEW db, NEW a, s = <<db, a.key>>, a.start \in Int, a.stop \in Int
  PROVE  SoundEffect(ltrim(db, a))
<1> DEFINE l == ListAt(s)
           m == FirstOf(a.start, Len(l)) + 1
           n == LastOf(a.stop, Len(l)) + 1
<1>1. SoundEffect(Reads({s}))
  BY ShapesSound, GoneSound
<1>2. ASSUME ~TypeError(s, "list"), Exists(s)
      PROVE  SoundEffect(deleteIfEmpty(s, MakeList(SubSeq(l, m, n)), TRUE))
  <2>1. l \in Seq(Elements) /\ Len(l) \in Nat
    BY <1>2, FoundParts
  <2> HIDE DEF l
  <2>2. m \in Nat \ {0} /\ n \in Int /\ n <= Len(l)
    BY <2>1 DEF FirstOf, LastOf, resolveIndex
  <2> HIDE DEF m, n
  <2>3. MakeList(SubSeq(l, m, n)) \in Value
    BY <2>1, <2>2, SubSeqType, MakeTypes, ZenonT(40)
  <2> QED
    BY <2>3, deleteIfEmptySound, ZenonT(40)
<1> QED
  BY <1>1, <1>2, ZenonT(40) DEF ltrim


(***************************************************************************)
(* Sets.                                                                   *)
(***************************************************************************)

(* The effect of sadd is sound.                                             *)
LEMMA saddSound ==
  ASSUME SoundStore, NEW s \in Slots, NEW db, NEW a, s = <<db, a.key>>,
         a.members \in SUBSET Elements, a.members # {}
  PROVE  SoundEffect(sadd(db, a))
<1> DEFINE m == SetAt(s) \cup a.members
           e == EffectSaying({s}, One(s, Updated(s, MakeSet(m))),
                             IF a.members \subseteq SetAt(s) THEN {} ELSE {s})
<1>1. SoundEffect(Reads({s}))
  BY ShapesSound, GoneSound
<1>2. ASSUME ~TypeError(s, "set")
      PROVE  SoundEffect(e)
  <2>1. SetAt(s) \in SUBSET Elements
    BY <1>2, FoundParts
  <2>2. MakeSet(m) \in Value /\ ~IsEmpty(MakeSet(m))
    BY <2>1, MakeTypes
  <2>3. Sound(Updated(s, MakeSet(m)))
    BY <2>2, UpdatedSound, ZenonT(40)
  <2>4. a.members \subseteq SetAt(s) => Found(s).val = MakeSet(m)
    <3>1. HAVE a.members \subseteq SetAt(s)
    <3>2. Exists(s) /\ m = SetAt(s)
      BY <3>1 DEF SetAt
    <3> QED
      BY <1>2, <3>2, FoundParts
  <2>5. a.members \subseteq SetAt(s) => Updated(s, MakeSet(m)) = Found(s)
    BY <2>2, <2>4, UpdatedSound, ZenonT(40)
  <2> HIDE DEF m
  <2> QED
    BY <2>3, <2>5 DEF SoundEffect, EffectSaying, One, FoundBy
<1> QED
  BY <1>1, <1>2, ZenonT(40) DEF sadd

(* The effect of srem is sound.                                             *)
LEMMA sremSound ==
  ASSUME SoundStore, NEW s \in Slots, NEW db, NEW a, s = <<db, a.key>>
  PROVE  SoundEffect(srem(db, a))
<1> DEFINE m == SetAt(s) \ a.members
           hit == SetAt(s) \cap a.members # {}
<1>1. SoundEffect(Reads({s}))
  BY ShapesSound, GoneSound
<1>2. ASSUME ~TypeError(s, "set"), Exists(s)
      PROVE  SoundEffect(deleteIfEmpty(s, MakeSet(m), hit))
  <2>1. SetAt(s) \in SUBSET Elements /\ Found(s).val = MakeSet(SetAt(s))
    BY <1>2, FoundParts
  <2>2. MakeSet(m) \in Value
    BY <2>1, MakeTypes
  <2>3. ~hit => m = SetAt(s)
    OBVIOUS
  <2>4. hit \in BOOLEAN /\ (~hit => Found(s).val = MakeSet(m))
    BY <2>1, <2>3
  <2> HIDE DEF m, hit
  <2> QED
    BY <2>2, <2>4, deleteIfEmptySound, ZenonT(40)
<1> QED
  BY <1>1, <1>2, ZenonT(40) DEF srem

(* The effect of smove is sound.                                            *)
LEMMA smoveSound ==
  ASSUME SoundStore, NEW src \in Slots, NEW dst \in Slots, NEW db, NEW a,
         src = <<db, a.key>>, dst = <<db, a.dst>>, a.member \in Elements
  PROVE  SoundEffect(smove(db, a))
<1> DEFINE rest == SetAt(src) \ {a.member}
           left == UpdatedOrGone(src, MakeSet(rest))
           onto == IF src = dst THEN rest ELSE SetAt(dst)
           base == IF src = dst THEN left ELSE Found(dst)
           new == OverwriteValue(base, MakeSet(onto \cup {a.member}))
           after == [s \in {src, dst} |-> IF s = dst THEN new ELSE left]
<1>1. SoundEffect(Reads({src})) /\ SoundEffect(Reads({src, dst}))
  BY ShapesSound, GoneSound, ZenonT(40)
<1>2. ASSUME ~TypeError(src, "set"), ~TypeError(dst, "set")
      PROVE  SoundEffect(Effect({src, dst}, after))
  <2>1. SetAt(src) \in SUBSET Elements /\ SetAt(dst) \in SUBSET Elements
    BY <1>2, FoundParts
  <2>2. MakeSet(rest) \in Value
    BY <2>1, MakeTypes
  <2>3. onto \cup {a.member} \in SUBSET Elements /\ onto \cup {a.member} # {}
    BY <2>1
  <2>4. MakeSet(onto \cup {a.member}) \in Value /\ ~IsEmpty(MakeSet(onto \cup {a.member}))
    BY <2>3, MakeTypes, ZenonT(40)
  <2>5. Sound(left)
    BY <2>2, UpdatedSound, ZenonT(40)
  <2>6. Sound(base)
    BY <2>5, FoundSound
  <2> HIDE DEF left, base, onto
  <2>7. Sound(new)
    BY <2>4, <2>6, UpdateSound
  <2> HIDE DEF new
  <2> QED
    BY <2>5, <2>7 DEF SoundEffect, Effect, EffectSaying
<1> QED
  BY <1>1, <1>2, ZenonT(40) DEF smove

(* A handler that gathers its sources looks slots up.                       *)
LEMMA GatheredSlots ==
  ASSUME NEW db \in Dbs, NEW ks \in Seq(Names), NEW i \in DOMAIN ks
  PROVE  <<db, ks[i]>> \in Slots
<1>1. ks[i] \in Names
  OBVIOUS
<1> QED
  BY <1>1 DEF Slots

(* The effect of setOp is sound.                                            *)
LEMMA setOpSound ==
  ASSUME SoundStore, NEW db \in Dbs, NEW a, a.keys \in Seq(Names) \ {<< >>}, a.dst \in Names,
         a.kind \in {"inter", "union", "diff"}
  PROVE  SoundEffect(setOpCommand(db, a))
<1> DEFINE slots == [i \in DOMAIN a.keys |-> <<db, a.keys[i]>>]
           looked == Gathered(slots, {i \in DOMAIN slots : NotSet(slots[i])})
           result == applySetOp(a.kind, slots)
<1>1. \A i \in DOMAIN slots : slots[i] \in Slots
  BY GatheredSlots
<1>2. looked \in SUBSET Slots
  <2> SUFFICES ASSUME NEW x \in looked PROVE x \in Slots
    BY ZenonT(40)
  <2>1. PICK i \in DOMAIN slots : x = slots[i]
    BY ZenonT(40) DEF Gathered
  <2> QED
    BY <1>1, <2>1, ZenonT(40)
<1>3. SoundEffect(Reads(looked))
  BY <1>2, ReadsSound, ZenonT(40)
<1>4. ASSUME ~(\E i \in DOMAIN slots : NotSet(slots[i]))
      PROVE  SoundEffect(StoreResult(looked, <<db, a.dst>>, MakeSet(result)))
  <2>1. 1 \in DOMAIN slots
    OBVIOUS
  <2>2. slots[1] \in Slots /\ ~TypeError(slots[1], "set")
    BY <1>1, <1>4, <2>1, ZenonT(40) DEF NotSet
  <2>3. SetAt(slots[1]) \in SUBSET Elements
    BY <2>2, FoundParts, ZenonT(40)
  <2> HIDE DEF slots, looked
  <2>4. result \in SUBSET Elements
    BY <2>3 DEF applySetOp
  <2>5. MakeSet(result) \in Value
    BY <2>4, MakeTypes, ZenonT(40)
  <2>6. <<db, a.dst>> \in Slots
    BY DEF Slots
  <2> QED
    BY <1>2, <2>5, <2>6, StoreResultSound, ZenonT(40)
<1> QED
  BY <1>3, <1>4, ZenonT(40) DEF setOpCommand


(***************************************************************************)
(* Hashes.                                                                 *)
(***************************************************************************)

(* A merge of two maps is a map.                                            *)
LEMMA MergeMaps ==
  ASSUME NEW D, NEW R, NEW f \in Maps(D, R), NEW g \in Maps(D, R)
  PROVE  With(f, g) \in Maps(D, R)
<1>1. /\ DOMAIN f \subseteq D /\ f \in [DOMAIN f -> R]
      /\ DOMAIN g \subseteq D /\ g \in [DOMAIN g -> R]
  BY MapsMembers, ZenonT(40)
<1> DEFINE h == [x \in (DOMAIN f) \cup (DOMAIN g) |-> IF x \in DOMAIN g THEN g[x] ELSE f[x]]
<1>2. h \in [DOMAIN f \cup DOMAIN g -> R]
  BY <1>1
<1>3. With(f, g) = h
  BY ZenonT(40) DEF With
<1>4. DOMAIN h = DOMAIN f \cup DOMAIN g
  OBVIOUS
<1> HIDE DEF h
<1>5. h \in Maps(D, R)
  BY <1>1, <1>2, <1>4, MapsMembers
<1> QED
  BY <1>3, <1>4, <1>5, ZenonT(40)

(* A map of one entry.                                                      *)
LEMMA SingleMap ==
  ASSUME NEW D, NEW R, NEW x \in D, NEW y \in R
  PROVE  One(x, y) \in Maps(D, R) /\ DOMAIN One(x, y) = {x}
<1>1. One(x, y) \in [{x} -> R] /\ DOMAIN One(x, y) = {x}
  BY DEF One
<1> QED
  BY <1>1 DEF Maps

(* A map restricted to some of its keys.                                    *)
LEMMA RestrictMap ==
  ASSUME NEW D, NEW R, NEW f \in Maps(D, R), NEW S \in SUBSET DOMAIN f
  PROVE  Restrict(f, S) \in Maps(D, R) /\ DOMAIN Restrict(f, S) = S
<1>1. DOMAIN f \subseteq D /\ f \in [DOMAIN f -> R]
  BY MapsMembers, ZenonT(40)
<1>2. Restrict(f, S) \in [S -> R] /\ DOMAIN Restrict(f, S) = S
  BY <1>1 DEF Restrict
<1> QED
  BY <1>1, <1>2, MapsMembers

(* A map without some of its keys.                                          *)
LEMMA WithoutMap ==
  ASSUME NEW D, NEW R, NEW f \in Maps(D, R), NEW S
  PROVE  /\ Without(f, S) \in Maps(D, R)
         /\ DOMAIN f \cap S = {} => Without(f, S) = f
<1>1. Without(f, S) \in Maps(D, R)
  BY RestrictMap DEF Without
<1>2. f = [x \in DOMAIN f |-> f[x]]
  BY MapsMembers
<1>3. DOMAIN f \cap S = {} => Without(f, S) = f
  BY <1>2 DEF Without, Restrict
<1> QED
  BY <1>1, <1>3

(* The effect of hset is sound.                                             *)
LEMMA hsetSound ==
  ASSUME SoundStore, NEW s \in Slots, NEW db, NEW a, s = <<db, a.key>>,
         a.fields \in Maps(Elements, Data), DOMAIN a.fields # {}
  PROVE  SoundEffect(hset(db, a))
<1> DEFINE h == With(HashAt(s), a.fields)
<1>1. SoundEffect(Reads({s}))
  BY ShapesSound, GoneSound
<1>2. ASSUME ~TypeError(s, "hash")
      PROVE  SoundEffect(ReadsThenWrites(s, Updated(s, MakeHash(h))))
  <2>1. HashAt(s) \in Maps(Elements, Data)
    BY <1>2, FoundParts
  <2>2. h \in Maps(Elements, Data)
    BY <2>1, MergeMaps, ZenonT(40)
  <2>3. DOMAIN h # {}
    BY DEF With
  <2> HIDE DEF h
  <2>4. MakeHash(h) \in Value /\ ~IsEmpty(MakeHash(h))
    BY <2>2, <2>3, MakeTypes, ZenonT(40)
  <2> QED
    BY <2>4, UpdatedSound, ShapesSound, ZenonT(40)
<1> QED
  BY <1>1, <1>2, ZenonT(40) DEF hset

(* The two handlers that set one field or leave the hash as it was.         *)
LEMMA OneFieldSound ==
  ASSUME SoundStore, NEW s \in Slots, NEW f \in Elements, NEW d \in Data, ~TypeError(s, "hash")
  PROVE  /\ SoundEffect(deleteIfEmpty(s, MakeHash(HashAt(s)), FALSE))
         /\ SoundEffect(ReadsThenWrites(s, Updated(s, MakeHash(With(HashAt(s), One(f, d))))))
<1> DEFINE h == With(HashAt(s), One(f, d))
<1>1. HashAt(s) \in Maps(Elements, Data) /\ (Exists(s) => Found(s).val = MakeHash(HashAt(s)))
  BY FoundParts
<1>2. ~Exists(s) => DOMAIN HashAt(s) = {}
  BY DEF HashAt
<1>3. MakeHash(HashAt(s)) \in Value /\ (~IsEmpty(MakeHash(HashAt(s))) => Exists(s))
  BY <1>1, <1>2, MakeTypes, ZenonT(40)
<1>4. SoundEffect(deleteIfEmpty(s, MakeHash(HashAt(s)), FALSE))
  BY <1>1, <1>3, deleteIfEmptySound, ZenonT(40)
<1>5. One(f, d) \in Maps(Elements, Data) /\ DOMAIN One(f, d) = {f}
  BY SingleMap, ZenonT(40)
<1>6. h \in Maps(Elements, Data)
  BY <1>1, <1>5, MergeMaps, ZenonT(40)
<1>7. DOMAIN h # {}
  BY <1>5 DEF With
<1> HIDE DEF h
<1>8. MakeHash(h) \in Value /\ ~IsEmpty(MakeHash(h))
  BY <1>6, <1>7, MakeTypes, ZenonT(40)
<1>9. SoundEffect(ReadsThenWrites(s, Updated(s, MakeHash(h))))
  BY <1>8, UpdatedSound, ShapesSound, ZenonT(40)
<1> QED
  BY <1>4, <1>9, ZenonT(40) DEF h

(* The effect of hdel is sound.                                             *)
LEMMA hdelSound ==
  ASSUME SoundStore, NEW s \in Slots, NEW db, NEW a, s = <<db, a.key>>
  PROVE  SoundEffect(hdel(db, a))
<1> DEFINE h == Without(HashAt(s), a.members)
           hit == DOMAIN HashAt(s) \cap a.members # {}
<1>1. SoundEffect(Reads({s}))
  BY ShapesSound, GoneSound, ZenonT(40)
<1>2. ASSUME ~TypeError(s, "hash"), Exists(s)
      PROVE  SoundEffect(deleteIfEmpty(s, MakeHash(h), hit))
  <2>1. HashAt(s) \in Maps(Elements, Data) /\ Found(s).val = MakeHash(HashAt(s))
    BY <1>2, FoundParts
  <2>2. h \in Maps(Elements, Data) /\ (~hit => h = HashAt(s))
    BY <2>1, WithoutMap, ZenonT(40)
  <2>3. hit \in BOOLEAN /\ (~hit => Found(s).val = MakeHash(h))
    BY <2>1, <2>2
  <2> HIDE DEF h, hit
  <2>4. MakeHash(h) \in Value
    BY <2>2, MakeTypes, ZenonT(40)
  <2> QED
    BY <2>3, <2>4, deleteIfEmptySound, ZenonT(40)
<1> QED
  BY <1>1, <1>2, ZenonT(40) DEF hdel

(* What the list, set and hash commands store is sound.                     *)
LEMMA CollectionEffectSound ==
  ASSUME SoundStore, NEW db \in Dbs, NEW a \in CollectionArgs
  PROVE  SoundEffect(CollectionEffect(db, a))
<1> DEFINE s == <<db, a.key>>
           dst == <<db, a.dst>>
<1>1. CASE a.op = "setop"
  <2>1. a.keys \in Seq(Names) \ {<< >>} /\ a.dst \in Names /\ a.kind \in {"inter", "union", "diff"}
    BY <1>1 DEF CollectionArgs
  <2> QED
    BY <1>1, <2>1, setOpSound, ZenonT(40) DEF CollectionEffect
<1>2. CASE a.op \in {"typedread", "push", "pop", "lset", "lrem", "ltrim"}
  <2>1. /\ s \in Slots
        /\ a.op = "push" => a.elems \in Seq(Elements) \ {<< >>}
        /\ a.op = "pop" => a.count \in Nat
        /\ a.op = "lset" => a.index \in Int /\ a.elem \in Elements
        /\ a.op = "ltrim" => a.start \in Int /\ a.stop \in Int
    BY <1>2 DEF CollectionArgs, Slots
  <2>2. SoundEffect(lookupTypedRead(db, a))
    BY <2>1, ShapesSound, GoneSound DEF lookupTypedRead
  <2> QED
    BY <1>2, <2>1, <2>2, pushSound, popSound, lsetSound, lremSound, ltrimSound DEF CollectionEffect
<1>3. CASE a.op \in {"lmove", "smove"}
  <2>1. s \in Slots /\ dst \in Slots /\ (a.op = "smove" => a.member \in Elements)
    BY <1>3 DEF CollectionArgs, Slots
  <2> QED
    BY <1>3, <2>1, moveSound, smoveSound DEF CollectionEffect
<1>4. CASE a.op \in {"sadd", "srem", "hdel"}
  <2>1. s \in Slots /\ (a.op = "sadd" => a.members \in SUBSET Elements /\ a.members # {})
    BY <1>4 DEF CollectionArgs, Slots
  <2> QED
    BY <1>4, <2>1, saddSound, sremSound, hdelSound DEF CollectionEffect
<1>5. CASE a.op = "hset"
  <2>1. s \in Slots /\ a.fields \in Maps(Elements, Data) /\ DOMAIN a.fields # {}
    BY <1>5 DEF CollectionArgs, Slots
  <2> QED
    BY <1>5, <2>1, hsetSound DEF CollectionEffect
<1>6. CASE a.op \in {"hsetnx", "hincrby"}
  <2>1. s \in Slots /\ a.field \in Elements /\ a.data \in Data
    BY <1>6 DEF CollectionArgs, Slots
  <2>2. SoundEffect(Reads({s}))
    BY <2>1, ShapesSound, GoneSound
  <2>3. SoundEffect(hsetnx(db, a)) /\ SoundEffect(hincrby(db, a))
    BY <2>1, <2>2, OneFieldSound, ZenonT(40) DEF hsetnx, hincrby
  <2> QED
    BY <1>6, <2>3 DEF CollectionEffect
<1> QED
  BY <1>1, <1>2, <1>3, <1>4, <1>5, <1>6 DEF CollectionArgs


(***************************************************************************)
(* Sorted sets.                                                            *)
(***************************************************************************)

(* The scores that ZADD and the set sources use.                            *)
LEMMA UnitScores == 0 \in Scores /\ 1 \in Scores
BY KeyspaceAssumption DEF Scores

(* Sums and products of scores are scores.                                  *)
LEMMA ScoreTypes ==
  ASSUME NEW x \in Scores, NEW y \in Scores
  PROVE  /\ AddScores(x, y) \in Scores
         /\ weighted(x, y) \in Scores
         /\ \A how \in {"sum", "min", "max"} : aggregateScores(how, x, y) \in Scores
<1>1. Inf \in Nat /\ Inf >= 1 /\ x \in Int /\ y \in Int
  BY KeyspaceAssumption DEF Scores
<1>2. \A n \in Int : Clamp(n) \in Scores
  BY <1>1 DEF Scores, Clamp
<1>3. AddScores(x, y) \in Scores
  BY <1>1, <1>2 DEF AddScores
<1>4. x * y \in Int /\ Inf \in Scores /\ -Inf \in Scores /\ 0 \in Scores
  BY <1>1 DEF Scores
<1>5. weighted(x, y) \in Scores
  BY <1>2, <1>4, ZenonT(40) DEF weighted
<1>6. \A how \in {"sum", "min", "max"} : aggregateScores(how, x, y) \in Scores
  BY <1>3, <1>4 DEF aggregateScores
<1> QED
  BY <1>3, <1>4, <1>5, <1>6

(* The end of every handler that keeps the sorted set z under s.            *)
LEMMA ZSetKept ==
  ASSUME SoundStore, NEW s \in Slots, ~TypeError(s, "zset"), NEW z \in Maps(Elements, Scores),
         NEW ch \in BOOLEAN, ~ch => z = ZSetAt(s)
  PROVE  SoundEffect(deleteIfEmpty(s, MakeZSet(z), ch))
<1>1. Exists(s) => Found(s).val = MakeZSet(ZSetAt(s))
  BY FoundParts
<1>2. ~Exists(s) => DOMAIN ZSetAt(s) = {}
  BY DEF ZSetAt
<1>3. MakeZSet(z) \in Value /\ (IsEmpty(MakeZSet(z)) <=> DOMAIN z = {})
  BY MakeTypes, ZenonT(40)
<1>4. ~ch /\ ~IsEmpty(MakeZSet(z)) => Found(s).val = MakeZSet(z)
  BY <1>1, <1>2, <1>3, ZenonT(40)
<1> QED
  BY <1>3, <1>4, deleteIfEmptySound, ZenonT(40)

(* The effect of zadd is sound.                                             *)
LEMMA zaddSound ==
  ASSUME SoundStore, NEW s \in Slots, NEW db, NEW a, s = <<db, a.key>>,
         a.updates \in Maps(Elements, Scores), a.incr \in BOOLEAN
  PROVE  SoundEffect(zadd(db, a))
<1> DEFINE z == ZSetAt(s)
           taken == ZaddTakes(z, a)
           up == [m \in taken |-> ZaddScore(z, a, m)]
           new == With(z, up)
           nan == a.incr /\ \E m \in DOMAIN a.updates \cap DOMAIN z : SumIsNaN(z[m], a.updates[m])
           moved == \E m \in taken : m \notin DOMAIN z \/ z[m] # new[m]
<1>1. SoundEffect(Reads({s}))
  BY ShapesSound, GoneSound, ZenonT(40)
<1>2. ASSUME ~TypeError(s, "zset")
      PROVE  SoundEffect(deleteIfEmpty(s, MakeZSet(new), moved \/ (a.incr /\ taken # {})))
  <2>1. z \in Maps(Elements, Scores)
    BY <1>2, FoundParts
  <2>2. /\ DOMAIN z \subseteq Elements /\ z \in [DOMAIN z -> Scores]
        /\ DOMAIN a.updates \subseteq Elements /\ a.updates \in [DOMAIN a.updates -> Scores]
    BY <2>1, MapsMembers, ZenonT(40)
  <2> HIDE DEF z
  <2>3. taken \subseteq DOMAIN a.updates
    BY DEF ZaddTakes
  <2>4. \A m \in taken : ZaddScore(z, a, m) \in Scores
    BY <2>2, <2>3, ScoreTypes DEF ZaddScore
  <2> HIDE DEF taken
  <2>5. up \in [taken -> Scores] /\ DOMAIN up = taken /\ taken \subseteq Elements
    BY <2>2, <2>3, <2>4
  <2>6. up \in Maps(Elements, Scores)
    BY <2>5, MapsMembers, ZenonT(40)
  <2>7. new \in Maps(Elements, Scores)
    BY <2>1, <2>6, MergeMaps, ZenonT(40)
  <2>8. ~moved => new = z
    <3>1. HAVE ~moved
    <3>2. taken \subseteq DOMAIN z /\ \A m \in taken : z[m] = new[m]
      BY <3>1, ZenonT(40)
    <3>3. new = [x \in DOMAIN z |-> new[x]]
      BY <2>5, <3>2 DEF With
    <3>4. \A x \in DOMAIN z : new[x] = z[x]
      BY <2>5, <3>2 DEF With
    <3> HIDE DEF new
    <3> QED
      BY <2>2, <3>3, <3>4
  <2> HIDE DEF new, moved
  <2> QED
    BY <1>2, <2>7, <2>8, ZSetKept, ZenonT(40) DEF z
<1> QED
  BY <1>1, <1>2, ZenonT(40) DEF zadd


(* The handlers that take some members out: S is what they hit.             *)
LEMMA ZSetMinusSound ==
  ASSUME SoundStore, NEW s \in Slots, NEW S, NEW ch \in BOOLEAN,
         ~ch => DOMAIN ZSetAt(s) \cap S = {}
  PROVE  /\ SoundEffect(Reads({s}))
         /\ ~TypeError(s, "zset") => SoundEffect(deleteIfEmpty(s, MakeZSet(Without(ZSetAt(s), S)), ch))
<1>1. SoundEffect(Reads({s}))
  BY ShapesSound, GoneSound, ZenonT(40)
<1>2. ASSUME ~TypeError(s, "zset")
      PROVE  SoundEffect(deleteIfEmpty(s, MakeZSet(Without(ZSetAt(s), S)), ch))
  <2>1. ZSetAt(s) \in Maps(Elements, Scores)
    BY <1>2, FoundParts
  <2>2. /\ Without(ZSetAt(s), S) \in Maps(Elements, Scores)
        /\ ~ch => Without(ZSetAt(s), S) = ZSetAt(s)
    BY <2>1, WithoutMap, ZenonT(40)
  <2> QED
    BY <1>2, <2>2, ZSetKept, ZenonT(40)
<1> QED
  BY <1>1, <1>2, ZenonT(40)

(* The effect of zrem is sound.                                             *)
LEMMA zremSound ==
  ASSUME SoundStore, NEW s \in Slots, NEW db, NEW a, s = <<db, a.key>>
  PROVE  /\ SoundEffect(zrem(db, a))
         /\ SoundEffect(zpopGeneric(db, a))
         /\ SoundEffect(zremrange(db, a))
<1> DEFINE z == ZSetAt(s)
           popped == Extremes(z, a.lowest, a.count)
           removed == collectRange(z, a.range)
<1>1. SoundEffect(zrem(db, a))
  BY ZSetMinusSound, ZenonT(40) DEF zrem
<1>2. popped = {} => DOMAIN z \cap popped = {}
  OBVIOUS
<1>3. removed = {} => DOMAIN z \cap removed = {}
  OBVIOUS
<1>4. SoundEffect(zpopGeneric(db, a))
  BY <1>2, ZSetMinusSound, ZenonT(40) DEF zpopGeneric
<1>5. SoundEffect(zremrange(db, a))
  BY <1>3, ZSetMinusSound, ZenonT(40) DEF zremrange
<1> QED
  BY <1>1, <1>4, <1>5

(* The effect of zincrby is sound.                                          *)
LEMMA zincrbySound ==
  ASSUME SoundStore, NEW s \in Slots, NEW db, NEW a, s = <<db, a.key>>,
         a.member \in Elements, a.delta \in Scores
  PROVE  SoundEffect(zincrby(db, a))
<1> DEFINE z == ZSetAt(s)
           old == IF a.member \in DOMAIN z THEN z[a.member] ELSE 0
           new == With(z, One(a.member, AddScores(old, a.delta)))
<1>1. SoundEffect(Reads({s}))
  BY ShapesSound, GoneSound, ZenonT(40)
<1>2. ASSUME ~TypeError(s, "zset")
      PROVE  /\ SoundEffect(deleteIfEmpty(s, MakeZSet(z), FALSE))
             /\ SoundEffect(ReadsThenWrites(s, Updated(s, MakeZSet(new))))
  <2>1. z \in Maps(Elements, Scores)
    BY <1>2, FoundParts
  <2>2. SoundEffect(deleteIfEmpty(s, MakeZSet(z), FALSE))
    BY <1>2, <2>1, ZSetKept, ZenonT(40)
  <2>3. z \in [DOMAIN z -> Scores]
    BY <2>1, MapsMembers, ZenonT(40)
  <2> HIDE DEF z
  <2>4. old \in Scores
    BY <2>3, UnitScores
  <2> HIDE DEF old
  <2>5. AddScores(old, a.delta) \in Scores
    BY <2>4, ScoreTypes, ZenonT(40)
  <2>6. One(a.member, AddScores(old, a.delta)) \in Maps(Elements, Scores)
    BY <2>5, SingleMap, ZenonT(40)
  <2>7. new \in Maps(Elements, Scores)
    BY <2>1, <2>6, MergeMaps, ZenonT(40)
  <2>8. DOMAIN new # {}
    BY DEF With, One
  <2> HIDE DEF new
  <2>9. MakeZSet(new) \in Value /\ ~IsEmpty(MakeZSet(new))
    BY <2>7, <2>8, MakeTypes, ZenonT(40)
  <2>10. SoundEffect(ReadsThenWrites(s, Updated(s, MakeZSet(new))))
    BY <2>9, UpdatedSound, ShapesSound, ZenonT(40)
  <2> QED
    BY <2>2, <2>10, ZenonT(40)
<1> QED
  BY <1>1, <1>2, ZenonT(40) DEF zincrby

(* The effect of zmpop is sound.                                            *)
LEMMA zmpopSound ==
  ASSUME SoundStore, NEW db \in Dbs, NEW a, a.keys \in Seq(Names)
  PROVE  SoundEffect(zmpop(db, a))
<1> DEFINE slots == [i \in DOMAIN a.keys |-> <<db, a.keys[i]>>]
           looked == Gathered(slots, {i \in DOMAIN slots : Exists(slots[i])})
           hit == {s \in looked : Exists(s) /\ ~NotZSet(s)}
           t == CHOOSE x \in hit : TRUE
           left == MakeZSet(Without(ZSetAt(t), Extremes(ZSetAt(t), a.lowest, a.count)))
<1>1. \A i \in DOMAIN slots : slots[i] \in Slots
  BY GatheredSlots
<1>2. looked \in SUBSET Slots
  <2> SUFFICES ASSUME NEW x \in looked PROVE x \in Slots
    BY ZenonT(40)
  <2>1. PICK i \in DOMAIN slots : x = slots[i]
    BY ZenonT(40) DEF Gathered
  <2> QED
    BY <1>1, <2>1, ZenonT(40)
<1>3. SoundEffect(Reads(looked))
  BY <1>2, ReadsSound, ZenonT(40)
<1>4. ASSUME hit # {}
      PROVE  SoundEffect(Effect(looked, One(t, UpdatedOrGone(t, left))))
  <2>1. t \in hit
    BY <1>4, ZenonT(40)
  <2>2. t \in Slots /\ ~TypeError(t, "zset")
    BY <1>2, <2>1, ZenonT(40) DEF NotZSet
  <2> HIDE DEF looked, t
  <2>3. Without(ZSetAt(t), Extremes(ZSetAt(t), a.lowest, a.count)) \in Maps(Elements, Scores)
    BY <2>2, FoundParts, WithoutMap, ZenonT(40)
  <2>4. left \in Value
    BY <2>3, MakeTypes, ZenonT(40)
  <2> HIDE DEF left
  <2>5. Sound(UpdatedOrGone(t, left))
    BY <2>2, <2>4, UpdatedSound, ZenonT(40)
  <2> QED
    BY <1>2, <2>2, <2>5, ShapesSound, ZenonT(40)
<1> QED
  BY <1>3, <1>4, ZenonT(40) DEF zmpop


(* A range is a part of the sorted set.                                     *)
LEMMA collectRangePart ==
  ASSUME NEW z, NEW r, r.by \in {"rank", "score", "lex"}
  PROVE  collectRange(z, r) \subseteq DOMAIN z
<1> DEFINE base == CASE r.by = "rank" -> DOMAIN z
                     [] r.by = "score" -> rangeByScore(z, r)
                     [] r.by = "lex" -> rangeByLex(z, r)
<1>1. rangeByScore(z, r) \subseteq DOMAIN z /\ rangeByLex(z, r) \subseteq DOMAIN z
  BY DEF rangeByScore, rangeByLex
<1>2. base \subseteq DOMAIN z
  BY <1>1
<1>3. collectRange(z, r) \subseteq base
  BY DEF collectRange
<1> QED
  BY <1>2, <1>3, ZenonT(40)

(* The effect of zrangestore is sound.                                      *)
LEMMA zrangestoreSound ==
  ASSUME SoundStore, NEW src \in Slots, NEW dst \in Slots, NEW db, NEW a,
         src = <<db, a.key>>, dst = <<db, a.dst>>, a.range.by \in {"rank", "score", "lex"}
  PROVE  SoundEffect(zrangestore(db, a))
<1> DEFINE z == ZSetAt(src)
           part == Restrict(z, collectRange(z, a.range))
<1>1. SoundEffect(Reads({src}))
  BY ShapesSound, GoneSound, ZenonT(40)
<1>2. ASSUME ~TypeError(src, "zset")
      PROVE  SoundEffect(StoreResult({src}, dst, MakeZSet(part)))
  <2>1. z \in Maps(Elements, Scores)
    BY <1>2, FoundParts
  <2>2. collectRange(z, a.range) \subseteq DOMAIN z
    BY collectRangePart
  <2>3. part \in Maps(Elements, Scores)
    BY <2>1, <2>2, RestrictMap, ZenonT(40)
  <2> HIDE DEF part
  <2>4. MakeZSet(part) \in Value
    BY <2>3, MakeTypes, ZenonT(40)
  <2>5. {src} \in SUBSET Slots
    OBVIOUS
  <2> QED
    BY <2>4, <2>5, StoreResultSound, ZenonT(40)
<1> QED
  BY <1>1, <1>2, ZenonT(40) DEF zrangestore

(* A source of ZUNION, set or sorted set, is a map to scores.               *)
LEMMA SourceAtType ==
  ASSUME SoundStore, NEW s \in Slots, ~NotSource(s)
  PROVE  SourceAt(s) \in Maps(Elements, Scores)
<1>1. CASE Exists(s) /\ Found(s).val.type = "set"
  <2>1. Found(s).val.set \in SUBSET Elements
    BY <1>1, FoundSound, ValueParts, ZenonT(40)
  <2>2. SourceAt(s) = [m \in Found(s).val.set |-> 1]
    BY <1>1, ZenonT(40) DEF SourceAt
  <2>3. SourceAt(s) \in [Found(s).val.set -> Scores]
    BY <2>2, UnitScores
  <2> QED
    BY <2>1, <2>3 DEF Maps
<1>2. CASE ~(Exists(s) /\ Found(s).val.type = "set")
  <2>1. ~TypeError(s, "zset") /\ SourceAt(s) = ZSetAt(s)
    BY <1>2 DEF NotSource, TypeError, SourceAt
  <2> QED
    BY <2>1, FoundParts, ZenonT(40)
<1> QED
  BY <1>1, <1>2, ZenonT(40)

(* ZUNION, ZINTER and ZDIFF return a map to scores.                         *)
LEMMA applyZSetOpType ==
  ASSUME NEW f \in Maps(Elements, Scores), NEW g \in Maps(Elements, Scores),
         NEW kind \in {"inter", "union", "diff"}, NEW how \in {"sum", "min", "max"},
         NEW w \in Scores
  PROVE  /\ applyZSetOp(kind, f, g, how) \in Maps(Elements, Scores)
         /\ Scaled(f, w) \in Maps(Elements, Scores)
<1> DEFINE both == [m \in DOMAIN f \cap DOMAIN g |-> aggregateScores(how, f[m], g[m])]
<1>1. /\ DOMAIN f \subseteq Elements /\ f \in [DOMAIN f -> Scores]
      /\ DOMAIN g \subseteq Elements /\ g \in [DOMAIN g -> Scores]
  BY MapsMembers, ZenonT(40)
<1>2. \A m \in DOMAIN f \cap DOMAIN g : aggregateScores(how, f[m], g[m]) \in Scores
  BY <1>1, ScoreTypes
<1>3. both \in [DOMAIN f \cap DOMAIN g -> Scores] /\ DOMAIN f \cap DOMAIN g \subseteq Elements
  BY <1>1, <1>2
<1> HIDE DEF both
<1>4. both \in Maps(Elements, Scores)
  BY <1>3 DEF Maps
<1>5. /\ With(With(f, g), both) \in Maps(Elements, Scores)
      /\ Without(f, DOMAIN g) \in Maps(Elements, Scores)
  BY <1>4, MergeMaps, WithoutMap, ZenonT(40)
<1>6. applyZSetOp(kind, f, g, how) \in Maps(Elements, Scores)
  BY <1>4, <1>5 DEF applyZSetOp, both
<1>7. Scaled(f, w) \in [DOMAIN f -> Scores]
  BY <1>1, ScoreTypes DEF Scaled
<1>8. Scaled(f, w) \in Maps(Elements, Scores)
  BY <1>1, <1>7 DEF Maps
<1> QED
  BY <1>6, <1>8, ZenonT(40)


(* The effect of zsetOp is sound.                                           *)
LEMMA zsetOpSound ==
  ASSUME SoundStore, NEW db \in Dbs, NEW a, a.keys \in Seq(Names) \ {<< >>}, a.dst \in Names,
         a.kind \in {"inter", "union", "diff"}, a.how \in {"sum", "min", "max"},
         a.weights \in Seq(Scores), Len(a.weights) = Len(a.keys), Len(a.keys) <= MaxSources
  PROVE  SoundEffect(zsetOpCommand(db, a))
<1> DEFINE slots == [i \in DOMAIN a.keys |-> <<db, a.keys[i]>>]
           looked == Gathered(slots, {i \in DOMAIN slots : NotSource(slots[i])})
           source(i) == IF a.kind = "diff" THEN SourceAt(slots[i])
                        ELSE Scaled(SourceAt(slots[i]), a.weights[i])
           result == IF Len(a.keys) = 1 THEN source(1)
                     ELSE applyZSetOp(a.kind, source(1), source(2), a.how)
<1>1. \A i \in DOMAIN slots : slots[i] \in Slots
  BY GatheredSlots
<1>2. looked \in SUBSET Slots
  <2> SUFFICES ASSUME NEW x \in looked PROVE x \in Slots
    BY ZenonT(40)
  <2>1. PICK i \in DOMAIN slots : x = slots[i]
    BY ZenonT(40) DEF Gathered
  <2> QED
    BY <1>1, <2>1, ZenonT(40)
<1>3. SoundEffect(Reads(looked))
  BY <1>2, ReadsSound, ZenonT(40)
<1>4. ASSUME ~(\E i \in DOMAIN slots : NotSource(slots[i]))
      PROVE  SoundEffect(StoreResult(looked, <<db, a.dst>>, MakeZSet(result)))
  <2>1. DOMAIN a.keys = 1 .. Len(a.keys) /\ Len(a.keys) \in {1, 2} /\ DOMAIN slots = DOMAIN a.keys
    <3>1. Len(a.keys) \in Nat \ {0} /\ DOMAIN a.keys = 1 .. Len(a.keys)
      OBVIOUS
    <3>2. \A n \in Nat \ {0} : n <= 2 => n \in {1, 2}
      OBVIOUS
    <3>3. Len(a.keys) \in {1, 2}
      BY <3>1, <3>2, ZenonT(40) DEF MaxSources
    <3> QED
      BY <3>1, <3>3, ZenonT(40)
  <2>2. \A i \in DOMAIN slots : SourceAt(slots[i]) \in Maps(Elements, Scores)
    BY <1>1, <1>4, SourceAtType, ZenonT(40)
  <2>3. \A i \in DOMAIN slots : a.weights[i] \in Scores
    BY <2>1
  <2> HIDE DEF slots, looked
  <2>4. \A i \in DOMAIN slots : source(i) \in Maps(Elements, Scores)
    BY <2>2, <2>3, applyZSetOpType, ZenonT(40)
  <2>5. 1 \in DOMAIN slots /\ (Len(a.keys) # 1 => 2 \in DOMAIN slots)
    <3>1. 1 \in 1 .. 1 /\ 1 \in 1 .. 2 /\ 2 \in 1 .. 2
      OBVIOUS
    <3> QED
      BY <2>1, <3>1, ZenonT(40)
  <2> HIDE DEF source
  <2>6. result \in Maps(Elements, Scores)
    BY <2>4, <2>5, UnitScores, applyZSetOpType, ZenonT(40)
  <2> HIDE DEF result
  <2>7. MakeZSet(result) \in Value
    BY <2>6, MakeTypes, ZenonT(40)
  <2>8. <<db, a.dst>> \in Slots
    BY DEF Slots
  <2> QED
    BY <1>2, <2>7, <2>8, StoreResultSound, ZenonT(40)
<1> QED
  BY <1>3, <1>4, ZenonT(40) DEF zsetOpCommand

(* What the sorted set commands store is sound.                             *)
LEMMA ZSetEffectSound ==
  ASSUME SoundStore, NEW db \in Dbs, NEW a \in ZSetArgs
  PROVE  SoundEffect(ZSetEffect(db, a))
<1> DEFINE s == <<db, a.key>>
           dst == <<db, a.dst>>
<1>1. CASE a.op = "zadd"
  <2>1. s \in Slots /\ a.updates \in Maps(Elements, Scores) /\ a.incr \in BOOLEAN
    BY <1>1 DEF ZSetArgs, Slots
  <2> QED
    BY <1>1, <2>1, zaddSound DEF ZSetEffect
<1>2. CASE a.op \in {"zrem", "zpop", "zremrange"}
  <2>1. s \in Slots
    BY <1>2 DEF ZSetArgs, Slots
  <2> QED
    BY <1>2, <2>1, zremSound DEF ZSetEffect
<1>3. CASE a.op = "zincrby"
  <2>1. s \in Slots /\ a.member \in Elements /\ a.delta \in Scores
    BY <1>3 DEF ZSetArgs, Slots
  <2> QED
    BY <1>3, <2>1, zincrbySound DEF ZSetEffect
<1>4. CASE a.op = "zmpop"
  <2>1. a.keys \in Seq(Names)
    BY <1>4 DEF ZSetArgs
  <2> QED
    BY <1>4, <2>1, zmpopSound DEF ZSetEffect
<1>5. CASE a.op = "zrangestore"
  <2>1. s \in Slots /\ dst \in Slots /\ a.range \in RangeSpec
    BY <1>5 DEF ZSetArgs, Slots
  <2>2. a.range.by \in {"rank", "score", "lex"}
    BY <2>1 DEF RangeSpec
  <2> QED
    BY <1>5, <2>1, <2>2, zrangestoreSound DEF ZSetEffect
<1>6. CASE a.op = "zsetop"
  <2>1. /\ a.keys \in Seq(Names) \ {<< >>} /\ a.dst \in Names
        /\ a.kind \in {"inter", "union", "diff"} /\ a.how \in {"sum", "min", "max"}
        /\ a.weights \in Seq(Scores) /\ Len(a.weights) = Len(a.keys) /\ Len(a.keys) <= MaxSources
    BY <1>6 DEF ZSetArgs
  <2> QED
    BY <1>6, <2>1, zsetOpSound DEF ZSetEffect
<1> QED
  BY <1>1, <1>2, <1>3, <1>4, <1>5, <1>6 DEF ZSetArgs

(* What any command stores is sound.                                        *)
LEMMA CommandEffectSound ==
  ASSUME SoundStore, now \in Int, NEW db \in Dbs, NEW a \in CommandArgs
  PROVE  /\ SoundEffect(CommandEffect(db, a))
         /\ a.op \in CommandOps
<1>1. CASE a \in StringArgs
  <2>1. a.op \in StringOps
    BY <1>1, ZenonT(40) DEF StringArgs, StringOps
  <2>2. a.op \notin KeyOps \cup CollectionOps \cup ZSetOps
    BY <2>1 DEF StringOps, KeyOps, CollectionOps, ZSetOps
  <2> QED
    BY <1>1, <2>1, <2>2, StringEffectSound DEF CommandEffect, CommandOps
<1>2. CASE a \in KeyArgs
  <2>1. a.op \in KeyOps /\ a.op \notin StringOps \cup CollectionOps \cup ZSetOps
    BY <1>2 DEF KeyArgs, StringOps, KeyOps, CollectionOps, ZSetOps
  <2> QED
    BY <1>2, <2>1, KeyEffectSound DEF CommandEffect, CommandOps
<1>3. CASE a \in CollectionArgs
  <2>1. a.op \in CollectionOps /\ a.op \notin StringOps \cup KeyOps \cup ZSetOps
    BY <1>3 DEF CollectionArgs, StringOps, KeyOps, CollectionOps, ZSetOps
  <2> QED
    BY <1>3, <2>1, CollectionEffectSound DEF CommandEffect, CommandOps
<1>4. CASE a \in ZSetArgs
  <2>1. a.op \in ZSetOps /\ a.op \notin StringOps \cup KeyOps \cup CollectionOps
    BY <1>4 DEF ZSetArgs, StringOps, KeyOps, CollectionOps, ZSetOps
  <2> QED
    BY <1>4, <2>1, ZSetEffectSound DEF CommandEffect, CommandOps
<1> QED
  BY <1>1, <1>2, <1>3, <1>4 DEF CommandArgs


=============================================================================

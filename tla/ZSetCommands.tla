---------------------------- MODULE ZSetCommands ----------------------------
(***************************************************************************)
(* The handlers of zset_commands.cpp.  A sorted set maps its members to    *)
(* scores; its order is by score and then by member.                       *)
(***************************************************************************)
EXTENDS CollectionCommands

(***************************************************************************)
(* Scores: doubles, of which the two infinities and what sums and products *)
(* with them yield are kept.                                               *)
(***************************************************************************)

Infinite(x) == x = Inf \/ x = -Inf
Clamp(n) == CASE n > Inf -> Inf [] n < -Inf -> -Inf [] OTHER -> n

(* The sum is not a number: parseScore accepts both infinities.             *)
SumIsNaN(x, y) == Infinite(x) /\ y = -x
AddScores(x, y) == CASE Infinite(x) -> x [] Infinite(y) /\ ~Infinite(x) -> y [] OTHER -> Clamp(x + y)

(* weighted: zero times infinity counts as zero.                            *)
weighted(score, weight) ==
  CASE score = 0 \/ weight = 0 -> 0
    [] OTHER -> IF (Infinite(score) \/ Infinite(weight)) /\ score * weight > 0 THEN Inf
                ELSE IF Infinite(score) \/ Infinite(weight) THEN -Inf
                ELSE Clamp(score * weight)

aggregateScores(how, x, y) ==
  CASE how = "sum" -> IF SumIsNaN(x, y) THEN 0 ELSE AddScores(x, y)
    [] how = "min" -> IF y < x THEN y ELSE x
    [] how = "max" -> IF y > x THEN y ELSE x

ZSetAt(s) == IF Exists(s) THEN Found(s).val.zset ELSE [m \in {} |-> 0]

(* isBefore.                                                                *)
Before(z, m, n) == z[m] < z[n] \/ (z[m] = z[n] /\ m < n)

(* The position of m among the members M, from 0, from the end if reversed. *)
Position(z, M, m, reverse) ==
  Cardinality({n \in M : IF reverse THEN Before(z, m, n) ELSE Before(z, n, m)})

(***************************************************************************)
(* ZADD.  a.updates holds one score per member; a member given twice is    *)
(* what two calls do.                                                      *)
(***************************************************************************)

ZaddScore(z, a, m) == IF a.incr /\ m \in DOMAIN z THEN AddScores(z[m], a.updates[m]) ELSE a.updates[m]

(* The updates that NX, XX, GT and LT let pass.                             *)
ZaddTakes(z, a) ==
  {m \in DOMAIN a.updates :
     /\ ~("NX" \in a.flags /\ m \in DOMAIN z)
     /\ ~("XX" \in a.flags /\ m \notin DOMAIN z)
     /\ ~("GT" \in a.flags /\ m \in DOMAIN z /\ ZaddScore(z, a, m) <= z[m])
     /\ ~("LT" \in a.flags /\ m \in DOMAIN z /\ ZaddScore(z, a, m) >= z[m])}

zadd(db, a) ==
  LET s == <<db, a.key>>
      z == ZSetAt(s)
      taken == ZaddTakes(z, a)
      new == With(z, [m \in taken |-> ZaddScore(z, a, m)])
      nan == a.incr /\ \E m \in DOMAIN a.updates \cap DOMAIN z : SumIsNaN(z[m], a.updates[m])
      moved == \E m \in taken : m \notin DOMAIN z \/ z[m] # new[m]
  IN  IF TypeError(s, "zset") \/ ("XX" \in a.flags /\ ~Exists(s)) \/ nan
      THEN Reads({s})
      ELSE deleteIfEmpty(s, MakeZSet(new), moved \/ (a.incr /\ taken # {}))

zrem(db, a) ==
  LET s == <<db, a.key>>
      z == ZSetAt(s)
  IN  IF TypeError(s, "zset") \/ ~Exists(s)
      THEN Reads({s})
      ELSE deleteIfEmpty(s, MakeZSet(Without(z, a.members)), DOMAIN z \cap a.members # {})

(* ZINCRBY: a sum that is no number is refused after the set was created.   *)
zincrby(db, a) ==
  LET s == <<db, a.key>>
      z == ZSetAt(s)
      old == IF a.member \in DOMAIN z THEN z[a.member] ELSE 0
  IN  CASE TypeError(s, "zset") -> Reads({s})
        [] ~TypeError(s, "zset") /\ SumIsNaN(old, a.delta) -> deleteIfEmpty(s, MakeZSet(z), FALSE)
        [] OTHER -> ReadsThenWrites(s, Updated(s, MakeZSet(With(z, One(a.member, AddScores(old, a.delta))))))

(* ZPOPMIN and ZPOPMAX.                                                     *)
Extremes(z, lowest, count) == {m \in DOMAIN z : Position(z, DOMAIN z, m, ~lowest) < count}

zpopGeneric(db, a) ==
  LET s == <<db, a.key>>
      z == ZSetAt(s)
      popped == Extremes(z, a.lowest, a.count)
  IN  IF TypeError(s, "zset") \/ ~Exists(s)
      THEN Reads({s})
      ELSE deleteIfEmpty(s, MakeZSet(Without(z, popped)), popped # {})

(* ZMPOP: the first key that holds a sorted set; one of another type before *)
(* it ends the search.                                                      *)
NotZSet(s) == TypeError(s, "zset")
zmpop(db, a) ==
  LET slots == [i \in DOMAIN a.keys |-> <<db, a.keys[i]>>]
      looked == Gathered(slots, {i \in DOMAIN slots : Exists(slots[i])})
      hit == {s \in looked : Exists(s) /\ ~NotZSet(s)}
      s == CHOOSE x \in hit : TRUE
      popped == Extremes(ZSetAt(s), a.lowest, a.count)
      left == MakeZSet(Without(ZSetAt(s), popped))
  IN  IF hit = {}
      THEN Reads(looked)
      ELSE Effect(looked, One(s, UpdatedOrGone(s, left)))

(***************************************************************************)
(* Ranges.                                                                 *)
(***************************************************************************)

(* RangeSpec: ranks, scores or members, from r.min to r.max.  The infinite  *)
(* lex bounds "-" and "+" are bounds below and above every member.          *)
RangeSpec == [by : {"rank", "score", "lex"}, min : Int, max : Int, minEx : BOOLEAN,
              maxEx : BOOLEAN, reverse : BOOLEAN, limited : BOOLEAN, offset : Int, count : Int]

AboveMin(r, x) == IF r.minEx THEN x > r.min ELSE x >= r.min
BelowMax(r, x) == IF r.maxEx THEN x < r.max ELSE x <= r.max

(* Mutant: the member that ends the run is taken too.                       *)
rangeByLexOneMore(z, r) ==
  LET upTo(m) == {n \in DOMAIN z : n = m \/ Before(z, n, m)}
      begun(m) == \E n \in upTo(m) : AboveMin(r, n)
  IN  {m \in DOMAIN z : begun(m) /\ \A n \in upTo(m) \ {m} : begun(n) => BelowMax(r, n)}

(* rangeByLex: the run that begins at the first member above the minimum    *)
(* and ends before the first from there that is above the maximum.          *)
rangeByLex(z, r) ==
  LET upTo(m) == {n \in DOMAIN z : n = m \/ Before(z, n, m)}
      begun(m) == \E n \in upTo(m) : AboveMin(r, n)
  IN  {m \in DOMAIN z : begun(m) /\ \A n \in upTo(m) : begun(n) => BelowMax(r, n)}

rangeByScore(z, r) == {m \in DOMAIN z : AboveMin(r, z[m]) /\ BelowMax(r, z[m])}

(* collectRange: LIMIT counts along the range, in its direction.            *)
collectRange(z, r) ==
  LET base == CASE r.by = "rank" -> DOMAIN z
                [] r.by = "score" -> rangeByScore(z, r)
                [] r.by = "lex" -> rangeByLex(z, r)
      n == Cardinality(base)
      at(m) == Position(z, base, m, r.reverse)
  IN  CASE r.by = "rank" -> {m \in base : FirstOf(r.min, n) <= at(m) /\ at(m) <= LastOf(r.max, n)}
        [] r.by # "rank" /\ r.limited ->
             {m \in base : 0 <= r.offset /\ r.offset <= at(m) /\ (r.count < 0 \/ at(m) < r.offset + r.count)}
        [] OTHER -> base

(* ZREMRANGEBYRANK, ZREMRANGEBYSCORE and ZREMRANGEBYLEX.                    *)
zremrange(db, a) ==
  LET s == <<db, a.key>>
      z == ZSetAt(s)
      removed == collectRange(z, a.range)
  IN  IF TypeError(s, "zset") \/ ~Exists(s)
      THEN Reads({s})
      ELSE deleteIfEmpty(s, MakeZSet(Without(z, removed)), removed # {})

zrangestore(db, a) ==
  LET src == <<db, a.key>>
      z == ZSetAt(src)
  IN  IF TypeError(src, "zset")
      THEN Reads({src})
      ELSE StoreResult({src}, <<db, a.dst>>, MakeZSet(Restrict(z, collectRange(z, a.range))))

(***************************************************************************)
(* Set operations on one or two sorted sets (or plain sets, whose members  *)
(* have score 1): the aggregate of more is the aggregate of the first ones *)
(* with the next.                                                          *)
(***************************************************************************)

MaxSources == 2

NotSource(s) == Exists(s) /\ Found(s).val.type \notin {"zset", "set"}
SourceAt(s) ==
  IF Exists(s) /\ Found(s).val.type = "set" THEN [m \in Found(s).val.set |-> 1] ELSE ZSetAt(s)

Scaled(f, weight) == [m \in DOMAIN f |-> weighted(f[m], weight)]

applyZSetOp(kind, f, g, how) ==
  LET both == [m \in DOMAIN f \cap DOMAIN g |-> aggregateScores(how, f[m], g[m])] IN
  CASE kind = "union" -> With(With(f, g), both)
    [] kind = "inter" -> both
    [] kind = "diff"  -> Without(f, DOMAIN g)

(* ZUNION, ZINTER, ZDIFF, ZINTERCARD and the STORE variants.  ZDIFF takes   *)
(* no weights.  a.ok says that the options after the keys were good, which  *)
(* is asked once the keys were looked up.                                   *)
zsetOpCommand(db, a) ==
  LET slots == [i \in DOMAIN a.keys |-> <<db, a.keys[i]>>]
      looked == Gathered(slots, {i \in DOMAIN slots : NotSource(slots[i])})
      source(i) == IF a.kind = "diff" THEN SourceAt(slots[i]) ELSE Scaled(SourceAt(slots[i]), a.weights[i])
      result == IF Len(a.keys) = 1 THEN source(1) ELSE applyZSetOp(a.kind, source(1), source(2), a.how)
  IN  IF (\E i \in DOMAIN slots : NotSource(slots[i])) \/ ~a.ok \/ ~a.store
      THEN Reads(looked)
      ELSE StoreResult(looked, <<db, a.dst>>, MakeZSet(result))

ZaddFlags == {{}, {"NX"}, {"XX"}, {"GT"}, {"LT"}, {"XX", "GT"}, {"XX", "LT"}}

ZSetOps == {"zadd", "zrem", "zincrby", "zpop", "zmpop", "zremrange", "zrangestore", "zsetop"}

ZSetArgs ==
  {a \in [op : {"zadd"}, key : Names, updates : Maps(Elements, Scores), flags : ZaddFlags, incr : BOOLEAN] :
     DOMAIN a.updates # {} /\ (a.incr => \A m, n \in DOMAIN a.updates : m = n)}
  \cup [op : {"zrem"}, key : Names, members : SUBSET Elements]
  \cup [op : {"zincrby"}, key : Names, member : Elements, delta : Scores]
  \cup [op : {"zpop"}, key : Names, count : Nat, lowest : BOOLEAN]
  \cup [op : {"zmpop"}, keys : Seq(Names), count : Nat \ {0}, lowest : BOOLEAN]
  \cup [op : {"zremrange"}, key : Names, range : {r \in RangeSpec : ~r.reverse /\ ~r.limited}]
  \cup [op : {"zrangestore"}, key : Names, dst : Names, range : RangeSpec]
  \cup {a \in [op : {"zsetop"}, kind : {"inter", "union", "diff"}, keys : Seq(Names) \ {<< >>},
               weights : Seq(Scores), how : {"sum", "min", "max"}, dst : Names, store : BOOLEAN,
               ok : BOOLEAN] :
          Len(a.keys) <= MaxSources /\ Len(a.weights) = Len(a.keys)}

ZSetEffect(db, a) ==
  CASE a.op = "zadd"        -> zadd(db, a)
    [] a.op = "zrem"        -> zrem(db, a)
    [] a.op = "zincrby"     -> zincrby(db, a)
    [] a.op = "zpop"        -> zpopGeneric(db, a)
    [] a.op = "zmpop"       -> zmpop(db, a)
    [] a.op = "zremrange"   -> zremrange(db, a)
    [] a.op = "zrangestore" -> zrangestore(db, a)
    [] a.op = "zsetop"      -> zsetOpCommand(db, a)

=============================================================================

--------------------------- MODULE StringCommands ---------------------------
(***************************************************************************)
(* The handlers of src/server/commands/string_commands.cpp, as effects of  *)
(* an argument record on the keyspace of database db.  A call that fails   *)
(* before it looks anything up has no effect and no record.                *)
(***************************************************************************)
EXTENDS Keyspace

(* EX/PX are "rel", EXAT/PXAT "abs".  No option, KEEPTTL and PERSIST carry  *)
(* no number.                                                               *)
TtlKinds == {"none", "keep", "persist", "rel", "abs"}
Ttl == [kind : TtlKinds, n : Int]

SetsDeadline(t) == t.kind \in {"rel", "abs"}

(* parseExpireToken: the sum with the clock is not guarded.                 *)
parseExpireToken(t) == IF t.kind = "rel" THEN Wrap(now + t.n) ELSE t.n

IsString(c) == c.val # NoValue /\ c.val.type = "string"

(* ensureString: a missing key is as good as a string.                      *)
ensureString(c) == c.val = NoValue \/ IsString(c)

(* applyExpire, after overwriteValue has put v over the found content.      *)
applyExpire(c, t) ==
  CASE SetsDeadline(t) -> SetExpireAt(c, parseExpireToken(t))
    [] t.kind = "keep" -> c
    [] OTHER           -> SetExpireAt(c, NoTTL)

set(db, a) ==
  LET s == <<db, a.key>>
      aborted == \/ a.get /\ ~ensureString(Found(s))
                 \/ a.cond = "NX" /\ Exists(s)
                 \/ a.cond = "XX" /\ ~Exists(s)
  IN  IF aborted
      THEN Reads({s})
      ELSE ReadsThenWrites(s, applyExpire(OverwriteValue(Found(s), MakeString(a.data)), a.ttl))

get(db, a) == Reads({<<db, a.key>>})

mget(db, a) == Reads({db} \X a.keys)

getset(db, a) ==
  LET s == <<db, a.key>> IN
  IF ~ensureString(Found(s)) THEN Reads({s}) ELSE ReadsThenWrites(s, SetKey(MakeString(a.data)))

(* Mutant: dict_.erase without the expires_.erase that goes with it.        *)
getdelKeepsDeadline(db, a) ==
  LET s == <<db, a.key>> IN
  IF ~IsString(Found(s)) THEN Reads({s}) ELSE ReadsThenWrites(s, OverwriteValue(Found(s), NoValue))

getdel(db, a) ==
  LET s == <<db, a.key>> IN
  IF ~IsString(Found(s)) THEN Reads({s}) ELSE ReadsThenWrites(s, Gone)

(* With no option GETEX is a read; a deadline that has passed is a delete;  *)
(* PERSIST changes something only if there is a deadline to drop.           *)
getex(db, a) ==
  LET s == <<db, a.key>>
      c == Found(s)
  IN  CASE ~IsString(c) -> Reads({s})
        [] IsString(c) /\ SetsDeadline(a.ttl) ->
             ReadsThenWrites(s, IF parseExpireToken(a.ttl) <= now
                                THEN Gone
                                ELSE SetExpireAt(c, parseExpireToken(a.ttl)))
        [] IsString(c) /\ a.ttl.kind = "persist" /\ c.at # NoTTL ->
             ReadsThenWrites(s, SetExpireAt(c, NoTTL))
        [] OTHER -> Reads({s})

setnx(db, a) ==
  LET s == <<db, a.key>> IN
  IF Exists(s) THEN Reads({s}) ELSE ReadsThenWrites(s, SetKey(MakeString(a.data)))

(* SETEX and PSETEX store without a lookup; a.n is positive.                *)
setexGeneric(db, a) ==
  LET s == <<db, a.key>> IN
  Effect({}, One(s, SetExpireAt(SetKey(MakeString(a.data)), Wrap(now + a.n))))

(* MSET too stores without a lookup.                                        *)
mset(db, a) == Effect({}, [s \in {db} \X a.keys |-> SetKey(MakeString(a.data[s[2]]))])

(* MSETNX looks the keys up in order, and stops at the first that exists.   *)
msetnx(db, a) ==
  LET slot(i) == <<db, a.order[i]>>
      taken == {i \in DOMAIN a.order : Exists(slot(i))}
      looked == {slot(i) : i \in {j \in DOMAIN a.order : \A k \in taken : j <= k}}
  IN  IF taken # {}
      THEN Reads(looked)
      ELSE Effect(looked, [s \in looked |-> SetKey(MakeString(a.data[s[2]]))])

(* APPEND writes into the value and keeps its TTL; a.data is the string     *)
(* that results, a.ok whether an existing string may grow to its size.      *)
append(db, a) ==
  LET s == <<db, a.key>> IN
  IF ~ensureString(Found(s)) \/ (Exists(s) /\ ~a.ok)
  THEN Reads({s})
  ELSE ReadsThenWrites(s, OverwriteValue(Found(s), MakeString(a.data)))

(* SETRANGE: a.ok says that the patch is not empty and fits.                *)
setrange(db, a) ==
  LET s == <<db, a.key>> IN
  IF ~ensureString(Found(s)) \/ ~a.ok
  THEN Reads({s})
  ELSE ReadsThenWrites(s, OverwriteValue(Found(s), MakeString(a.data)))

(* INCR, DECR, INCRBY, DECRBY and INCRBYFLOAT: a.ok says that the old value *)
(* was a number and the sum did not overflow.                               *)
incrDecrBy(db, a) ==
  LET s == <<db, a.key>> IN
  IF ~ensureString(Found(s)) \/ ~a.ok
  THEN Reads({s})
  ELSE ReadsThenWrites(s, OverwriteValue(Found(s), MakeString(a.data)))

StringOps == {"set", "get", "mget", "getset", "getdel", "getex", "setnx", "setex", "mset",
              "msetnx", "append", "setrange", "incrby"}

StringArgs ==
  [op : {"set"}, key : Names, data : Data, cond : {"", "NX", "XX"}, get : BOOLEAN,
   ttl : {t \in Ttl : t.kind # "persist" /\ (t.kind = "rel" => t.n > 0)}]
  \cup [op : {"get", "getdel"}, key : Names]
  \cup [op : {"mget"}, keys : SUBSET Names]
  \cup [op : {"getset", "setnx"}, key : Names, data : Data]
  \cup [op : {"getex"}, key : Names,
        ttl : {t \in Ttl : t.kind # "keep" /\ (t.kind = "rel" => t.n > 0)}]
  \cup [op : {"setex"}, key : Names, data : Data, n : Nat \ {0}]
  \cup [op : {"mset"}, keys : SUBSET Names, data : [Names -> Data]]
  \cup [op : {"msetnx"}, order : Seq(Names), data : [Names -> Data]]
  \cup [op : {"append", "setrange", "incrby"}, key : Names, data : Data, ok : BOOLEAN]

StringEffect(db, a) ==
  CASE a.op = "set"    -> set(db, a)
    [] a.op = "get"    -> get(db, a)
    [] a.op = "mget"   -> mget(db, a)
    [] a.op = "getset" -> getset(db, a)
    [] a.op = "getdel" -> getdel(db, a)
    [] a.op = "getex"  -> getex(db, a)
    [] a.op = "setnx"  -> setnx(db, a)
    [] a.op = "setex"  -> setexGeneric(db, a)
    [] a.op = "mset"   -> mset(db, a)
    [] a.op = "msetnx" -> msetnx(db, a)
    [] a.op = "append" -> append(db, a)
    [] a.op = "setrange" -> setrange(db, a)
    [] a.op = "incrby" -> incrDecrBy(db, a)

=============================================================================

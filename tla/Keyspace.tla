------------------------------ MODULE Keyspace ------------------------------
(***************************************************************************)
(* The databases of the server (src/server/db.cpp): every slot, a database *)
(* index and a key name, holds what dict_ and expires_ hold for it.  The   *)
(* handlers of the command modules are written as effects on this state:   *)
(* the slots a handler looks up, which deletes the dead ones among them,   *)
(* and the contents it then stores, each of them announced by a keyspace   *)
(* event.                                                                  *)
(***************************************************************************)
EXTENDS Integers, FiniteSets, Sequences

CONSTANTS NumDbs,    \* how many databases the server has (Config.databases)
          Names,     \* key names
          Data,      \* the strings: string values and the values of a hash
          Elements,  \* list elements, members and fields, in bytewise order
          Inf,       \* scores are doubles: this one and its negative are infinite
          MaxMs,     \* the largest millisecond count, int64's maximum
          NoValue,   \* dict_ has no entry for the key
          NoTTL      \* expires_ has no entry for the key

Scores == -Inf .. Inf

(* The functions on a part of D.                                            *)
Maps(D, R) == UNION {[F -> R] : F \in SUBSET D}

Value ==
  [type : {"string"}, str : Data]
  \cup [type : {"list"}, list : Seq(Elements)]
  \cup [type : {"set"}, set : SUBSET Elements]
  \cup [type : {"hash"}, hash : Maps(Elements, Data)]
  \cup [type : {"zset"}, zset : Maps(Elements, Scores)]

ASSUME KeyspaceAssumption ==
  /\ NumDbs \in Nat \ {0}
  /\ MaxMs \in Nat
  /\ Elements \subseteq Int
  /\ Inf \in Nat \ {0}
  /\ NoTTL \notin Int
  /\ NoValue \notin Value

VARIABLES store,  \* slot -> content
          now     \* the event loop's cached clock, Server::nowMs

keyspaceVars == <<store, now>>

Dbs == 0 .. NumDbs - 1
Slots == Dbs \X Names

Content == [val : Value \cup {NoValue}, at : Int \cup {NoTTL}]

MakeString(d) == [type |-> "string", str |-> d]
MakeList(l) == [type |-> "list", list |-> l]
MakeSet(m) == [type |-> "set", set |-> m]
MakeHash(h) == [type |-> "hash", hash |-> h]
MakeZSet(z) == [type |-> "zset", zset |-> z]

(* elementCount is zero.                                                    *)
IsEmpty(v) ==
  \/ v.type = "list" /\ v.list = << >>
  \/ v.type = "set" /\ v.set = {}
  \/ v.type = "hash" /\ DOMAIN v.hash = {}
  \/ v.type = "zset" /\ DOMAIN v.zset = {}

(* A key that neither map knows. *)
Gone == [val |-> NoValue, at |-> NoTTL]

(***************************************************************************)
(* Database's methods, on one content.                                     *)
(***************************************************************************)

(* expireIfNeeded's test: the key has a deadline and it is not in the       *)
(* future.  Whether dict_ holds the key is not asked.                       *)
Dead(c) == c.at # NoTTL /\ c.at <= now

(* lookupRead and lookupWrite: what is left of the slot once the lookup has *)
(* deleted a dead key.                                                      *)
Found(s) == IF Dead(store[s]) THEN Gone ELSE store[s]
Exists(s) == Found(s).val # NoValue

SetKey(v) == [val |-> v, at |-> NoTTL]
OverwriteValue(c, v) == [c EXCEPT !.val = v]
SetExpireAt(c, at) == [c EXCEPT !.at = at]

(* expireAtMs answers -1 for a key without a deadline, and its callers take *)
(* any negative answer for "none".                                          *)
ExpireAtMs(c) == IF c.at = NoTTL THEN -1 ELSE c.at

(* An int64 sum, wrapped as the two's complement hardware wraps it.         *)
Wrap(n) == IF n > MaxMs THEN n - 2 * (MaxMs + 1) ELSE n

(***************************************************************************)
(* Effects.                                                                *)
(***************************************************************************)

(* The slots looked up, the contents stored and the slots announced by a    *)
(* keyspace event, which is what signals their watchers.                    *)
EffectSaying(looked, writes, events) ==
  [looked |-> looked, writes |-> writes, events |-> events]

(* Most handlers announce what they write.                                  *)
Effect(looked, writes) == EffectSaying(looked, writes, DOMAIN writes)
One(s, c) == [x \in {s} |-> c]
Nothing == [x \in {} |-> Gone]
Reads(S) == Effect(S, Nothing)
ReadsThenWrites(s, c) == Effect({s}, One(s, c))

(* The keys the effect's lookups delete: what on_expired_ is called for.    *)
ExpiredBy(e) == {s \in e.looked : Dead(store[s])}

StoreAfter(e) ==
  [s \in Slots |-> CASE s \in DOMAIN e.writes -> e.writes[s]
                     [] s \in ExpiredBy(e) \ DOMAIN e.writes -> Gone
                     [] OTHER -> store[s]]

(***************************************************************************)
(* What the databases never hold, whatever the machine around them.        *)
(***************************************************************************)

(* No command leaves an empty list, set, hash or sorted set behind: the     *)
(* handlers that take elements out, that create before they validate and    *)
(* that store a result each have to end in deleteIfEmpty or an erase.       *)
NoEmptyCollection ==
  \A s \in Slots : store[s].val # NoValue => ~IsEmpty(store[s].val)

=============================================================================

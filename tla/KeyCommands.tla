----------------------------- MODULE KeyCommands -----------------------------
(***************************************************************************)
(* The handlers of src/server/commands/keyspace_commands.cpp, the FLUSH    *)
(* commands of server_commands.cpp and RESTORE of persist_commands.cpp.    *)
(***************************************************************************)
EXTENDS StringCommands

del(db, a) ==
  LET S == {db} \X a.keys IN
  Effect(S, [s \in {x \in S : Exists(x)} |-> Gone])

(* EXISTS, TYPE, TOUCH, TTL, EXPIRETIME: lookups only.                      *)
exists(db, a) == Reads({db} \X a.keys)

(* KEYS and SCAN look up every key that matches, a.keys.                    *)
keys(db, a) == Reads({db} \X a.keys)

(* randomKey draws until it meets a live key: a.keys are the draws before   *)
(* it.  Without a live key every key of the database is drawn, unless there *)
(* are more than the attempts allow.                                        *)
RandomKeyAttempts == 100
randomkey(db, a) ==
  LET all == {db} \X Names IN
  IF (\E s \in all : Exists(s)) \/ Cardinality({s \in all : Dead(store[s])}) > RandomKeyAttempts
  THEN Reads({db} \X a.keys)
  ELSE Reads(all)

renameGeneric(db, a) ==
  LET src == <<db, a.key>>
      dst == <<db, a.dst>>
  IN  CASE ~Exists(src) \/ src = dst -> Reads({src})
        [] Exists(src) /\ src # dst /\ a.nx /\ Exists(dst) -> Reads({src, dst})
        [] OTHER -> Effect(IF a.nx THEN {src, dst} ELSE {src},
                           [s \in {src, dst} |-> IF s = dst THEN Found(src) ELSE Gone])

(* COPY's event names the destination only.                                 *)
copy(db, a) ==
  LET src == <<db, a.key>>
      dst == <<a.db, a.dst>>
  IN  CASE src = dst -> Reads({})
        [] src # dst /\ ~Exists(src) -> Reads({src})
        [] src # dst /\ Exists(src) /\ ~a.replace /\ Exists(dst) -> Reads({src, dst})
        [] OTHER -> Effect(IF a.replace THEN {src} ELSE {src, dst}, One(dst, Found(src)))

(* EXPIRE and its variants.  The sum is guarded here, and the guard comes   *)
(* after the lookup.                                                        *)
expireGeneric(db, a) ==
  LET s == <<db, a.key>>
      overflows == a.ttl.kind = "rel" /\ a.ttl.n > MaxMs - now
      when == IF a.ttl.kind = "rel" THEN now + a.ttl.n ELSE a.ttl.n
      current == ExpireAtMs(Found(s))
      hasTtl == current >= 0
      refused == \/ "NX" \in a.opts /\ hasTtl
                 \/ "XX" \in a.opts /\ ~hasTtl
                 \/ "GT" \in a.opts /\ (~hasTtl \/ when <= current)
                 \/ "LT" \in a.opts /\ hasTtl /\ when >= current
  IN  IF ~Exists(s) \/ overflows \/ refused
      THEN Reads({s})
      ELSE ReadsThenWrites(s, IF when <= now THEN Gone ELSE SetExpireAt(Found(s), when))

persist(db, a) ==
  LET s == <<db, a.key>> IN
  IF ~Exists(s) \/ Found(s).at = NoTTL
  THEN Reads({s})
  ELSE ReadsThenWrites(s, SetExpireAt(Found(s), NoTTL))

(* FLUSHDB and FLUSHALL look nothing up: touchWatchedKeysOnFlush asks the   *)
(* raw dict_, which holds a key past its deadline too.  What the flush      *)
(* clears are the same slots: no deadline is without its key                *)
(* (NoOrphanDeadline).                                                      *)
Resident(S) == {s \in S : store[s].val # NoValue}
flushdb(db, a) == Effect({}, [s \in Resident({db} \X Names) |-> Gone])
flushall(db, a) == Effect({}, [s \in Resident(Slots) |-> Gone])

(* RESTORE: a.ttl.n = 0 is no TTL; a.ok says that the payload was good.     *)
(* What DUMP wrote is never an empty collection.                            *)
restore(db, a) ==
  LET s == <<db, a.key>>
      fresh == SetKey(a.value)
  IN  IF (Exists(s) /\ ~a.replace) \/ ~a.ok
      THEN Reads({s})
      ELSE ReadsThenWrites(s, IF a.ttl.n > 0
                              THEN SetExpireAt(fresh, parseExpireToken(a.ttl))
                              ELSE fresh)

(* The combinations of NX, XX, GT and LT that EXPIRE accepts.               *)
ExpireOpts == {{}, {"NX"}, {"XX"}, {"GT"}, {"LT"}, {"XX", "GT"}, {"XX", "LT"}}

Deadline == {t \in Ttl : SetsDeadline(t)}

KeyOps == {"del", "exists", "keys", "randomkey", "rename", "copy", "expire", "persist",
           "flushdb", "flushall", "restore"}

KeyArgs ==
  [op : {"del", "exists", "keys", "randomkey"}, keys : SUBSET Names]
  \cup [op : {"rename"}, key : Names, dst : Names, nx : BOOLEAN]
  \cup [op : {"copy"}, key : Names, dst : Names, db : Dbs, replace : BOOLEAN]
  \cup [op : {"expire"}, key : Names, ttl : Deadline, opts : ExpireOpts]
  \cup [op : {"persist"}, key : Names]
  \cup [op : {"flushdb", "flushall"}]
  \cup [op : {"restore"}, key : Names, value : {v \in Value : ~IsEmpty(v)}, replace : BOOLEAN,
        ttl : {t \in Deadline : t.n >= 0}, ok : BOOLEAN]

KeyEffect(db, a) ==
  CASE a.op = "del"       -> del(db, a)
    [] a.op = "exists"    -> exists(db, a)
    [] a.op = "keys"      -> keys(db, a)
    [] a.op = "randomkey" -> randomkey(db, a)
    [] a.op = "rename"    -> renameGeneric(db, a)
    [] a.op = "copy"      -> copy(db, a)
    [] a.op = "expire"    -> expireGeneric(db, a)
    [] a.op = "persist"   -> persist(db, a)
    [] a.op = "flushdb"   -> flushdb(db, a)
    [] a.op = "flushall"  -> flushall(db, a)
    [] a.op = "restore"   -> restore(db, a)

=============================================================================

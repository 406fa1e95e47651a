--------------------------- MODULE MCTransactions ---------------------------
(***************************************************************************)
(* Transactions on small instances.  At least one argument record of every *)
(* command is sent; the ones that may be queued are few, because every     *)
(* queue of them is a state.                                               *)
(***************************************************************************)
EXTENDS Transactions, TLC

Abs(n) == [kind |-> "abs", n |-> n]
Rel(n) == [kind |-> "rel", n |-> n]
Kind(k) == [kind |-> k, n |-> 0]
SomeData == CHOOSE d \in Data : TRUE

OnKey(k) ==
  {[op |-> "set", key |-> k, data |-> d, cond |-> "", get |-> FALSE, ttl |-> t] :
     d \in Data, t \in {Kind("none"), Kind("keep"), Rel(1), Abs(-2)}}
  \cup {[op |-> "set", key |-> k, data |-> SomeData, cond |-> x, get |-> TRUE, ttl |-> Kind("none")] :
          x \in {"NX", "XX"}}
  \cup {[op |-> o, key |-> k] : o \in {"get", "getdel", "persist"}}
  \cup {[op |-> o, key |-> k, data |-> SomeData] : o \in {"getset", "setnx"}}
  \cup {[op |-> "getex", key |-> k, ttl |-> t] : t \in {Kind("persist"), Rel(1), Abs(0)}}
  \cup {[op |-> "setex", key |-> k, data |-> SomeData, n |-> 1]}
  \cup {[op |-> o, key |-> k, data |-> SomeData, ok |-> TRUE] : o \in {"append", "setrange", "incrby"}}
  \cup {[op |-> "expire", key |-> k, ttl |-> t, opts |-> x] :
          t \in {Rel(1), Abs(0)}, x \in {{}, {"NX"}, {"XX", "GT"}}}
  \cup {[op |-> "restore", key |-> k, value |-> MakeString(SomeData), replace |-> r,
         ttl |-> Rel(1), ok |-> TRUE] : r \in BOOLEAN}
  \cup {[op |-> o, key |-> k, members |-> {e}] : o \in {"sadd", "srem"}, e \in Elements}

OnKeys ==
  {[op |-> o, keys |-> K] : o \in {"del", "exists", "keys", "mget", "randomkey"}, K \in (SUBSET Names) \ {{}}}
  \cup {[op |-> "mset", keys |-> Names, data |-> [n \in Names |-> SomeData]]}
  \cup {[op |-> "msetnx", order |-> <<k, l>>, data |-> [n \in Names |-> SomeData]] :
          k \in Names, l \in Names}
  \cup {[op |-> "rename", key |-> k, dst |-> l, nx |-> x] : k \in Names, l \in Names, x \in BOOLEAN}
  \cup {[op |-> "copy", key |-> k, dst |-> l, db |-> d, replace |-> x] :
          k \in Names, l \in Names, d \in Dbs, x \in BOOLEAN}
  \cup {[op |-> o] : o \in {"flushdb", "flushall", "unwatch"}}
  \cup {[op |-> "select", db |-> d] : d \in Dbs}

MCCommands == OnKeys \cup UNION {OnKey(k) : k \in Names}

MCQueueable ==
  {a \in MCCommands : \/ a.op = "set" /\ a.ttl = Kind("none") /\ a.cond = ""
                      \/ a.op = "unwatch" \/ a.op = "select"}

(* For two clients that both use transactions: one command of each kind of  *)
(* effect, across databases.                                                *)
FewCommands ==
  {a \in MCCommands : a.op \in {"select", "unwatch", "flushall", "sadd", "srem"}}
FewQueueable == {a \in FewCommands : a.op \in {"unwatch", "sadd"}}

(* Nothing but SET with a TTL, for the runs about expiry alone.             *)
ExpiringSets == {a \in MCCommands : a.op = "set" /\ a.ttl.kind = "rel"}

(* The longest TTL SETEX accepts.                                           *)
LongestSetex == {[op |-> "setex", key |-> k, data |-> SomeData, n |-> MaxMs] : k \in Names}

NameSymmetry == Permutations(Names)
ClientSymmetry == Permutations(Clients)

=============================================================================

----------------------------- MODULE MCCommands -----------------------------
(***************************************************************************)
(* Commands on a small instance: at least one request of every command,    *)
(* with the arguments that take its different branches.                    *)
(***************************************************************************)
EXTENDS Commands, TLC

SomeData == CHOOSE d \in Data : TRUE
Lowest == CHOOSE e \in Elements : \A f \in Elements : e <= f

Range0(by, min, max) ==
  [by |-> by, min |-> min, max |-> max, minEx |-> FALSE, maxEx |-> FALSE,
   reverse |-> FALSE, limited |-> FALSE, offset |-> 0, count |-> 0]

MCRanges ==
  {[Range0("lex", i, j) EXCEPT !.minEx = x, !.maxEx = y] :
     i \in 0 .. 3, j \in 0 .. 3, x \in BOOLEAN, y \in BOOLEAN}

Selecting ==
  {Range0("rank", 0, 0), Range0("rank", -1, 5), Range0("score", 0, Inf), Range0("lex", Lowest, Lowest)}
StoreRanges ==
  Selecting \cup {[Range0("rank", 0, 0) EXCEPT !.reverse = TRUE],
                  [Range0("score", -Inf, Inf) EXCEPT !.reverse = TRUE, !.limited = TRUE, !.count = 1],
                  [Range0("lex", 0, 3) EXCEPT !.limited = TRUE, !.offset = 1, !.count = -1]}

Lists(k) ==
  {[op |-> "push", key |-> k, elems |-> <<e>>, front |-> f, x |-> ~f] : e \in Elements, f \in BOOLEAN}
  \cup {[op |-> "push", key |-> k, elems |-> <<1, 2>>, front |-> TRUE, x |-> FALSE]}
  \cup {[op |-> "pop", key |-> k, count |-> n, front |-> (n = 1)] : n \in {0, 1, 3}}
  \cup {[op |-> "lset", key |-> k, index |-> i, elem |-> Lowest] : i \in {-1, 2}}
  \cup {[op |-> "lrem", key |-> k, count |-> n, elem |-> Lowest] : n \in {-1, 0, 1}}
  \cup {[op |-> "ltrim", key |-> k, start |-> i, stop |-> -1 - i] : i \in {0, 1}}

SetsAndHashes(k) ==
  {[op |-> o, key |-> k, members |-> M] : o \in {"sadd", "srem", "hdel", "zrem"}, M \in {{e} : e \in Elements}}
  \cup {[op |-> "hset", key |-> k, fields |-> [f \in F |-> SomeData]] : F \in {{Lowest}, Elements}}
  \cup {[op |-> "hsetnx", key |-> k, field |-> Lowest, data |-> SomeData]}
  \cup {[op |-> "hincrby", key |-> k, field |-> Lowest, data |-> SomeData, ok |-> b] : b \in BOOLEAN}

ZSets(k) ==
  {[op |-> "zadd", key |-> k, updates |-> u, flags |-> {}, incr |-> i] :
     u \in [{Lowest} -> {0, Inf}], i \in BOOLEAN}
  \cup {[op |-> "zadd", key |-> k, updates |-> u, flags |-> f, incr |-> FALSE] :
          u \in [Elements -> {0}], f \in {{}, {"NX"}, {"XX", "GT"}, {"LT"}}}
  \cup {[op |-> "zincrby", key |-> k, member |-> Lowest, delta |-> x] : x \in {-Inf, Inf}}
  \cup {[op |-> "zpop", key |-> k, count |-> n, lowest |-> (n = 1)] : n \in {1, 2}}
  \cup {[op |-> "zremrange", key |-> k, range |-> r] : r \in Selecting}

OnKey(k) ==
  {[op |-> "set", key |-> k, data |-> SomeData, cond |-> "", get |-> FALSE,
    ttl |-> [kind |-> "none", n |-> 0]],
   [op |-> "typedread", key |-> k],
   [op |-> "expire", key |-> k, ttl |-> [kind |-> "abs", n |-> 1], opts |-> {}],
   [op |-> "append", key |-> k, data |-> SomeData, ok |-> TRUE],
   [op |-> "del", keys |-> {k}]}
  \cup {[op |-> "restore", key |-> k, value |-> MakeList(<<1>>), replace |-> TRUE,
         ttl |-> [kind |-> "abs", n |-> 1], ok |-> TRUE]}
  \cup Lists(k) \cup SetsAndHashes(k) \cup ZSets(k)

Across(k, l) ==
  {[op |-> "lmove", key |-> k, dst |-> l, fromFront |-> f, toFront |-> t] : f \in BOOLEAN, t \in BOOLEAN}
  \cup {[op |-> "smove", key |-> k, dst |-> l, member |-> e] : e \in Elements}
  \cup {[op |-> "setop", kind |-> o, keys |-> <<k, l>>, dst |-> l, store |-> TRUE] :
          o \in {"inter", "union", "diff"}}
  \cup {[op |-> "setop", kind |-> "inter", keys |-> <<k, l>>, dst |-> l, store |-> FALSE]}
  \cup {[op |-> "rename", key |-> k, dst |-> l, nx |-> FALSE]}
  \cup {[op |-> "zmpop", keys |-> <<k, l>>, count |-> 1, lowest |-> TRUE]}
  \cup {[op |-> "zrangestore", key |-> k, dst |-> l, range |-> r] : r \in StoreRanges}
  \cup {[op |-> "zsetop", kind |-> o[1], keys |-> <<k, l>>, weights |-> <<-1, 0>>, how |-> o[2],
         dst |-> l, store |-> TRUE, ok |-> TRUE] :
          o \in {<<"inter", "sum">>, <<"inter", "min">>, <<"union", "max">>, <<"diff", "sum">>}}

MCRequests ==
  UNION {OnKey(k) : k \in Names} \cup UNION {Across(k, l) : k \in Names, l \in Names}

NameSymmetry == Permutations(Names)

=============================================================================

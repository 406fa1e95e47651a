--------------------------- MODULE MCCollections ---------------------------
(***************************************************************************)
(* Limits small enough to be crossed: two entries to a listpack, three to  *)
(* an intset, two small elements to a list node, a header that saturates   *)
(* at three.  Strings 1 to 4 are integers, of which 4 is wide; 5 is short  *)
(* text and 6 is too long for a compact encoding.                          *)
(*                                                                         *)
(* Short texts grow from letters, digits and a minus.  Long ones are set   *)
(* as they are:                                                            *)
(*   - integers around each width up to 64 bits, and just beyond;          *)
(*   - runs around the lengths where compression starts (20), a reference  *)
(*     takes its long form (9), a string is raw (44), a length takes two   *)
(*     bytes (64) and a backlen does (128);                                *)
(*   - blocks without repetition as long as a literal run (32), repeated   *)
(*     within a distance's low byte, beyond it and around the farthest     *)
(*     (8192);                                                             *)
(*   - lengths around the end of twelve bits and fourteen, for strings and *)
(*     for the entries that hold them;                                     *)
(*   - text that looks like the protocol.                                  *)
(* Lengths too long for a string are checked by themselves.                *)
(***************************************************************************)
EXTENDS Collections

a == 97
b == 98
Run(n) == [i \in 1 .. n |-> a]
Block(n) == [i \in 1 .. n |-> (7 * i) % 251]

Short == {<<>>, <<a>>, <<Minus>>, <<Zero>>, <<Zero + 1, Zero + 2, Zero + 8>>}

(* Around 2^7, 2^12, 2^15, 2^23, 2^31, 2^32, 2^63 and 2^64, of either sign. *)
Plus(w, n) ==
  LET carry[i \in 0 .. 8] == IF i = 0 THEN n ELSE (w[i] + carry[i - 1]) \div 256
  IN [i \in 1 .. 8 |-> (w[i] + carry[i - 1]) % 256]
Power(bits) == [i \in 1 .. 8 |-> IF i = bits \div 8 + 1 THEN 2 ^ (bits % 8) ELSE 0]

Numbers ==
  UNION {LET decimals == {Decimal[Plus(Power(bits), n)] : n \in {-1, 0, 1}}
         IN decimals \union {<<Minus>> \o d : d \in decimals} :
         bits \in {7, 12, 15, 23, 31, 32, 63}}
  \union {Decimal[Plus(Word(0), -1)], Decimal[Power(63)] \o <<Zero>>, <<Minus, Zero>>,
          <<Zero, Zero + 7>>}

Runs ==
  {before \o Run(n) \o after :
     before \in {<<>>, <<a, b>>}, after \in {<<>>, <<b>>, <<a, a, b>>},
     n \in {9, 10, 11, 12, 21, 24, 44, 61, 63, 64, 125, 126, 127}}

Repeats ==
  {Block(n) \o <<a, b, a>> \o Block(n) : n \in {10, 31, 32, 33}}
  \union {Run(20) \o Block(n) \o <<b>> \o Block(n) \o <<b, a, b>> : n \in {8, 9, 10}}
  \union {Block(20) \o Run(n) \o Block(20) : n \in {270, 8171, 8172, 8173}}
  \union {Block(21)}

Wire ==
  {<<CR, LF, CR, LF, CR>>, <<LF, Star, Zero + 1, CR, LF>>,
   <<a, CR, LF, Dollar, Zero, CR, LF, CR, LF>>}

Long == {Run(n) : n \in {4095, 4096, 16378, 16379, 16383, 16384}}

MCStrings ==
  [t \in {"hash", "set", "zset", "list", "string"} |->
     CASE t = "hash" -> {1, 2, 3, 6}
       [] t = "set" -> 1 .. 6
       [] t = "zset" -> {1, 2, 3, 6}
       [] t = "list" -> {1, 6}
       [] t = "string" ->
            UNION {Short, Numbers, Runs, Repeats, Wire, Long}]

MCScores == {1, 2}
MCScoreText(s) == 3 - s
MCSize(v) == IF v = 6 THEN 20 ELSE 1
MCBytes(v) == MCSize(v) + 2

MCBackLengths ==
  {1, 127, 128, 16383, 16384, 2097151, 2097152, 268435455, 268435456, 2147483647}
MCFileLengths ==
  {Plus(Power(bits), n) : bits \in {0, 6, 14, 32, 63}, n \in {-1, 0}} \union {Plus(Word(0), -1)}

=============================================================================

------------------------------- MODULE Codec -------------------------------
(***************************************************************************)
(* The byte formats of strings: their decimal integers                     *)
(* (src/core/encoding.cpp), the length and string encodings of an RDB file *)
(* with LZF compression (src/persist/rdb.cpp), and the entries of a        *)
(* listpack (src/core/listpack.cpp).  A string is a sequence of bytes.     *)
(*                                                                         *)
(* A number of 64 bits is a word, its eight bytes with the least           *)
(* significant one first; signed ones are in two's complement.  The length *)
(* of a string in memory is an integer.                                    *)
(***************************************************************************)
EXTENDS Integers, Sequences, FiniteSets, FiniteSetsExt

LOCAL INSTANCE SequencesExt

From(s, i) == SubSeq(s, i, Len(s))

(***************************************************************************)
(* Words.                                                                  *)
(***************************************************************************)
Words == [1 .. 8 -> 0 .. 255]
WordOf(byte(_)) == <<byte(1), byte(2), byte(3), byte(4), byte(5), byte(6), byte(7), byte(8)>>
SignByte(b) == IF b >= 128 THEN 255 ELSE 0
(* The word that a shorter run of bytes stands for, unsigned and signed.    *)
Unsigned(s) == WordOf(LAMBDA i : IF i <= Len(s) THEN s[i] ELSE 0)
Signed(s) == WordOf(LAMBDA i : IF i <= Len(s) THEN s[i] ELSE SignByte(s[Len(s)]))

Word(n) == Signed([i \in 1 .. 4 |-> (n \div 256 ^ (i - 1)) % 256])
(* The number, when it is below 2^31.                                       *)
Natural(w) == MapThenSumSet(LAMBDA i : w[i] * 256 ^ (i - 1), 1 .. 4)

Negative(w) == w[8] >= 128
Negated(w) ==
  LET low == {i \in 1 .. 8 : \A j \in 1 .. i - 1 : w[j] = 0}   \* up to the first that is not 0
  IN WordOf(LAMBDA i : IF i \in low THEN (256 - w[i]) % 256 ELSE 255 - w[i])
Magnitude(w) == IF Negative(w) THEN Negated(w) ELSE w

(* As unsigned numbers.                                                     *)
IsBelow(u, w) == \E i \in 1 .. 8 : u[i] < w[i] /\ \A j \in i + 1 .. 8 : u[j] = w[j]
(* As a signed number, w needs no more than n bytes.                        *)
Fits(w, n) == \A i \in n + 1 .. 8 : w[i] = SignByte(w[n])

(* 10 * w + digit, or TooBig beyond 64 bits; and division.                  *)
TooBig == <<>>
TimesTen(w, digit) ==
  LET carry[i \in 0 .. 8] == IF i = 0 THEN digit ELSE (10 * w[i] + carry[i - 1]) \div 256
  IN IF carry[8] = 0 THEN WordOf(LAMBDA i : (10 * w[i] + carry[i - 1]) % 256) ELSE TooBig
DividedBy[w \in Words, d \in 1 .. 255] ==
  LET left[i \in 1 .. 9] == IF i = 9 THEN 0 ELSE (256 * left[i + 1] + w[i]) % d
  IN [quotient |-> WordOf(LAMBDA i : (256 * left[i + 1] + w[i]) \div d), rest |-> left[1]]

(***************************************************************************)
(* stringToInt64 and to_string.                                            *)
(***************************************************************************)
Minus == 45
Zero == 48
Digits(s) == IF s # <<>> /\ s[1] = Minus THEN Tail(s) ELSE s
AllDigits(d) == d # <<>> /\ \A i \in DOMAIN d : d[i] - Zero \in 0 .. 9

Accumulated(d) ==
  FoldLeft(LAMBDA w, digit : IF w = TooBig THEN TooBig ELSE TimesTen(w, digit - Zero), Word(0), d)

(* From -2^63 to 2^63 - 1.                                                  *)
InInt64(s) ==
  LET acc == Accumulated(Digits(s))
  IN acc # TooBig /\ (~Negative(acc) \/ (s[1] = Minus /\ acc = Negated(acc)))

(* A canonical decimal: no leading zero, no negative zero.                  *)
IsInt(s) ==
  /\ Len(s) < 21 /\ AllDigits(Digits(s))
  /\ Digits(s)[1] = Zero => s = <<Zero>>
  /\ InInt64(s)

ToInt(s) ==
  LET acc == Accumulated(Digits(s)) IN IF s[1] = Minus THEN Negated(acc) ELSE acc

Decimal[w \in Words] ==
  LET tenth == DividedBy[w, 10]
      last == <<Zero + tenth.rest>>
  IN IF tenth.quotient = Word(0) THEN last ELSE Decimal[tenth.quotient] \o last

ToText(w) == (IF Negative(w) THEN <<Minus>> ELSE <<>>) \o Decimal[Magnitude(w)]

(***************************************************************************)
(* Lengths, words: the top two bits of the first byte choose the shape, 3  *)
(* of them marks an encoded string, 2 a wide length with its most          *)
(* significant byte first.  A read answers the value and what follows, or  *)
(* that it failed.                                                         *)
(***************************************************************************)
saveLen(w) ==
  IF w = Unsigned(<<w[1] % 64>>) THEN <<w[1]>>
  ELSE IF w = Unsigned(<<w[1], w[2] % 64>>) THEN <<64 + w[2], w[1]>>
  ELSE IF w = Unsigned(SubSeq(w, 1, 4)) THEN <<128>> \o Reverse(SubSeq(w, 1, 4))
  ELSE <<129>> \o Reverse(w)

NoLen == [ok |-> FALSE, encoded |-> FALSE, len |-> Word(0), rest |-> <<>>]
Length(encoded, bytes, rest) ==
  [ok |-> TRUE, encoded |-> encoded, len |-> Unsigned(bytes), rest |-> rest]

readLen(s) ==
  LET kind == s[1] \div 64
      wide(n) == IF Len(s) <= n THEN NoLen
                 ELSE Length(FALSE, Reverse(SubSeq(s, 2, n + 1)), From(s, n + 2))
  IN IF s = <<>> THEN NoLen
     ELSE CASE kind \in {0, 3} -> Length(kind = 3, <<s[1] % 64>>, Tail(s))
            [] kind = 1 -> IF Len(s) = 1 THEN NoLen
                           ELSE Length(FALSE, <<s[2], s[1] % 64>>, From(s, 3))
            [] s[1] = 128 -> wide(4)
            [] s[1] = 129 -> wide(8)
            [] OTHER -> NoLen

(* Reader::readRaw: n bytes, if they are there.                             *)
NoRead == [ok |-> FALSE, text |-> <<>>, rest |-> <<>>]
Read(text, rest) == [ok |-> TRUE, text |-> text, rest |-> rest]
readRaw(s, w) ==
  IF IsBelow(Word(Len(s)), w) THEN NoRead
  ELSE Read(SubSeq(s, 1, Natural(w)), From(s, Natural(w) + 1))

(***************************************************************************)
(* LZF.  Positions count from 1 and the table holds them; 0 is an empty    *)
(* slot.  A state of the compressor is the next input byte, the literals   *)
(* that wait for their control byte, the output behind them and the table. *)
(***************************************************************************)
MaxLit == 32
MaxOff == 8192
MaxRef == 264

hashIndex(in, i) ==
  (in[i] * 256 + in[i + 1] - 5 * (in[i + 1] * 256 + in[i + 2])) % 65536

SetSlot(table, k, i) == [x \in DOMAIN table \union {k} |-> IF x = k THEN i ELSE table[x]]
Slot(table, k) == IF k \in DOMAIN table THEN table[k] ELSE 1

Flushed(st) == IF st.lit = <<>> THEN st.out ELSE Append(st.out, Len(st.lit) - 1) \o st.lit
Written(st) == Len(st.out) + 1 + Len(st.lit)     \* op - out

Literal(in, st) ==
  LET lit == Append(st.lit, in[st.ip])
      full == Len(lit) = MaxLit
  IN [st EXCEPT !.ip = @ + 1,
                !.lit = IF full THEN <<>> ELSE lit,
                !.out = IF full THEN Append(@, MaxLit - 1) \o lit ELSE @]

(* How far the bytes at ref and ip agree: sixteen comparisons that do not   *)
(* look at maxlen when there is room for them, guarded ones after that.     *)
MatchLen(in, ref, ip) ==
  LET room == Len(in) - ip - 1
      maxlen == Min({room, MaxRef})
      agree(n) == in[ref + n] = in[ip + n]
      stops == {n \in 3 .. 18 : ~agree(n)}
      from == IF maxlen > 16 THEN 19 ELSE 3
      guarded == {n \in from .. Max({from, maxlen}) : n >= maxlen \/ ~agree(n)}
  IN IF maxlen > 16 /\ stops # {} THEN Min(stops) ELSE Min(guarded)

(* A back reference: the length beyond two, and the distance less one.      *)
Reference(len, off) ==
  IF len < 7 THEN <<off \div 256 + len * 32, off % 256>>
  ELSE <<off \div 256 + 7 * 32, len - 7, off % 256>>

Reindexed(in, st, ip) ==
  [st EXCEPT !.ip = ip,
             !.table = SetSlot(SetSlot(@, hashIndex(in, ip - 2), ip - 2),
                               hashIndex(in, ip - 1), ip - 1)]

(* One turn of the match loop.                                              *)
Turn(in, st, room) ==
  LET ip == st.ip
      k == hashIndex(in, ip)
      ref == Slot(st.table, k)
      seen == [st EXCEPT !.table = SetSlot(@, k, ip)]
      matches == /\ ref < ip /\ ip - ref - 1 < MaxOff /\ ref > 1
                 /\ \A n \in 0 .. 2 : in[ref + n] = in[ip + n]
      len == MatchLen(in, ref, ip) - 2
      done == [seen EXCEPT !.out = Flushed(st) \o Reference(len, ip - ref - 1),
                           !.lit = <<>>, !.ip = ip + len + 2]
  IN IF matches
     THEN IF Written(st) - (IF st.lit = <<>> THEN 1 ELSE 0) + 4 >= room
          THEN [st EXCEPT !.failed = TRUE]
          ELSE IF done.ip >= Len(in) - 1 THEN done ELSE Reindexed(in, done, done.ip)
     ELSE IF Written(st) >= room THEN [st EXCEPT !.failed = TRUE] ELSE Literal(in, seen)

RECURSIVE MatchLoop(_, _, _)
MatchLoop(in, st, room) ==
  IF st.failed \/ st.ip >= Len(in) - 1 THEN st
  ELSE MatchLoop(in, Turn(in, st, room), room)

(* The last bytes, too few for a match, are literals.                       *)
RECURSIVE Ending(_, _)
Ending(in, st) == IF st.ip > Len(in) THEN st ELSE Ending(in, Literal(in, st))

(* lzfCompress into room bytes; the empty answer is the code's 0.  Its      *)
(* callers have more than two bytes to compress.                            *)
lzfCompress(in, room) ==
  LET st == MatchLoop(in, [ip |-> 1, lit |-> <<>>, out |-> <<>>, table |-> <<>>,
                           failed |-> FALSE], room)
  IN IF st.failed \/ Written(st) + 3 > room THEN <<>> ELSE Flushed(Ending(in, st))

(* A reference may overlap what it produces, which then repeats.            *)
CopyFrom(out, ref, n) ==
  out \o [i \in 1 .. n |-> out[ref + ((i - 1) % (Len(out) + 1 - ref))]]

RECURSIVE Decompress(_, _, _)
Decompress(s, out, room) ==
  IF s = <<>> THEN out
  ELSE LET ctrl == s[1]
           long == ctrl \div 32 = 7
           len == IF long THEN 7 + s[2] ELSE ctrl \div 32
           ref == Len(out) - (ctrl % 32) * 256 - (IF long THEN s[3] ELSE s[2])
           used == IF ctrl < 32 THEN ctrl + 2 ELSE IF long THEN 3 ELSE 2
       IN IF Len(s) < used \/ Len(out) + (IF ctrl < 32 THEN ctrl + 1 ELSE len + 2) > room
          THEN <<>>
          ELSE IF ctrl < 32
          THEN Decompress(From(s, used + 1), out \o SubSeq(s, 2, ctrl + 2), room)
          ELSE IF ref < 1 THEN <<>>
          ELSE Decompress(From(s, used + 1), CopyFrom(out, ref, len + 2), room)

lzfDecompress(s, room) == Decompress(s, <<>>, room)

(***************************************************************************)
(* saveString: as an integer of at most 32 bits, compressed when that      *)
(* saves four bytes, or plain.  readString undoes it.                      *)
(***************************************************************************)
EncodedTag(tag) == <<3 * 64 + tag>>

saveIntegerEncoded(w) ==
  IF Fits(w, 1) THEN EncodedTag(0) \o SubSeq(w, 1, 1)
  ELSE IF Fits(w, 2) THEN EncodedTag(1) \o SubSeq(w, 1, 2)
  ELSE EncodedTag(2) \o SubSeq(w, 1, 4)

saveString(s) ==
  LET packed == lzfCompress(s, Len(s) - 4) IN
  IF Len(s) <= 11 /\ IsInt(s) /\ Fits(ToInt(s), 4) THEN saveIntegerEncoded(ToInt(s))
  ELSE IF Len(s) > 20 /\ packed # <<>>
  THEN EncodedTag(3) \o saveLen(Word(Len(packed))) \o saveLen(Word(Len(s))) \o packed
  ELSE saveLen(Word(Len(s))) \o s

readInteger(s, n) ==
  LET raw == readRaw(s, Word(n))
  IN IF raw.ok THEN Read(ToText(Signed(raw.text)), raw.rest) ELSE NoRead

(* Both lengths have to be plain, and the second the size of what comes out. *)
readCompressed(s) ==
  LET c == readLen(s)
      u == readLen(c.rest)
      raw == readRaw(u.rest, c.len)
      text == lzfDecompress(raw.text, Natural(u.len))
  IN IF /\ c.ok /\ ~c.encoded /\ u.ok /\ ~u.encoded /\ raw.ok
        /\ u.len # Word(0) /\ Word(Len(text)) = u.len
     THEN Read(text, raw.rest) ELSE NoRead

readString(s) ==
  LET r == readLen(s)
      tag == r.len[1]
  IN IF ~r.ok THEN NoRead
     ELSE IF ~r.encoded THEN readRaw(r.rest, r.len)
     ELSE CASE tag \in 0 .. 2 -> readInteger(r.rest, 2 ^ tag)
            [] tag = 3 -> readCompressed(r.rest)
            [] OTHER -> NoRead

(***************************************************************************)
(* A listpack entry: its encoding and data, then how long they are, in     *)
(* seven-bit groups that are read from the end.                            *)
(***************************************************************************)
encodeInteger(w) ==
  IF Fits(w, 1) /\ ~Negative(w) THEN <<w[1]>>
  ELSE IF Fits(w, 2) /\ w[2] \notin 16 .. 239 THEN <<192 + (w[2] % 32), w[1]>>   \* 13 bits
  ELSE IF Fits(w, 2) THEN <<241>> \o SubSeq(w, 1, 2)
  ELSE IF Fits(w, 3) THEN <<242>> \o SubSeq(w, 1, 3)
  ELSE IF Fits(w, 4) THEN <<243>> \o SubSeq(w, 1, 4)
  ELSE <<244>> \o w

(* An encoder that keeps twelve bits for 4096 too.                          *)
encodeStringLate(s) ==
  LET len == Word(Len(s)) IN
  IF Len(s) < 64 THEN <<128 + Len(s)>> \o s
  ELSE IF Len(s) <= 4096 THEN <<224 + (len[2] % 16), len[1]>> \o s
  ELSE <<240>> \o SubSeq(len, 1, 4) \o s
encodeString(s) ==
  LET len == Word(Len(s)) IN
  IF Len(s) < 64 THEN <<128 + Len(s)>> \o s
  ELSE IF Len(s) < 4096 THEN <<224 + (len[2] % 16), len[1]>> \o s
  ELSE <<240>> \o SubSeq(len, 1, 4) \o s

(* Every group but the most significant, which comes first, has bit 7 set.  *)
encodeBacklen(n) ==
  LET groups == Min({g \in 1 .. 5 : g = 5 \/ n < 128 ^ g})
  IN [i \in 1 .. groups |-> ((n \div 128 ^ (groups - i)) % 128) + (IF i = 1 THEN 0 ELSE 128)]

(* From the last byte back to the first without bit 7, of five at most.     *)
decodeBacklenBackwards(s) ==
  LET back(k) == s[Len(s) + 1 - k]
      ends == {k \in 1 .. Min({5, Len(s)}) : back(k) < 128}
  IN IF ends = {} THEN 0
     ELSE MapThenSumSet(LAMBDA k : (back(k) % 128) * 128 ^ (k - 1), 1 .. Min(ends))

buildEntry(s) ==
  LET payload == IF IsInt(s) THEN encodeInteger(ToInt(s)) ELSE encodeString(s)
  IN payload \o encodeBacklen(Len(payload))

(* The element at the start of s and the size of its entry, 0 when s is not *)
(* a whole entry.                                                           *)
NoElement == [size |-> 0, text |-> <<>>]

(* A string behind h bytes of encoding; its length is len, a word.          *)
StringElement(s, h, len) ==
  IF Len(s) < h \/ IsBelow(Word(Len(s) - h), len) THEN NoElement
  ELSE [size |-> h + Natural(len), text |-> SubSeq(s, h + 1, h + Natural(len))]
(* An integer in the n bytes behind the first.                              *)
IntElement(s, n) ==
  IF Len(s) < 1 + n THEN NoElement
  ELSE [size |-> 1 + n, text |-> ToText(Signed(SubSeq(s, 2, 1 + n)))]

ElementAt(s) ==
  LET e == s[1]
      raw == (e % 32) * 256 + s[2]
  IN CASE e < 128 -> [size |-> 1, text |-> ToText(Word(e))]
       [] e \in 128 .. 191 -> StringElement(s, 1, Word(e % 64))
       [] e \in 192 .. 223 ->
            IF Len(s) < 2 THEN NoElement
            ELSE [size |-> 2, text |-> ToText(Word(IF raw >= 4096 THEN raw - 8192 ELSE raw))]
       [] e \in 224 .. 239 -> StringElement(s, 2, Unsigned(<<s[2], e % 16>>))
       [] e = 240 -> StringElement(s, 5, Unsigned(SubSeq(s, 2, 5)))
       [] e \in 241 .. 243 -> IntElement(s, e - 239)
       [] e = 244 -> IntElement(s, 8)
       [] OTHER -> NoElement

decodeAt(s) ==
  LET element == ElementAt(s)
      size == element.size + Len(encodeBacklen(element.size))
  IN IF s = <<>> \/ element.size = 0 \/ Len(s) < size THEN NoElement
     ELSE [element EXCEPT !.size = size]

=============================================================================

----------------------------- MODULE Collection -----------------------------
(***************************************************************************)
(* What a value promises, whatever its encoding: a hash is a map from      *)
(* fields to values, a set a set, a sorted set a map from members to       *)
(* scores, a list a sequence, a string its bytes; what each operation does *)
(* to it and answers.  The interface is that of src/core/collections.h and *)
(* src/core/object.h.                                                      *)
(***************************************************************************)
EXTENDS Integers, Sequences, FiniteSets, Functions

CONSTANTS Strings,    \* for each type, the strings it is used with
          Scores,
          MaxLen,     \* bound on the length of a list
          MaxBytes    \* bound on the length of a string

VARIABLES type,       \* which of the five it is
          contents,   \* the map, set or sequence
          reply       \* the last operation's answer; -1 for none

avars == <<type, contents, reply>>

YesNo(b) == IF b THEN 1 ELSE 0
With(f, k, v) == [x \in DOMAIN f \union {k} |-> IF x = k THEN v ELSE f[x]]
Without(f, k) == [x \in DOMAIN f \ {k} |-> f[x]]

Becomes(c, r) == UNCHANGED type /\ reply' = r /\ contents' = c

Init ==
  /\ \/ type \in {"hash", "zset", "list"} /\ contents = <<>>
     \/ type = "set" /\ contents = {}
     \/ type = "string" /\ contents \in Strings["string"]
  /\ reply = -1

HashStep ==
  /\ type = "hash"
  /\ \E f \in Strings["hash"] :
       \/ \E v \in Strings["hash"] : Becomes(With(contents, f, v), YesNo(f \notin DOMAIN contents))
       \/ Becomes(Without(contents, f), YesNo(f \in DOMAIN contents))

SetStep ==
  /\ type = "set"
  /\ \E m \in Strings["set"] :
       \/ Becomes(contents \union {m}, YesNo(m \notin contents))
       \/ Becomes(contents \ {m}, YesNo(m \in contents))

ZSetStep ==
  /\ type = "zset"
  /\ \E m \in Strings["zset"] :
       \/ \E s \in Scores : Becomes(With(contents, m, s), YesNo(m \notin DOMAIN contents))
       \/ Becomes(Without(contents, m), YesNo(m \in DOMAIN contents))

(***************************************************************************)
(* Positions are given from either end, -1 being the last.  RemoveFirst    *)
(* drops the first n of the occurrences of v.                              *)
(***************************************************************************)
Index(l, i) == IF i >= 0 THEN i + 1 ELSE Len(l) + i + 1
Mirror(l) == [i \in DOMAIN l |-> l[Len(l) + 1 - i]]

Occurrences(l, v) == {i \in DOMAIN l : l[i] = v}
RemoveFirst(l, v, n) ==
  LET gone == {i \in Occurrences(l, v) :
                 Cardinality({j \in Occurrences(l, v) : j < i}) < n}
      rank(i) == Cardinality({j \in DOMAIN l \ gone : j <= i})
  IN [r \in 1 .. Len(l) - Cardinality(gone) |->
        l[CHOOSE i \in DOMAIN l \ gone : rank(i) = r]]

Remove(l, v, n) ==
  IF n = 0 THEN RemoveFirst(l, v, Len(l))
  ELSE IF n > 0 THEN RemoveFirst(l, v, n)
  ELSE Mirror(RemoveFirst(Mirror(l), v, -n))

Slice(l, from, to) ==
  SubSeq(l, IF Index(l, from) < 1 THEN 1 ELSE Index(l, from),
            IF Index(l, to) > Len(l) THEN Len(l) ELSE Index(l, to))

ListStep ==
  /\ type = "list"
  /\ LET n == Len(contents) IN
     \/ \E v \in Strings["list"] :
          /\ n < MaxLen
          /\ \/ Becomes(contents \o <<v>>, -1)
             \/ Becomes(<<v>> \o contents, -1)
     \/ n = 0 /\ Becomes(contents, -1)
     \/ n > 0 /\ Becomes(Tail(contents), Head(contents))
     \/ n > 0 /\ Becomes(SubSeq(contents, 1, n - 1), contents[n])
     \/ \E i \in -n - 1 .. n, v \in Strings["list"] :
          IF Index(contents, i) \in 1 .. n
          THEN Becomes([contents EXCEPT ![Index(contents, i)] = v], 1)
          ELSE Becomes(contents, 0)
     \/ \E v \in Strings["list"], c \in -n .. n :
          Becomes(Remove(contents, v, c), n - Len(Remove(contents, v, c)))
     \/ \E from, to \in -n - 1 .. n : Becomes(Slice(contents, from, to), -1)

Suffixes == {b \in Strings["string"] : Len(b) <= MaxBytes}

StringStep ==
  /\ type = "string"
  /\ \E b \in Suffixes :
       LET n == Len(contents) + Len(b) IN n <= MaxBytes /\ Becomes(contents \o b, n)

Next == HashStep \/ SetStep \/ ZSetStep \/ ListStep \/ StringStep

Spec == Init /\ [][Next]_avars

=============================================================================

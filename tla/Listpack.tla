------------------------------ MODULE Listpack ------------------------------
(***************************************************************************)
(* The listpack (src/core/listpack.cpp) as a value: its elements, and the  *)
(* 16-bit count in its header, which saturates.  Indexes count from 0, as  *)
(* in the code, and NoIndex is its nullopt.  What the bytes of an element  *)
(* are is the subject of Codec; Bytes(v) is how many there are.            *)
(***************************************************************************)
EXTENDS Integers, Sequences, FiniteSets, FiniteSetsExt

CONSTANTS MaxInlineCount,   \* kListpackMaxInlineCount, 65535
          Bytes(_)          \* the size of the entry that buildEntry makes

NoIndex == -1

NewListpack == [elems |-> <<>>, count |-> 0]

(* A count that believes its header.                                        *)
numElementsStored(lp) == lp.count

(* A saturated header is not believed: the elements are counted.            *)
numElements(lp) ==
  IF lp.count < MaxInlineCount THEN lp.count ELSE Len(lp.elems)

totalBytes(lp) ==
  MapThenSumSet(LAMBDA i : Bytes(lp.elems[i]), DOMAIN lp.elems) + 7

Counted(lp) == IF lp.count < MaxInlineCount THEN lp.count + 1 ELSE lp.count

append(lp, v) == [elems |-> Append(lp.elems, v), count |-> Counted(lp)]

insertAt(lp, index, v) ==
  IF index > Len(lp.elems) THEN lp
  ELSE [elems |-> SubSeq(lp.elems, 1, index) \o <<v>>
                    \o SubSeq(lp.elems, index + 1, Len(lp.elems)),
        count |-> Counted(lp)]

replaceAt(lp, index, v) ==
  IF index >= Len(lp.elems) THEN lp ELSE [lp EXCEPT !.elems[index + 1] = v]

(* The whole range has to be there.                                         *)
eraseRange(lp, index, n) ==
  LET rest == SubSeq(lp.elems, 1, index) \o SubSeq(lp.elems, index + n + 1, Len(lp.elems))
  IN IF index + n > Len(lp.elems) THEN lp
     ELSE [elems |-> rest,
           count |-> IF lp.count < MaxInlineCount
                     THEN Max({lp.count - n, 0})
                     ELSE Min({Len(rest), MaxInlineCount})]

(* The first element equal to v among those at start, start + step, ...     *)
find(lp, v, start, step) ==
  LET hits == {i \in start .. Len(lp.elems) - 1 :
                 (i - start) % step = 0 /\ lp.elems[i + 1] = v}
  IN IF hits = {} THEN NoIndex ELSE Min(hits)

=============================================================================

--------------------------- MODULE CommandsProofs ---------------------------
(***************************************************************************)
(* What any sequence of commands keeps, for any requests, names, values    *)
(* and clock.                                                              *)
(***************************************************************************)
EXTENDS Commands, CollectionProofs

(* The time that a leaf may take.                                           *)
USE SMTT(40), ZenonT(40), Z3T(40)

(* The databases are sound, and the clock is a number.                      *)
IInv == SoundStore /\ now \in Int

(* The invariant holds at first.                                            *)
LEMMA InitIInv == Init => IInv
BY GoneSound DEF Init, IInv, SoundStore

(* A command runs a sound effect.                                           *)
LEMMA RequestSound ==
  ASSUME IInv, NEW a \in Requests
  PROVE  SoundEffect(CommandEffect(0, a))
<1>1. 0 \in Dbs /\ a \in CommandArgs
  BY KeyspaceAssumption, CommandsAssumption DEF Dbs
<1> QED
  BY <1>1, CommandEffectSound DEF IInv

(* What one command does to the store.                                      *)
LEMMA CallSound ==
  ASSUME IInv, NEW a \in Requests, callCommand(a)
  PROVE  /\ IInv'
         /\ \A s \in Slots : store'[s] # store[s] => s \in announced'
<1> DEFINE e == CommandEffect(0, a)
<1>1. SoundEffect(e)
  BY RequestSound
<1>2. store' = StoreAfter(e) /\ announced' = e.events \cup ExpiredBy(e) /\ now' = now
  BY ZenonT(40) DEF callCommand
<1> HIDE DEF e
<1>3. \A s \in Slots : /\ Sound(store'[s])
                       /\ s \in e.events \/ s \in ExpiredBy(e) \/ store'[s] = store[s]
  BY <1>1, <1>2, StoreAfterSound, ZenonT(40) DEF IInv, SoundResult
<1>4. IInv'
  BY <1>2, <1>3, ZenonT(40) DEF IInv, SoundStore
<1> QED
  BY <1>2, <1>3, <1>4, ZenonT(40)

(* Time passing changes nothing but the clock.                              *)
LEMMA TickSound ==
  ASSUME IInv, Tick \/ UNCHANGED vars
  PROVE  IInv' /\ UNCHANGED store
<1>1. UNCHANGED store /\ (now' = now \/ now' = now + 1)
  BY ZenonT(40) DEF Tick, vars, keyspaceVars
<1>2. now' \in Int
  BY <1>1 DEF IInv
<1> QED
  BY <1>1, <1>2, ZenonT(40) DEF IInv, SoundStore

(* Every step keeps the invariant.                                          *)
LEMMA NextIInv == IInv /\ [Next]_vars => IInv'
BY CallSound, TickSound, ZenonT(40) DEF Next

(* Whatever is asked of the server, no key ever holds an empty collection   *)
(* (deleteIfEmpty and the STORE commands' erase).                           *)
THEOREM NoCollectionIsEmpty == Spec => []NoEmptyCollection
<1>1. IInv => NoEmptyCollection
  BY ZenonT(40) DEF IInv, SoundStore, Sound, NoEmptyCollection
<1> QED
  BY <1>1, InitIInv, NextIInv, PTL DEF Spec

(* Every change of a key is announced by notifyKeyspaceEvent, whatever the  *)
(* command and the state it meets.                                          *)
THEOREM ChangesAreAnnounced == Spec => ChangeIsAnnounced
<1>1. ASSUME IInv, [Next]_vars
      PROVE  [\A s \in Slots : store'[s] # store[s] => s \in announced']_vars
  BY <1>1, CallSound, TickSound, ZenonT(40) DEF Next
<1> QED
  BY <1>1, InitIInv, NextIInv, PTL DEF Spec, ChangeIsAnnounced

(***************************************************************************)
(* What is moved between two keys.                                         *)
(***************************************************************************)

(* What is live under a key is what a lookup finds there.                   *)
LEMMA LiveIsFound ==
  ASSUME SoundStore, NEW s \in Slots
  PROVE  /\ ~Dead(Found(s)) /\ Found(s) \in Content
         /\ LiveSet(Gone) = {} /\ LiveList(Gone) = << >>
         /\ LiveSet(Found(s)) = LiveSet(store[s]) /\ LiveList(Found(s)) = LiveList(store[s])
         /\ ~TypeError(s, "set") => LiveSet(store[s]) = SetAt(s)
         /\ ~TypeError(s, "list") => LiveList(store[s]) = ListAt(s)
<1>1. ~Dead(Gone) /\ Gone.val = NoValue
  BY DEF Dead, Gone
<1>2. ~Dead(Found(s))
  BY <1>1 DEF Found
<1>3. LiveSet(Gone) = {} /\ LiveList(Gone) = << >>
  BY <1>1 DEF LiveSet, LiveList
<1>4. LiveSet(Found(s)) = LiveSet(store[s]) /\ LiveList(Found(s)) = LiveList(store[s])
  BY <1>3, ZenonT(40) DEF Found, LiveSet, LiveList
<1>5. /\ ~TypeError(s, "set") => LiveSet(Found(s)) = SetAt(s)
      /\ ~TypeError(s, "list") => LiveList(Found(s)) = ListAt(s)
  BY <1>2 DEF LiveSet, LiveList, TypeError, Exists, SetAt, ListAt
<1> QED
  BY <1>2, <1>3, <1>4, <1>5, FoundSound DEF Sound

(* A command that only looks keys up leaves what is live.                   *)
LEMMA ReadsLeave ==
  ASSUME SoundStore, NEW S \in SUBSET Slots, NEW s \in Slots
  PROVE  /\ LiveSet(StoreAfter(Reads(S))[s]) = LiveSet(store[s])
         /\ LiveList(StoreAfter(Reads(S))[s]) = LiveList(store[s])
<1>1. Reads(S).looked = S /\ DOMAIN Reads(S).writes = {}
  BY DEF Reads, Effect, EffectSaying, Nothing
<1>2. StoreAfter(Reads(S))[s] = store[s] \/ (Dead(store[s]) /\ StoreAfter(Reads(S))[s] = Gone)
  BY <1>1 DEF StoreAfter, ExpiredBy
<1>3. Dead(store[s]) => Found(s) = Gone
  BY DEF Found
<1> QED
  BY <1>2, <1>3, LiveIsFound, ZenonT(40)

(* A value that takes the place of what a key holds.                        *)
LEMMA OverwrittenIsLive ==
  ASSUME NEW c \in Content, ~Dead(c), NEW v \in Value
  PROVE  /\ ~Dead(OverwriteValue(c, v)) /\ OverwriteValue(c, v) \in Content
         /\ v.type = "set" => LiveSet(OverwriteValue(c, v)) = v.set
         /\ v.type = "list" => LiveList(OverwriteValue(c, v)) = v.list
<1>1. OverwriteValue(c, v).at = c.at /\ OverwriteValue(c, v).val = v /\ v # NoValue
      /\ OverwriteValue(c, v) \in Content
  BY KeyspaceAssumption DEF OverwriteValue, Content
<1>2. ~Dead(OverwriteValue(c, v))
  BY <1>1 DEF Dead
<1> QED
  BY <1>1, <1>2 DEF LiveSet, LiveList

(* What a handler stores in two slots.                                      *)
LEMMA StoredInTwo ==
  ASSUME NEW src \in Slots, NEW dst \in Slots, NEW w, DOMAIN w = {src, dst}
  PROVE  StoreAfter(Effect({src, dst}, w))[src] = w[src] /\ StoreAfter(Effect({src, dst}, w))[dst] = w[dst]
<1>1. Effect({src, dst}, w).writes = w
  BY DEF Effect, EffectSaying
<1> QED
  BY <1>1 DEF StoreAfter

(* What is left of a set or a list that was changed in place.               *)
LEMMA UpdatedIsLive ==
  ASSUME SoundStore, NEW s \in Slots
  PROVE  /\ \A S \in SUBSET Elements :
              /\ LiveSet(UpdatedOrGone(s, MakeSet(S))) = S
              /\ ~Dead(UpdatedOrGone(s, MakeSet(S))) /\ UpdatedOrGone(s, MakeSet(S)) \in Content
         /\ \A l \in Seq(Elements) : /\ LiveList(UpdatedOrGone(s, MakeList(l))) = l
                                     /\ LiveList(Updated(s, MakeList(l))) = l
<1>1. ~Dead(Found(s)) /\ Found(s) \in Content /\ LiveSet(Gone) = {} /\ LiveList(Gone) = << >>
  BY LiveIsFound
<1>2. ~Dead(Gone) /\ Gone \in Content
  BY DEF Dead, Gone, Content
<1>3. ASSUME NEW S \in SUBSET Elements
      PROVE  /\ LiveSet(UpdatedOrGone(s, MakeSet(S))) = S
             /\ ~Dead(UpdatedOrGone(s, MakeSet(S))) /\ UpdatedOrGone(s, MakeSet(S)) \in Content
  <2>1. MakeSet(S) \in Value /\ (IsEmpty(MakeSet(S)) <=> S = {})
    BY MakeTypes
  <2>2. MakeSet(S).type = "set" /\ MakeSet(S).set = S
    BY DEF MakeSet
  <2> QED
    BY <1>1, <1>2, <2>1, <2>2, OverwrittenIsLive, ZenonT(40) DEF UpdatedOrGone, Updated
<1>4. ASSUME NEW l \in Seq(Elements)
      PROVE  /\ LiveList(UpdatedOrGone(s, MakeList(l))) = l
             /\ LiveList(Updated(s, MakeList(l))) = l
  <2>1. MakeList(l) \in Value /\ (IsEmpty(MakeList(l)) <=> l = << >>)
    BY MakeTypes
  <2>2. MakeList(l).type = "list" /\ MakeList(l).list = l
    BY DEF MakeList
  <2> QED
    BY <1>1, <1>2, <2>1, <2>2, OverwrittenIsLive, ZenonT(40) DEF UpdatedOrGone, Updated
<1> QED
  BY <1>3, <1>4

(* The arguments of LMOVE and SMOVE.                                        *)
LEMMA MoveArgs ==
  ASSUME NEW a \in CommandArgs, a.op \in {"lmove", "smove"}
  PROVE  /\ <<0, a.key>> \in Slots /\ <<0, a.dst>> \in Slots
         /\ a.op = "smove" => a.member \in Elements
         /\ a.op = "lmove" => a.fromFront \in BOOLEAN /\ a.toFront \in BOOLEAN
<1>1. a \notin StringArgs
  BY ZenonT(40) DEF StringArgs
<1>2. a \notin KeyArgs
  BY DEF KeyArgs
<1>3. a \notin ZSetArgs
  BY DEF ZSetArgs
<1>4. a \in CollectionArgs
  BY <1>1, <1>2, <1>3 DEF CommandArgs
<1>5. a.key \in Names /\ a.dst \in Names
      /\ (a.op = "smove" => a.member \in Elements)
      /\ (a.op = "lmove" => a.fromFront \in BOOLEAN /\ a.toFront \in BOOLEAN)
  BY <1>4 DEF CollectionArgs
<1>6. 0 \in Dbs
  BY KeyspaceAssumption DEF Dbs
<1>7. <<0, a.key>> \in Slots /\ <<0, a.dst>> \in Slots
  BY <1>5, <1>6 DEF Slots
<1> QED
  BY <1>5, <1>7, ZenonT(40)

(* SMOVE, from any sound store.                                             *)
LEMMA SmoveKeeps ==
  ASSUME SoundStore, NEW a, NEW src \in Slots, NEW dst \in Slots,
         src = <<0, a.key>>, dst = <<0, a.dst>>, a.member \in Elements
  PROVE  LET after == StoreAfter(smove(0, a))
         IN /\ LiveSet(after[src]) \cup LiveSet(after[dst]) = LiveSet(store[src]) \cup LiveSet(store[dst])
            /\ (a.member \in LiveSet(store[src]) \ LiveSet(after[src])) => a.member \in LiveSet(after[dst])
<1> DEFINE rest == SetAt(src) \ {a.member}
           left == UpdatedOrGone(src, MakeSet(rest))
           onto == IF src = dst THEN rest ELSE SetAt(dst)
           base == IF src = dst THEN left ELSE Found(dst)
           all == onto \cup {a.member}
           new == OverwriteValue(base, MakeSet(all))
           w == [s \in {src, dst} |-> IF s = dst THEN new ELSE left]
           e == smove(0, a)
<1>3. \/ e = Reads({src}) \/ e = Reads({src, dst})
      \/ /\ ~TypeError(src, "set") /\ ~TypeError(dst, "set") /\ a.member \in SetAt(src)
         /\ e = Effect({src, dst}, w)
  BY ZenonT(40) DEF smove
<1> HIDE DEF e
<1>1. CASE e = Reads({src}) \/ e = Reads({src, dst})
  <2>1. LiveSet(StoreAfter(e)[src]) = LiveSet(store[src]) /\ LiveSet(StoreAfter(e)[dst]) = LiveSet(store[dst])
    <3>1. {src} \in SUBSET Slots /\ {src, dst} \in SUBSET Slots
      BY ZenonT(40)
    <3>2. \A S \in SUBSET Slots, s \in Slots : LiveSet(StoreAfter(Reads(S))[s]) = LiveSet(store[s])
      BY ReadsLeave
    <3> HIDE DEF Slots
    <3> QED
      BY <1>1, <3>1, <3>2
  <2> QED
    BY <2>1 DEF e
<1>2. ASSUME ~TypeError(src, "set"), ~TypeError(dst, "set"), a.member \in SetAt(src),
             e = Effect({src, dst}, w)
      PROVE  /\ LiveSet(StoreAfter(e)[src]) \cup LiveSet(StoreAfter(e)[dst])
                  = LiveSet(store[src]) \cup LiveSet(store[dst])
             /\ a.member \in LiveSet(StoreAfter(e)[dst])
  <2>1. SetAt(src) \in SUBSET Elements /\ SetAt(dst) \in SUBSET Elements
    BY <1>2, FoundParts
  <2>2. LiveSet(store[src]) = SetAt(src) /\ LiveSet(store[dst]) = SetAt(dst)
    BY <1>2, LiveIsFound
  <2>3. rest \in SUBSET Elements /\ all \in SUBSET Elements
    BY <2>1
  <2>4. LiveSet(left) = rest /\ ~Dead(left) /\ left \in Content
    BY <2>3, UpdatedIsLive, ZenonT(40)
  <2>5. ~Dead(base) /\ base \in Content
    BY <2>4, LiveIsFound, ZenonT(40)
  <2>6. MakeSet(all) \in Value /\ MakeSet(all).type = "set" /\ MakeSet(all).set = all
    BY <2>3, MakeTypes DEF MakeSet
  <2> HIDE DEF left, base, all
  <2>7. LiveSet(new) = all
    BY <2>5, <2>6, OverwrittenIsLive, ZenonT(40)
  <2> HIDE DEF new
  <2>8. DOMAIN w = {src, dst} /\ w[dst] = new /\ (src # dst => w[src] = left)
    BY ZenonT(40)
  <2> HIDE DEF w
  <2>9. StoreAfter(e)[src] = w[src] /\ StoreAfter(e)[dst] = w[dst]
    <3>1. /\ StoreAfter(Effect({src, dst}, w))[src] = w[src]
          /\ StoreAfter(Effect({src, dst}, w))[dst] = w[dst]
      BY <2>8, StoredInTwo
    <3> QED
      BY <1>2, <3>1
  <2>10. LiveSet(StoreAfter(e)[dst]) = all /\ (src # dst => LiveSet(StoreAfter(e)[src]) = rest)
    BY <2>4, <2>7, <2>8, <2>9, ZenonT(40)
  <2>11. a.member \in SetAt(src) /\ (src = dst => all = SetAt(src))
         /\ (src # dst => rest \cup all = SetAt(src) \cup SetAt(dst)) /\ a.member \in all
    BY <1>2 DEF all
  <2> HIDE DEF rest
  <2>12. CASE src = dst
    BY <2>2, <2>10, <2>11, <2>12
  <2>13. CASE src # dst
    BY <2>2, <2>10, <2>11, <2>13
  <2> QED
    BY <2>12, <2>13, ZenonT(40)
<1> HIDE DEF w
<1> QED
  BY <1>1, <1>2, <1>3, ZenonT(40) DEF e

(* In every state that the commands reach SMOVE keeps the union of the two  *)
(* sets, and what it takes out of one it has put into the other.            *)
THEOREM SmoveLosesNothing == Spec => []SmoveConserves
<1>1. IInv => SmoveConserves
  <2> SUFFICES ASSUME IInv, NEW a \in SmoveRequests
               PROVE  LET after == StoreAfter(smove(0, a))
                          src == <<0, a.key>>
                          dst == <<0, a.dst>>
                      IN  /\ LiveSet(after[src]) \cup LiveSet(after[dst])
                               = LiveSet(store[src]) \cup LiveSet(store[dst])
                          /\ (a.member \in LiveSet(store[src]) \ LiveSet(after[src]))
                               => a.member \in LiveSet(after[dst])
    BY ZenonT(40) DEF SmoveConserves
  <2>1. a \in CommandArgs /\ a.op = "smove"
    BY CommandsAssumption, ZenonT(40) DEF SmoveRequests
  <2>2. <<0, a.key>> \in Slots /\ <<0, a.dst>> \in Slots /\ a.member \in Elements
    BY <2>1, MoveArgs
  <2> QED
    BY <2>2, SmoveKeeps, ZenonT(40) DEF IInv
<1> QED
  BY <1>1, InitIInv, NextIInv, PTL DEF Spec

(***************************************************************************)
(* The elements of a list, counted.                                        *)
(***************************************************************************)

Places(l, x) == {i \in DOMAIN l : l[i] = x}
Count(l, x) == Cardinality(Places(l, x))

(* The places of an element are finitely many.                              *)
LEMMA PlacesFinite ==
  ASSUME NEW l \in Seq(Elements), NEW x
  PROVE  IsFiniteSet(Places(l, x)) /\ Count(l, x) \in Nat
<1>1. Len(l) \in Nat /\ DOMAIN l = 1 .. Len(l)
  OBVIOUS
<1>2. IsFiniteSet(1 .. Len(l))
  BY <1>1, FS_Interval
<1>3. Places(l, x) \subseteq 1 .. Len(l)
  BY <1>1 DEF Places
<1>4. IsFiniteSet(Places(l, x))
  BY <1>2, <1>3, FS_Subset, ZenonT(40)
<1> QED
  BY <1>4, FS_CardinalityType, ZenonT(40) DEF Count

(* One more at the back.                                                    *)
LEMMA CountBack ==
  ASSUME NEW l \in Seq(Elements), NEW y \in Elements, NEW x
  PROVE  Count(Append(l, y), x) = Count(l, x) + IF y = x THEN 1 ELSE 0
<1> DEFINE n == Len(l) + 1
           P == Places(l, x)
<1>1. Len(l) \in Nat /\ DOMAIN l = 1 .. Len(l) /\ DOMAIN Append(l, y) = 1 .. n
      /\ Append(l, y)[n] = y /\ \A i \in 1 .. Len(l) : Append(l, y)[i] = l[i]
  OBVIOUS
<1>2. n \notin P /\ \A i \in 1 .. n : i = n \/ i \in 1 .. Len(l)
  BY <1>1 DEF Places
<1>3. \A i \in 1 .. Len(l) : i \in 1 .. n /\ i # n
  BY <1>1
<1>4. n \in 1 .. n
  BY <1>1
<1>5. Places(Append(l, y), x) = IF y = x THEN P \cup {n} ELSE P
  BY <1>1, <1>2, <1>3, <1>4, ZenonT(40) DEF Places
<1>6. IsFiniteSet(P) /\ Cardinality(P) \in Nat
  BY PlacesFinite DEF Count
<1> HIDE DEF P, n
<1>7. Cardinality(P \cup {n}) = Cardinality(P) + 1
  BY <1>2, <1>6, FS_AddElement, ZenonT(40)
<1> QED
  BY <1>5, <1>6, <1>7 DEF Count, P

(* One more at the front.                                                   *)
LEMMA CountFront ==
  ASSUME NEW l \in Seq(Elements), NEW y \in Elements, NEW x
  PROVE  Count(<<y>> \o l, x) = Count(l, x) + IF y = x THEN 1 ELSE 0
<1> DEFINE m == <<y>> \o l
           P == Places(l, x)
           Q == {i \in 2 .. Len(l) + 1 : m[i] = x}
           f == [i \in P |-> i + 1]
<1>1. Len(l) \in Nat /\ DOMAIN l = 1 .. Len(l) /\ DOMAIN m = 1 .. Len(l) + 1 /\ m[1] = y
      /\ \A i \in 1 .. Len(l) : m[i + 1] = l[i]
  OBVIOUS
<1> HIDE DEF m
<1>2. \A i \in P : i \in 1 .. Len(l) /\ l[i] = x
  BY <1>1 DEF Places
<1>3. \A i \in P : i + 1 \in Q
  BY <1>1, <1>2
<1>4. \A k \in Q : k - 1 \in P /\ k = (k - 1) + 1
  <2> SUFFICES ASSUME NEW k \in Q PROVE k - 1 \in P /\ k = (k - 1) + 1
    OBVIOUS
  <2>1. k - 1 \in 1 .. Len(l) /\ k = (k - 1) + 1 /\ m[k] = x
    BY <1>1
  <2>2. l[k - 1] = x
    BY <1>1, <2>1
  <2> QED
    BY <1>1, <2>1, <2>2 DEF Places
<1>5. f \in Bijection(P, Q)
  <2>1. f \in [P -> Q]
    BY <1>3
  <2>2. \A i, k \in P : f[i] = f[k] => i = k
    BY <1>2
  <2>3. \A k \in Q : \E i \in P : f[i] = k
    BY <1>4
  <2> HIDE DEF f, P, Q
  <2> QED
    BY <2>1, <2>2, <2>3, ZenonT(40) DEF Bijection, Injection, Surjection, IsInjective
<1>6. IsFiniteSet(P) /\ Cardinality(P) \in Nat
  BY PlacesFinite DEF Count
<1>7. IsFiniteSet(Q) /\ Cardinality(Q) = Cardinality(P)
  BY <1>5, <1>6, FS_Bijection, ZenonT(40) DEF ExistsBijection
<1>8. 1 \notin Q /\ \A i \in 1 .. Len(l) + 1 : i = 1 \/ i \in 2 .. Len(l) + 1
  BY <1>1
<1>9. \A i \in 2 .. Len(l) + 1 : i \in 1 .. Len(l) + 1
  BY <1>1
<1>10. 1 \in 1 .. Len(l) + 1
  BY <1>1
<1>11. Places(m, x) = IF y = x THEN Q \cup {1} ELSE Q
  <2>1. ASSUME NEW i PROVE i \in Places(m, x) <=> i \in Q \/ (y = x /\ i = 1)
    <3>1. i \in Places(m, x) <=> i \in 1 .. Len(l) + 1 /\ m[i] = x
      BY <1>1, ZenonT(40) DEF Places
    <3> QED
      BY <1>1, <1>8, <1>9, <1>10, <3>1, ZenonT(40)
  <2> HIDE DEF Q
  <2> QED
    BY <2>1
<1> HIDE DEF P, Q
<1>12. Cardinality(Q \cup {1}) = Cardinality(Q) + 1
  BY <1>7, <1>8, FS_AddElement, ZenonT(40)
<1> QED
  BY <1>6, <1>7, <1>11, <1>12 DEF Count, P, m

(* A list is what LMOVE takes from one of its ends, and the rest.           *)
LEMMA CountTaken ==
  ASSUME NEW l \in Seq(Elements), l # << >>, NEW b \in BOOLEAN, NEW x
  PROVE  LET item == IF b THEN Head(l) ELSE l[Len(l)]
             rest == IF b THEN Tail(l) ELSE SubSeq(l, 1, Len(l) - 1)
         IN /\ item \in Elements /\ rest \in Seq(Elements)
            /\ Count(l, x) = Count(rest, x) + IF item = x THEN 1 ELSE 0
<1> DEFINE item == IF b THEN Head(l) ELSE l[Len(l)]
           rest == IF b THEN Tail(l) ELSE SubSeq(l, 1, Len(l) - 1)
<1>1. Len(l) \in Nat /\ Len(l) >= 1
  OBVIOUS
<1>2. Head(l) \in Elements /\ Tail(l) \in Seq(Elements) /\ l = <<Head(l)>> \o Tail(l)
  BY <1>1
<1>3. l[Len(l)] \in Elements /\ SubSeq(l, 1, Len(l) - 1) \in Seq(Elements)
      /\ l = Append(SubSeq(l, 1, Len(l) - 1), l[Len(l)])
  BY <1>1
<1>4. ASSUME b
      PROVE  /\ item \in Elements /\ rest \in Seq(Elements)
             /\ Count(l, x) = Count(rest, x) + IF item = x THEN 1 ELSE 0
  <2> DEFINE y == Head(l)
             t == Tail(l)
  <2> HIDE DEF y, t
  <2>1. y \in Elements /\ t \in Seq(Elements) /\ l = <<y>> \o t
    BY <1>2 DEF y, t
  <2>2. Count(l, x) = Count(t, x) + IF y = x THEN 1 ELSE 0
    BY <2>1, CountFront
  <2>3. item = y /\ rest = t
    BY <1>4, ZenonT(40) DEF y, t
  <2> HIDE DEF item, rest
  <2> QED
    BY <2>1, <2>2, <2>3, ZenonT(40)
<1>5. ASSUME ~b
      PROVE  /\ item \in Elements /\ rest \in Seq(Elements)
             /\ Count(l, x) = Count(rest, x) + IF item = x THEN 1 ELSE 0
  <2> DEFINE y == l[Len(l)]
             t == SubSeq(l, 1, Len(l) - 1)
  <2> HIDE DEF y, t
  <2>1. y \in Elements /\ t \in Seq(Elements) /\ l = Append(t, y)
    BY <1>3, ZenonT(40) DEF y, t
  <2>2. Count(l, x) = Count(t, x) + IF y = x THEN 1 ELSE 0
    BY <2>1, CountBack
  <2>3. item = y /\ rest = t
    BY <1>5, ZenonT(40) DEF y, t
  <2> HIDE DEF item, rest
  <2> QED
    BY <2>1, <2>2, <2>3, ZenonT(40)
<1> QED
  BY <1>4, <1>5, ZenonT(40)

(* LMOVE, from any sound store.                                             *)
LEMMA LmoveKeeps ==
  ASSUME SoundStore, NEW a, NEW src \in Slots, NEW dst \in Slots, NEW x,
         src = <<0, a.key>>, dst = <<0, a.dst>>, a.fromFront \in BOOLEAN, a.toFront \in BOOLEAN
  PROVE  LET copies(st) == Copies(st[src], x) + IF src = dst THEN 0 ELSE Copies(st[dst], x)
         IN copies(StoreAfter(moveGeneric(0, a))) = copies(store)
<1> DEFINE l == ListAt(src)
           item == IF a.fromFront THEN Head(l) ELSE l[Len(l)]
           rest == IF a.fromFront THEN Tail(l) ELSE SubSeq(l, 1, Len(l) - 1)
           onto == IF src = dst THEN rest ELSE ListAt(dst)
           moved == IF a.toFront THEN <<item>> \o onto ELSE Append(onto, item)
           w == [s \in {src, dst} |-> IF s = dst THEN Updated(dst, MakeList(moved))
                                      ELSE UpdatedOrGone(src, MakeList(rest))]
           e == moveGeneric(0, a)
           copies(st) == Copies(st[src], x) + IF src = dst THEN 0 ELSE Copies(st[dst], x)
<1>1. \/ e = Reads({src}) \/ e = Reads({src, dst})
      \/ /\ ~TypeError(src, "list") /\ Exists(src) /\ ~TypeError(dst, "list")
         /\ e = Effect({src, dst}, w)
  BY ZenonT(40) DEF moveGeneric
<1>2. \A c : Copies(c, x) = Count(LiveList(c), x)
  BY ZenonT(40) DEF Copies, Count, Places
<1> HIDE DEF e
<1>3. CASE e = Reads({src}) \/ e = Reads({src, dst})
  <2>1. {src} \in SUBSET Slots /\ {src, dst} \in SUBSET Slots
    BY ZenonT(40)
  <2>2. \A S \in SUBSET Slots, s \in Slots : LiveList(StoreAfter(Reads(S))[s]) = LiveList(store[s])
    BY ReadsLeave
  <2> HIDE DEF Slots
  <2>3. LiveList(StoreAfter(e)[src]) = LiveList(store[src]) /\ LiveList(StoreAfter(e)[dst]) = LiveList(store[dst])
    BY <1>3, <2>1, <2>2
  <2>4. copies(StoreAfter(e)) = copies(store)
    BY <1>2, <2>3
  <2> QED
    BY <2>4 DEF e
<1>4. CASE /\ ~TypeError(src, "list") /\ Exists(src) /\ ~TypeError(dst, "list")
           /\ e = Effect({src, dst}, w)
  <2> DEFINE d == IF item = x THEN 1 ELSE 0
  <2>1. l \in Seq(Elements) /\ l # << >> /\ ListAt(dst) \in Seq(Elements)
    BY <1>4, FoundParts
  <2>2. LiveList(store[src]) = l /\ LiveList(store[dst]) = ListAt(dst)
    BY <1>4, LiveIsFound
  <2> HIDE DEF l
  <2>3. item \in Elements /\ rest \in Seq(Elements) /\ Count(l, x) = Count(rest, x) + d
    BY <2>1, CountTaken
  <2>4. onto \in Seq(Elements)
    BY <2>1, <2>3
  <2> HIDE DEF item, rest, onto
  <2>5. moved \in Seq(Elements) /\ Count(moved, x) = Count(onto, x) + d
    <3>1. <<item>> \o onto \in Seq(Elements) /\ Append(onto, item) \in Seq(Elements)
      BY <2>3, <2>4
    <3> QED
      BY <2>3, <2>4, <3>1, CountFront, CountBack
  <2> HIDE DEF moved, d
  <2>6. Count(l, x) \in Int /\ Count(rest, x) \in Int /\ Count(ListAt(dst), x) \in Int /\ d \in Int
    BY <2>1, <2>3, PlacesFinite DEF d
  <2>7. /\ LiveList(Updated(dst, MakeList(moved))) = moved
        /\ LiveList(UpdatedOrGone(src, MakeList(rest))) = rest
    BY <2>3, <2>5, UpdatedIsLive
  <2>8. DOMAIN w = {src, dst} /\ LiveList(w[dst]) = moved /\ (src # dst => LiveList(w[src]) = rest)
    BY <2>7, ZenonT(40)
  <2> HIDE DEF w
  <2>9. StoreAfter(e)[src] = w[src] /\ StoreAfter(e)[dst] = w[dst]
    <3>1. /\ StoreAfter(Effect({src, dst}, w))[src] = w[src]
          /\ StoreAfter(Effect({src, dst}, w))[dst] = w[dst]
      BY <2>8, StoredInTwo
    <3> QED
      BY <1>4, <3>1
  <2>10. copies(StoreAfter(e)) = copies(store)
    <3>1. CASE src = dst
      <4>1. Count(onto, x) = Count(rest, x)
        BY <3>1 DEF onto
      <4>2. copies(StoreAfter(e)) = Count(moved, x) + 0 /\ copies(store) = Count(l, x) + 0
        BY <1>2, <2>2, <2>8, <2>9, <3>1, ZenonT(40)
      <4> QED
        BY <2>3, <2>5, <4>1, <4>2
    <3>2. CASE src # dst
      <4>1. Count(onto, x) = Count(ListAt(dst), x)
        BY <3>2 DEF onto
      <4>2. /\ copies(StoreAfter(e)) = Count(rest, x) + Count(moved, x)
            /\ copies(store) = Count(l, x) + Count(ListAt(dst), x)
        BY <1>2, <2>2, <2>8, <2>9, <3>2, ZenonT(40)
      <4> QED
        BY <2>3, <2>5, <2>6, <4>1, <4>2
    <3> QED
      BY <3>1, <3>2
  <2> QED
    BY <2>10 DEF e
<1> QED
  BY <1>1, <1>3, <1>4, ZenonT(40)

(* In every state that the commands reach LMOVE keeps the number of copies  *)
(* of every element, onto the same list too and when it is refused.         *)
THEOREM LmoveLosesNothing == Spec => []LmoveConserves
<1>1. IInv => LmoveConserves
  <2> SUFFICES ASSUME IInv, NEW a \in LmoveRequests, NEW x \in Elements
               PROVE  LET src == <<0, a.key>>
                          dst == <<0, a.dst>>
                          copies(st) == Copies(st[src], x) + IF src = dst THEN 0 ELSE Copies(st[dst], x)
                      IN  copies(StoreAfter(moveGeneric(0, a))) = copies(store)
    BY ZenonT(40) DEF LmoveConserves
  <2>1. a \in CommandArgs /\ a.op = "lmove"
    BY CommandsAssumption, ZenonT(40) DEF LmoveRequests
  <2>2. <<0, a.key>> \in Slots /\ <<0, a.dst>> \in Slots /\ a.fromFront \in BOOLEAN /\ a.toFront \in BOOLEAN
    BY <2>1, MoveArgs
  <2>3. SoundStore
    BY DEF IInv
  <2> DEFINE src == <<0, a.key>>
             dst == <<0, a.dst>>
             copies(st) == Copies(st[src], x) + IF src = dst THEN 0 ELSE Copies(st[dst], x)
  <2>4. copies(StoreAfter(moveGeneric(0, a))) = copies(store)
    BY <2>2, <2>3, LmoveKeeps
  <2> QED
    BY <2>4
<1> QED
  BY <1>1, InitIInv, NextIInv, PTL DEF Spec

(* The run of rangeByLex, over members of one score.                        *)
LEMMA RunIsFilter ==
  ASSUME NEW z \in Maps(Elements, Scores), NEW r \in RangeSpec,
         \A m, n \in DOMAIN z : z[m] = z[n]
  PROVE  rangeByLex(z, r) = {m \in DOMAIN z : AboveMin(r, m) /\ BelowMax(r, m)}
<1>1. DOMAIN z \subseteq Int /\ \A m \in DOMAIN z : z[m] \in Int
  BY MapsMembers, KeyspaceAssumption DEF Scores
<1>2. r.min \in Int /\ r.max \in Int /\ r.minEx \in BOOLEAN /\ r.maxEx \in BOOLEAN
  BY DEF RangeSpec
<1>3. \A m, n \in DOMAIN z : n = m \/ Before(z, n, m) <=> n <= m
  BY <1>1 DEF Before
<1>4. \A m, n \in DOMAIN z : n <= m => /\ AboveMin(r, n) => AboveMin(r, m)
                                       /\ BelowMax(r, m) => BelowMax(r, n)
  BY <1>1, <1>2 DEF AboveMin, BelowMax
<1>5. \A m \in DOMAIN z : m <= m
  BY <1>1
<1> DEFINE upTo(m) == {n \in DOMAIN z : n = m \/ Before(z, n, m)}
           begun(m) == \E n \in upTo(m) : AboveMin(r, n)
<1>6. \A m \in DOMAIN z : begun(m) <=> AboveMin(r, m)
  BY <1>3, <1>4, <1>5, ZenonT(40)
<1>7. \A m \in DOMAIN z :
        (begun(m) /\ \A n \in upTo(m) : begun(n) => BelowMax(r, n))
          <=> AboveMin(r, m) /\ BelowMax(r, m)
  <2> SUFFICES ASSUME NEW m \in DOMAIN z
               PROVE  (begun(m) /\ \A n \in upTo(m) : begun(n) => BelowMax(r, n))
                        <=> AboveMin(r, m) /\ BelowMax(r, m)
    BY ZenonT(40)
  <2>1. m \in upTo(m) /\ \A n \in upTo(m) : n \in DOMAIN z /\ n <= m
    BY <1>3, <1>5, ZenonT(40)
  <2>2. begun(m) <=> AboveMin(r, m)
    BY <1>6, ZenonT(40)
  <2> HIDE DEF upTo, begun
  <2> QED
    BY <1>4, <2>1, <2>2, ZenonT(40)
<1>8. rangeByLex(z, r) = {m \in DOMAIN z : begun(m) /\ \A n \in upTo(m) : begun(n) => BelowMax(r, n)}
  BY ZenonT(40) DEF rangeByLex
<1> HIDE DEF upTo, begun
<1> QED
  BY <1>7, <1>8, ZenonT(40)

(* In every state that the commands reach, rangeByLex's run of neighbours   *)
(* is the filter by its bounds for every sorted set of one score.           *)
THEOREM LexRunsAreFilters == Spec => []LexRunIsFilter
<1>1. IInv => LexRunIsFilter
  <2> SUFFICES ASSUME IInv, NEW s \in Slots, store[s].val # NoValue, store[s].val.type = "zset",
                      \A m, n \in DOMAIN store[s].val.zset :
                        store[s].val.zset[m] = store[s].val.zset[n],
                      NEW r \in Ranges
               PROVE  rangeByLex(store[s].val.zset, r)
                        = {m \in DOMAIN store[s].val.zset : AboveMin(r, m) /\ BelowMax(r, m)}
    BY ZenonT(40) DEF LexRunIsFilter
  <2>1. store[s] \in Content
    BY DEF IInv, SoundStore, Sound
  <2>2. store[s].val \in Value
    BY <2>1 DEF Content
  <2>3. store[s].val.zset \in Maps(Elements, Scores)
    BY <2>2, ValueParts
  <2>4. r \in RangeSpec
    BY CommandsAssumption
  <2> QED
    BY <2>3, <2>4, RunIsFilter, ZenonT(40)
<1> QED
  BY <1>1, InitIInv, NextIInv, PTL DEF Spec

=============================================================================

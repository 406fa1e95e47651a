------------------------------ MODULE Commands ------------------------------
(***************************************************************************)
(* Commands of every family, one after another, on one database: what the  *)
(* handlers owe each other and the listeners, whatever the sequence.       *)
(***************************************************************************)
EXTENDS CommandTable

CONSTANTS Requests,  \* the argument records sent
          Ranges,    \* bound: the lexical ranges asked of a sorted set
          MaxLen,    \* bound: elements in a list
          MaxTime    \* bound: the clock

ASSUME CommandsAssumption ==
  /\ \A a \in Requests : a \in CommandArgs
  /\ Ranges \subseteq RangeSpec
  /\ MaxLen \in Nat
  /\ MaxTime \in Nat

VARIABLE announced  \* the slots the last command raised an event for

vars == <<keyspaceVars, announced>>

Init ==
  /\ store = [s \in Slots |-> Gone]
  /\ now = 0
  /\ announced = {}

(* Lists grow no longer than the bound.                                     *)
WithinBounds(e) ==
  \A s \in DOMAIN e.writes :
    (e.writes[s].val # NoValue /\ e.writes[s].val.type = "list") => Len(e.writes[s].val.list) <= MaxLen

callCommand(a) ==
  LET e == CommandEffect(0, a) IN
  /\ WithinBounds(e)
  /\ store' = StoreAfter(e)
  /\ announced' = e.events \cup ExpiredBy(e)
  /\ UNCHANGED now

Tick ==
  /\ now < MaxTime
  /\ now' = now + 1
  /\ announced' = {}
  /\ UNCHANGED store

Next == Tick \/ \E a \in Requests : callCommand(a)

Spec == Init /\ [][Next]_vars

(***************************************************************************)
(* Properties.                                                             *)
(***************************************************************************)

(* Whatever changes under a key, its value, its deadline or whether it      *)
(* exists, an event names it; events are what reaches the watchers.         *)
ChangeIsAnnounced ==
  [][\A s \in Slots : store'[s] # store[s] => s \in announced']_vars

LmoveRequests == {a \in Requests : a.op = "lmove"}
SmoveRequests == {a \in Requests : a.op = "smove"}

(* The live content of a slot.                                              *)
LiveList(c) == IF ~Dead(c) /\ c.val # NoValue /\ c.val.type = "list" THEN c.val.list ELSE << >>
Copies(c, e) == Cardinality({i \in DOMAIN LiveList(c) : LiveList(c)[i] = e})
LiveSet(c) == IF ~Dead(c) /\ c.val # NoValue /\ c.val.type = "set" THEN c.val.set ELSE {}

(* LMOVE neither loses nor duplicates an element, onto the same list, onto  *)
(* another and when it is refused for the destination's type.               *)
LmoveConserves ==
  \A a \in LmoveRequests, e \in Elements :
    LET src == <<0, a.key>>
        dst == <<0, a.dst>>
        copies(st) == Copies(st[src], e) + IF src = dst THEN 0 ELSE Copies(st[dst], e)
    IN  copies(StoreAfter(moveGeneric(0, a))) = copies(store)

(* SMOVE keeps the union of the two sets, and a member it takes out of one  *)
(* it has put into the other, also when both names are one set.             *)
SmoveConserves ==
  \A a \in SmoveRequests :
    LET after == StoreAfter(smove(0, a))
        src == <<0, a.key>>
        dst == <<0, a.dst>>
    IN  /\ LiveSet(after[src]) \cup LiveSet(after[dst]) = LiveSet(store[src]) \cup LiveSet(store[dst])
        /\ (a.member \in LiveSet(store[src]) \ LiveSet(after[src])) => a.member \in LiveSet(after[dst])

(* rangeByLex's run of neighbours is the filter by its bounds while the     *)
(* scores of the set are all the same.                                      *)
LexRunIsFilter ==
  \A s \in Slots :
    (store[s].val # NoValue /\ store[s].val.type = "zset") =>
       LET z == store[s].val.zset IN
       (\A m, n \in DOMAIN z : z[m] = z[n]) =>
          \A r \in Ranges : rangeByLex(z, r) = {m \in DOMAIN z : AboveMin(r, m) /\ BelowMax(r, m)}

=============================================================================

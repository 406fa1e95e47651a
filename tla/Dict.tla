-------------------------------- MODULE Dict --------------------------------
(***************************************************************************)
(* The hash table under the keyspace, the expiry index and the larger      *)
(* collections (src/core/dict.h): chained buckets, two tables while it     *)
(* resizes, one bucket migrated by each operation and a hundred by the     *)
(* cron; and SCAN, whose cursor survives all of this                       *)
(* (src/server/commands/keyspace_commands.cpp).                            *)
(*                                                                         *)
(* An operation is one step.  SCAN and the cron, which loop, take several, *)
(* during which "busy" says what the thread is in the middle of and        *)
(* nothing else is enabled.                                                *)
(***************************************************************************)
EXTENDS Integers, FiniteSets

CONSTANTS Keys, Hash,         \* keys and their hash values
          Width,              \* bits of a cursor, 64 in the code
          InitialSize,        \* kInitialSize, 4
          SizeFor(_),         \* nextPowerOfTwo: the size to shrink to
          ShrinkFactor,       \* a table shrinks at 1/ShrinkFactor, 10
          EmptyVisits,        \* empty buckets passed per bucket migrated, 10
          CronBuckets,        \* buckets migrated by one cron, 100
          Counts,             \* the COUNTs clients send with SCAN
          MaxScanIterations   \* kMaxScanIterations

(* 2^w, as a function that is recursive in w.  A table has 2^w buckets.     *)
TwoTo[w \in 0 .. Width] == IF w = 0 THEN 1 ELSE 2 * TwoTo[w - 1]
Sizes == {TwoTo[w] : w \in 0 .. Width}

ASSUME DictAssumption ==
  /\ IsFiniteSet(Keys)
  /\ Hash \in [Keys -> Nat]
  /\ Width \in Nat
  /\ Cardinality(Keys) < TwoTo[Width]
  /\ InitialSize \in Sizes
  /\ \A n \in 1 .. Cardinality(Keys) + 1 : SizeFor(n) \in Sizes
  /\ ShrinkFactor \in Nat \ {0}
  /\ EmptyVisits \in Nat \ {0}
  /\ CronBuckets \in Nat \ {0}
  /\ MaxScanIterations \in Nat \ {0}

VARIABLES dict,    \* the table, a record of the members of Dict
          reply,   \* what the last find, insert or erase answered
          busy     \* what the thread is doing

(***************************************************************************)
(* An iteration of SCAN by one client: the cursor it holds, what it was    *)
(* given so far and, as history, the keys that were there all along.       *)
(***************************************************************************)
VARIABLES scanning, cursor, returned, stayed

scanVars == <<scanning, cursor, returned, stayed>>
vars == <<dict, reply, busy, scanVars>>

Idle == [in |-> "poll"]
Cron(left, visits) == [in |-> "cron", left |-> left, visits |-> visits]
Scan(left) == [in |-> "scan", left |-> left]

(***************************************************************************)
(* Dict.  n0, t0, u0: the size, the buckets and used_ of tables_[0].       *)
(***************************************************************************)

EmptyTable(n) == [b \in 0 .. n - 1 |-> {}]

Tables(n0, t0, u0, n1, t1, u1, at) ==
  [n0 |-> n0, t0 |-> t0, u0 |-> u0, n1 |-> n1, t1 |-> t1, u1 |-> u1, at |-> at]
OneTable(n, t, u) == Tables(n, t, u, 0, EmptyTable(0), 0, -1)

(* Dict(), and what clear leaves.                                           *)
New == OneTable(InitialSize, EmptyTable(InitialSize), 0)

IsRehashing(d) == d.at >= 0
Size(d) == d.u0 + d.u1

(* The search of find and of erase.                                         *)
Holds(d, k) ==
  \/ k \in d.t0[Hash[k] % d.n0]
  \/ IsRehashing(d) /\ k \in d.t1[Hash[k] % d.n1]

(* The bucket that migrates next: empty ones are passed.                    *)
NextFull(d) == CHOOSE b \in d.at .. d.n0 - 1 : d.t0[b] # {} /\ \A c \in d.at .. b - 1 : d.t0[c] = {}

(* A bucket's chain, relinked into the second table.                        *)
MoveBucket(d, b) ==
  Tables(d.n0, [d.t0 EXCEPT ![b] = {}], d.u0 - Cardinality(d.t0[b]),
         d.n1,
         [c \in 0 .. d.n1 - 1 |-> d.t1[c] \cup {k \in d.t0[b] : Hash[k] % d.n1 = c}],
         d.u1 + Cardinality(d.t0[b]),
         b + 1)

(* One turn of rehashSteps' loop, which gives up after so many visits to    *)
(* empty buckets.                                                           *)
Passes(d) == IF d.u0 = 0 THEN 0 ELSE NextFull(d) - d.at
Migrate(d, visits) ==
  CASE d.u0 = 0 -> d
    [] d.u0 > 0 /\ Passes(d) >= visits -> Tables(d.n0, d.t0, d.u0, d.n1, d.t1, d.u1, d.at + visits)
    [] d.u0 > 0 /\ Passes(d) < visits -> MoveBucket(d, NextFull(d))

(* Mutant: the table is dropped one bucket early.                           *)
FinishEarly(d) ==
  IF d.u0 <= 1
  THEN OneTable(d.n1, d.t1, d.u1)
  ELSE d

(* Mutant: an emptied table is never done.                                  *)
FinishUnlessEmpty(d) ==
  IF d.u0 = 0 /\ d.u1 > 0
  THEN OneTable(d.n1, d.t1, d.u1)
  ELSE d

(* The end of rehashSteps: the second table becomes the first.              *)
Finish(d) ==
  IF d.u0 = 0
  THEN OneTable(d.n1, d.t1, d.u1)
  ELSE d

rehashStep(d) == IF IsRehashing(d) THEN Finish(Migrate(d, EmptyVisits)) ELSE d

resizeTo(d, n) == Tables(d.n0, d.t0, d.u0, n, EmptyTable(n), 0, 0)

expandIfNeeded(d) == IF IsRehashing(d) \/ d.u0 < d.n0 THEN d ELSE resizeTo(d, d.n0 * 2)

shrinkIfNeeded(d) ==
  IF IsRehashing(d) \/ d.n0 <= InitialSize \/ d.u0 * ShrinkFactor > d.n0
  THEN d
  ELSE resizeTo(d, SizeFor(d.u0 + 1))

(* A key into, or out of, its bucket.                                       *)
Added(t, n, k) == [t EXCEPT ![Hash[k] % n] = @ \cup {k}]
Removed(t, n, k) == [t EXCEPT ![Hash[k] % n] = @ \ {k}]

Put(d, k) ==
  IF IsRehashing(d)
  THEN Tables(d.n0, d.t0, d.u0, d.n1, Added(d.t1, d.n1, k), d.u1 + 1, d.at)
  ELSE Tables(d.n0, Added(d.t0, d.n0, k), d.u0 + 1, d.n1, d.t1, d.u1, d.at)

Take(d, k) ==
  IF k \in d.t0[Hash[k] % d.n0]
  THEN Tables(d.n0, Removed(d.t0, d.n0, k), d.u0 - 1, d.n1, d.t1, d.u1, d.at)
  ELSE Tables(d.n0, d.t0, d.u0, d.n1, Removed(d.t1, d.n1, k), d.u1 - 1, d.at)

(* find: a step of the rehash unless there is nothing to find.              *)
AfterFind(d) == IF Size(d) = 0 THEN d ELSE rehashStep(d)

AfterInsert(d, k) ==
  LET found == AfterFind(rehashStep(d)) IN
  IF Holds(found, k) THEN found ELSE Put(expandIfNeeded(found), k)

AfterErase(d, k) ==
  LET stepped == AfterFind(d) IN
  IF Holds(stepped, k) THEN shrinkIfNeeded(Take(stepped, k)) ELSE stepped

(* find answers whether the key is there, insert whether it was not, erase  *)
(* whether it was.                                                          *)
NoReply == [key |-> "none"]
Answer(k, was) == [key |-> k, was |-> was]

Init ==
  /\ dict = New
  /\ reply = NoReply
  /\ busy = Idle
  /\ scanning = FALSE
  /\ cursor = 0
  /\ returned = {}
  /\ stayed = {}

find(k) ==
  /\ busy = Idle
  /\ dict' = AfterFind(dict)
  /\ reply' = Answer(k, Holds(dict', k))
  /\ UNCHANGED <<busy, scanVars>>

insert(k) ==
  /\ busy = Idle
  /\ dict' = AfterInsert(dict, k)
  /\ reply' = Answer(k, Holds(AfterFind(rehashStep(dict)), k))
  /\ UNCHANGED <<busy, scanVars>>

erase(k) ==
  /\ busy = Idle
  /\ dict' = AfterErase(dict, k)
  /\ reply' = Answer(k, Holds(AfterFind(dict), k))
  /\ stayed' = stayed \ {k}
  /\ UNCHANGED <<busy, scanning, cursor, returned>>

clear ==
  /\ busy = Idle
  /\ dict' = New
  /\ stayed' = {}
  /\ UNCHANGED <<reply, busy, scanning, cursor, returned>>

(***************************************************************************)
(* serverCron: Database::incrementalRehash.                                *)
(***************************************************************************)

incrementalRehash ==
  /\ busy = Idle
  /\ IsRehashing(dict)
  /\ busy' = Cron(CronBuckets, CronBuckets * EmptyVisits)
  /\ UNCHANGED <<dict, reply, scanVars>>

rehashSteps ==
  /\ busy.in = "cron"
  /\ dict' = Finish(Migrate(dict, busy.visits))
  /\ busy' = IF \/ busy.left = 1
                \/ ~IsRehashing(dict')
                \/ Passes(dict) >= busy.visits
             THEN Idle
             ELSE Cron(busy.left - 1, busy.visits - Passes(dict))
  /\ UNCHANGED <<reply, scanVars>>

(***************************************************************************)
(* SCAN.                                                                   *)
(***************************************************************************)

(* The lowest w bits of v, in reverse.                                      *)
Reversed[w \in 0 .. Width] ==
  [v \in Nat |-> IF w = 0 THEN 0
                 ELSE (v % 2) * TwoTo[w - 1] + Reversed[w - 1][v \div 2]]
reverseBits == [v \in 0 .. TwoTo[Width] - 1 |-> Reversed[Width][v]]

(* Mutant: the cursor counts up in plain binary.                            *)
NextCursorPlain(v, n) == ((v % n) + 1) % n

(* Mutant: the bits above the mask are not set.                             *)
NextCursorUnmasked(v, n) == reverseBits[(reverseBits[v % n] + 1) % TwoTo[Width]]

(* The bits above the mask are set, and the cursor is counted up from its   *)
(* highest bit.                                                             *)
NextCursor(v, n) ==
  reverseBits[(reverseBits[TwoTo[Width] - n + (v % n)] + 1) % TwoTo[Width]]

(* Dict::scan between rehashes: one bucket.                                 *)
ScanPlain(d, v) == [cursor |-> NextCursor(v, d.n0), out |-> d.t0[v % d.n0]]

(* Dict::scan during one: the bucket of the smaller table, and those of the *)
(* larger that it spreads over, from the cursor on.                         *)
ScanBoth(small, ns, large, nl, v) ==
  LET at[j \in 0 .. nl] == IF j = 0 THEN v ELSE NextCursor(at[j - 1], nl)
      last == CHOOSE j \in 1 .. nl : /\ at[j] % nl = at[j] % ns
                                     /\ \A i \in 1 .. j - 1 : at[i] % nl # at[i] % ns
  IN  [cursor |-> at[last], out |-> small[v % ns] \cup UNION {large[at[j] % nl] : j \in 0 .. last - 1}]

DictScan(d, v) ==
  CASE Size(d) = 0 -> [cursor |-> 0, out |-> {}]
    [] Size(d) > 0 /\ ~IsRehashing(d) -> ScanPlain(d, v)
    [] Size(d) > 0 /\ IsRehashing(d) /\ d.n0 <= d.n1 -> ScanBoth(d.t0, d.n0, d.t1, d.n1, v)
    [] OTHER -> ScanBoth(d.t1, d.n1, d.t0, d.n0, v)

(* The command's loop: whole buckets until there are enough keys.           *)
Collect(d, v, count) ==
  LET run[i \in 0 .. MaxScanIterations - 1] ==
        IF i = 0 THEN DictScan(d, v)
        ELSE LET p == run[i - 1] IN
             IF p.cursor = 0 \/ Cardinality(p.out) >= count THEN p
             ELSE LET q == DictScan(d, p.cursor) IN [q EXCEPT !.out = @ \cup p.out]
  IN  run[MaxScanIterations - 1]

scan(count) ==
  LET got == Collect(dict, cursor, count) IN
  /\ busy = Idle
  /\ cursor' = got.cursor
  /\ busy' = Scan(got.out)
  /\ scanning' = TRUE
  /\ stayed' = IF scanning THEN stayed ELSE {k \in Keys : Holds(dict, k)}
  /\ UNCHANGED <<dict, reply, returned>>

(* Each key collected is looked up before it is returned.                   *)
scanLookup(k) ==
  /\ busy.in = "scan"
  /\ k \in busy.left
  /\ dict' = AfterFind(dict)
  /\ returned' = IF Holds(dict', k) THEN returned \cup {k} ELSE returned
  /\ busy' = Scan(busy.left \ {k})
  /\ UNCHANGED <<reply, scanning, cursor, stayed>>

(* The reply.  The iteration is over when the cursor is 0 again.            *)
scanReply ==
  /\ busy.in = "scan"
  /\ busy.left = {}
  /\ busy' = Idle
  /\ scanning' = (cursor # 0)
  /\ returned' = IF cursor = 0 THEN {} ELSE returned
  /\ stayed' = IF cursor = 0 THEN {} ELSE stayed
  /\ UNCHANGED <<dict, reply, cursor>>

Next ==
  \/ \E k \in Keys : find(k) \/ insert(k) \/ erase(k) \/ scanLookup(k)
  \/ clear
  \/ incrementalRehash \/ rehashSteps
  \/ \E n \in Counts : scan(n)
  \/ scanReply

Spec == Init /\ [][Next]_vars

(* The cron runs again and again, and the thread finishes what it began.    *)
Serving ==
  /\ SF_vars(incrementalRehash)
  /\ WF_vars(rehashSteps \/ scanReply \/ \E k \in Keys : scanLookup(k))

(* A client that iterates goes on until it is told that it is done.         *)
Iterating == SF_vars(scanning /\ \E n \in Counts : scan(n))

FairSpec == Spec /\ Serving /\ Iterating

(***************************************************************************)
(* Properties.                                                             *)
(***************************************************************************)

(* The table is the set of keys it was given: whatever the stage of a       *)
(* resize, find, insert and erase answer by it and no migration, growth or  *)
(* shrinkage adds or loses a key.                                           *)
Set == INSTANCE KeySet WITH members <- {k \in Keys : Holds(dict, k)}
ImplementsKeySet == Set!Spec

(* SCAN's promise: when an iteration ends, every key that was there from    *)
(* its beginning to its end has been returned, over any growth, shrinkage   *)
(* and migration in between.                                                *)
ScanMissesNothing ==
  (busy = Scan({}) /\ cursor = 0) => stayed \subseteq returned

(* A resize is not left half done: the cron finishes it.                    *)
RehashCompletes == IsRehashing(dict) ~> ~IsRehashing(dict)

(* An iteration that is kept up ends, even while the table changes size.    *)
ScanEnds == scanning ~> ~scanning

=============================================================================

----------------------- MODULE TransactionsInvariant -----------------------
(***************************************************************************)
(* The inductive invariant of Transactions, and that every step keeps it   *)
(* as long as the commands have sound effects.                             *)
(***************************************************************************)
EXTENDS Transactions, Effects, TLAPS

(* The time that a leaf may take.                                           *)
USE SMTT(40), ZenonT(40), Z3T(40)

USE DEF Slots, Content, Gone, keyspaceVars, clientVars, watchVars

(***************************************************************************)
(* The inductive invariant.                                                *)
(***************************************************************************)

(* How the history lies within the watch lists, and that a closed           *)
(* connection has left nothing behind.                                      *)
WatchesNest ==
  \A c \in Clients :
    /\ sawExpired[c] \subseteq corpse[c]
    /\ corpse[c] \subseteq watched[c]
    /\ changed[c] \subseteq watched[c]
    /\ watched[c] # {} => c \in open

(* What the databases hold ...                                              *)
StoreInv == NoOrphanDeadline /\ NoEmptyCollection

(* ... what has to do with watches ...                                      *)
WatchInv ==
  /\ WatchesNest
  /\ WatchIndexExact
  /\ WatchCatchesChange
  /\ DirtyOnlyWhileWatching
  /\ PardonOnlyForCorpse

(* ... and with the commands of a transaction.                              *)
QueueInv ==
  /\ QueueIsWhole
  /\ TransactionEndsClean
  /\ \A c \in Clients : ~inMulti[c] => sent[c] = 0

IInv == TypeOK /\ StoreInv /\ WatchInv /\ QueueInv

(* The invariant holds at first.                                            *)
LEMMA InitIInv == Init => IInv
<1> SUFFICES ASSUME Init PROVE IInv
  OBVIOUS
<1>1. Sound(Gone) /\ 0 \in Dbs
  BY KeyspaceAssumption DEF Dbs, Sound
<1>2. TypeOK /\ StoreInv
  BY <1>1, TransactionsAssumption
  DEF Init, TypeOK, StoreInv, NoOrphanDeadline, NoEmptyCollection, Sound, LoopStates
<1>3. WatchInv
  BY DEF Init, WatchInv, WatchesNest, WatchIndexExact, WatchCatchesChange,
         DirtyOnlyWhileWatching, PardonOnlyForCorpse
<1>4. QueueInv
  BY DEF Init, QueueInv, QueueIsWhole, TransactionEndsClean, Idle
<1> QED
  BY <1>2, <1>3, <1>4 DEF IInv

(***************************************************************************)
(* Changes of the store.  A step accounts for its changes when every slot  *)
(* it changes is either one it announces as written or a dead key that it  *)
(* deletes and announces as expired.                                       *)
(***************************************************************************)

Accounts(expired, touched) ==
  \A s \in Slots : \/ s \in touched
                   \/ s \in expired /\ Dead(store[s]) /\ store'[s] = Gone
                   \/ s \notin expired /\ store'[s] = store[s]

(* The signals of a step that accounts for its changes keep the watches     *)
(* honest.  A changed watched slot was written, and its watcher is in the   *)
(* index; or it expired, and then it is either one the watcher saw dead,    *)
(* whose removal is no change, or its watcher has no pardon for it.         *)
LEMMA SignalsKeepWatches ==
  ASSUME TypeOK, WatchInv, now' = now,
         NEW expired \in SUBSET Slots, NEW again \in SUBSET expired, NEW touched \in SUBSET Slots,
         store' \in [Slots -> Content],
         Accounts(expired, touched),
         signalModifiedKey(expired, again, touched), RecordChanges,
         UNCHANGED <<open, watched, watchers, corpse>>
  PROVE  WatchInv'
<1> USE DEF TypeOK, WatchInv
<1>1. WatchesNest'
  BY DEF WatchesNest, signalModifiedKey, RecordChanges
<1>2. WatchIndexExact'
  BY DEF WatchIndexExact
<1>3. ASSUME NEW c \in Clients, NEW s \in watched[c],
             s \in touched \cup again \cup (expired \ sawExpired[c])
      PROVE  dirtyCas'[c]
  BY <1>3 DEF WatchIndexExact, WatchesNest, signalModifiedKey
<1>4. ASSUME NEW c \in Clients, dirtyCas[c]
      PROVE  dirtyCas'[c]
  BY <1>4 DEF signalModifiedKey
<1>5. WatchCatchesChange'
  <2> SUFFICES ASSUME NEW c \in Clients, NEW s \in changed'[c], s \notin changed[c]
               PROVE  dirtyCas'[c]
    BY <1>4 DEF WatchCatchesChange
  <2>1. s \in watched[c] /\ store'[s] # store[s] /\ ~(s \in corpse[c] /\ store'[s] = Gone)
    BY DEF RecordChanges
  <2>2. s \in touched \/ (s \in expired /\ s \notin sawExpired[c])
    BY <2>1 DEF Accounts, WatchesNest
  <2> QED
    BY <1>3, <2>1, <2>2
<1>6. DirtyOnlyWhileWatching'
  BY DEF DirtyOnlyWhileWatching, WatchIndexExact, signalModifiedKey
<1>7. PardonOnlyForCorpse'
  <2> SUFFICES ASSUME NEW c \in Clients, ~dirtyCas'[c], NEW s \in sawExpired'[c]
               PROVE  Dead(store[s])'
    BY DEF PardonOnlyForCorpse
  <2>1. s \in sawExpired[c] /\ s \in watched[c] /\ c \in open
    BY DEF signalModifiedKey, WatchesNest
  <2>2. s \notin expired
    BY <2>1 DEF signalModifiedKey
  <2>3. s \notin touched /\ ~dirtyCas[c]
    BY <1>3, <1>4, <2>1
  <2>4. store'[s] = store[s]
    BY <2>1, <2>2, <2>3 DEF Accounts
  <2> QED
    BY <2>1, <2>3, <2>4 DEF PardonOnlyForCorpse, Dead
<1> QED
  BY <1>1, <1>2, <1>5, <1>6, <1>7

(* A sound result accounts for itself.                                      *)
LEMMA ResultAccounts ==
  ASSUME NEW e, SoundResult(e), store' = StoreAfter(e)
  PROVE  /\ store' \in [Slots -> Content]
         /\ SoundStore'
         /\ ExpiredBy(e) \in SUBSET Slots
         /\ e.events \in SUBSET Slots
         /\ Accounts(ExpiredBy(e), e.events)
<1>1. /\ store' \in [Slots -> Content] /\ ExpiredBy(e) \in SUBSET Slots
      /\ \A s \in Slots :
           /\ Sound(store'[s])
           /\ \/ s \in e.events
              \/ s \in ExpiredBy(e) /\ Dead(store[s]) /\ store'[s] = Gone
              \/ s \notin ExpiredBy(e) /\ store'[s] = store[s]
  BY ZenonT(40) DEF SoundResult
<1>2. e.events \in SUBSET Slots
  BY ZenonT(40) DEF SoundResult
<1>3. SoundStore'
  BY <1>1, ZenonT(40) DEF SoundStore
<1> QED
  BY <1>1, <1>2, <1>3, ZenonT(40) DEF Accounts

HIDE DEF Slots, Content, Gone

(***************************************************************************)
(* The steps.                                                              *)
(***************************************************************************)

(* The types of the watch state.                                            *)
WatchTypes ==
  /\ dirtyCas \in [Clients -> BOOLEAN]
  /\ watched \in [Clients -> SUBSET Slots]
  /\ sawExpired \in [Clients -> SUBSET Slots]
  /\ corpse \in [Clients -> SUBSET Slots]
  /\ changed \in [Clients -> SUBSET Slots]
  /\ watchers \in [Slots -> SUBSET Clients]

(* The invariant on the store is the soundness the effects keep.            *)
LEMMA SoundStoreIsType ==
  ASSUME TypeOK
  PROVE  StoreInv <=> SoundStore
BY DEF TypeOK, StoreInv, NoOrphanDeadline, NoEmptyCollection, SoundStore, Sound

(* Giving up all watches of a client, with the verdict they led to.         *)
LEMMA UnwatchKeepsWatches ==
  ASSUME TypeOK, WatchInv, NEW c \in Clients, unwatchAllKeys(c),
         dirtyCas' = [dirtyCas EXCEPT ![c] = FALSE],
         UNCHANGED keyspaceVars,
         open' = open \/ open' = open \ {c}
  PROVE  WatchInv' /\ WatchTypes'
<1> USE DEF TypeOK, WatchInv, unwatchAllKeys
<1>1. WatchesNest'
  BY DEF WatchesNest
<1>2. WatchIndexExact'
  BY DEF WatchIndexExact, WatchesNest
<1>3. WatchCatchesChange' /\ DirtyOnlyWhileWatching'
  BY DEF WatchCatchesChange, DirtyOnlyWhileWatching
<1>4. PardonOnlyForCorpse'
  BY DEF PardonOnlyForCorpse, Dead
<1>5. WatchTypes'
  BY DEF WatchTypes
<1> QED
  BY <1>1, <1>2, <1>3, <1>4, <1>5

(* What CommandEffectSound shows of the commands.                           *)
CommandsSound ==
  \A db \in Dbs, a \in CommandArgs :
    SoundStore /\ now \in Int => SoundResult(CommandEffect(db, a)) /\ a.op \in CommandOps

(* Running one command.                                                     *)
LEMMA CallKeepsWatches ==
  ASSUME IInv, CommandsSound, NEW c \in Clients, NEW a \in Commands, callCommand(c, a),
         UNCHANGED <<now, open>>
  PROVE  /\ WatchInv' /\ WatchTypes'
         /\ store' \in [Slots -> Content] /\ StoreInv'
         /\ dbIndex' \in [Clients -> Dbs]
         /\ \A d \in Clients : watched'[d] \subseteq watched[d]
<1> USE DEF IInv
<1>0. a \in CommandArgs \cup SessionArgs
  BY TransactionsAssumption
<1>1. CASE KeyspaceCommand(c, a)
  <2> DEFINE e == CommandEffect(dbIndex[c], a)
  <2>1. dbIndex[c] \in Dbs /\ now \in Int /\ SoundStore /\ store \in [Slots -> Content]
    BY SoundStoreIsType, TransactionsAssumption DEF TypeOK
  <2>2. a \in CommandArgs
    <3>1. a.op \in CommandOps
      BY <1>1 DEF KeyspaceCommand
    <3>2. a.op # "select" /\ a.op # "unwatch"
      BY <3>1, ZenonT(40) DEF CommandOps, StringOps, KeyOps, CollectionOps, ZSetOps
    <3> QED
      BY <1>0, <3>2, ZenonT(40) DEF SessionArgs
  <2>3. SoundResult(e)
    BY <2>1, <2>2 DEF CommandsSound
  <2>4. store' = StoreAfter(e) /\ signalModifiedKey(ExpiredBy(e), {}, e.events)
    BY <1>1 DEF KeyspaceCommand
  <2> HIDE DEF e
  <2>5. /\ store' \in [Slots -> Content]
        /\ SoundStore'
        /\ ExpiredBy(e) \in SUBSET Slots
        /\ e.events \in SUBSET Slots
        /\ Accounts(ExpiredBy(e), e.events)
    BY <2>3, <2>4, ResultAccounts
  <2>6. RecordChanges /\ UNCHANGED <<dbIndex, watched, watchers, corpse>>
    BY <1>1 DEF KeyspaceCommand
  <2>7. WatchInv'
    BY <2>4, <2>5, <2>6, SignalsKeepWatches
  <2>8. StoreInv'
    BY <2>5 DEF SoundStore, Sound, StoreInv, NoOrphanDeadline, NoEmptyCollection
  <2>9. WatchTypes'
    BY <2>4, <2>6 DEF WatchTypes, TypeOK, signalModifiedKey, RecordChanges
  <2> QED
    BY <2>1, <2>5, <2>6, <2>7, <2>8, <2>9 DEF TypeOK
<1>2. CASE select(c, a)
  <2>1. a.db \in Dbs
    <3>1. a \notin CommandArgs
      <4> SUFFICES ASSUME a \in CommandArgs PROVE FALSE
        OBVIOUS
      <4>1. a.op \in CommandOps
        BY SoundStoreIsType, TransactionsAssumption DEF TypeOK, CommandsSound
      <4> QED
        BY <1>2, <4>1, ZenonT(40) DEF select, CommandOps, StringOps, KeyOps, CollectionOps, ZSetOps
    <3> QED
      BY <1>0, <1>2, <3>1, ZenonT(30) DEF select, SessionArgs
  <2>2. WatchInv' /\ WatchTypes' /\ StoreInv'
    BY <1>2 DEF select, WatchInv, WatchesNest, WatchIndexExact, WatchCatchesChange,
                DirtyOnlyWhileWatching, PardonOnlyForCorpse, Dead, WatchTypes, TypeOK,
                StoreInv, NoOrphanDeadline, NoEmptyCollection
  <2> QED
    BY <1>2, <2>1, <2>2 DEF select, TypeOK
<1>3. CASE unwatch(c, a)
  <2>1. WatchInv' /\ WatchTypes'
    BY <1>3, UnwatchKeepsWatches, ZenonT(30) DEF unwatch
  <2> QED
    BY <1>3, <2>1 DEF unwatch, unwatchAllKeys, TypeOK, StoreInv, NoOrphanDeadline, NoEmptyCollection
<1> QED
  BY <1>1, <1>2, <1>3 DEF callCommand

(* Ending a transaction, however it ends.                                   *)
LEMMA DiscardKeepsIInv ==
  ASSUME IInv, NEW c \in Clients, loop = Idle, discardTransaction(c), UNCHANGED keyspaceVars,
         open' = open \/ open' = open \ {c},
         dbIndex' = dbIndex \/ dbIndex' = [dbIndex EXCEPT ![c] = 0],
         loop' = loop \/ (c \in open' /\ loop' = Exec(c, queue[c]))
  PROVE  IInv'
<1> USE DEF IInv
<1>1. WatchInv' /\ WatchTypes'
  BY UnwatchKeepsWatches, ZenonT(30) DEF discardTransaction, resetMultiState
<1>2. /\ inMulti' = [inMulti EXCEPT ![c] = FALSE]
      /\ multiError' = [multiError EXCEPT ![c] = FALSE]
      /\ dirtyCas' = [dirtyCas EXCEPT ![c] = FALSE]
      /\ queue' = [queue EXCEPT ![c] = << >>]
      /\ sent' = [sent EXCEPT ![c] = 0]
      /\ watched' = [watched EXCEPT ![c] = {}]
  BY DEF discardTransaction, resetMultiState, unwatchAllKeys
<1>3. loop' \in LoopStates
  <2>1. loop \in LoopStates /\ queue[c] \in Seq(Commands)
    BY DEF TypeOK, LoopStates
  <2> HIDE DEF IInv
  <2>2. Exec(c, queue[c]) \in LoopStates
    BY <2>1 DEF Exec, LoopStates
  <2> QED
    BY <2>1, <2>2
<1>4. dbIndex' \in [Clients -> Dbs]
  <2>1. 0 \in Dbs
    BY KeyspaceAssumption DEF Dbs
  <2> QED
    BY <2>1, ZenonT(30) DEF TypeOK
<1>5. TypeOK'
  <2>1. queue' \in [Clients -> Seq(Commands)] /\ sent' \in [Clients -> Nat]
    BY <1>2 DEF TypeOK
  <2>2. inMulti' \in [Clients -> BOOLEAN] /\ multiError' \in [Clients -> BOOLEAN]
    BY <1>2 DEF TypeOK
  <2>3. store' \in [Slots -> Content] /\ now' \in 0 .. MaxTime /\ open' \subseteq Clients
    BY DEF TypeOK
  <2> QED
    BY <1>1, <1>3, <1>4, <2>1, <2>2, <2>3 DEF TypeOK, WatchTypes
<1>6. StoreInv'
  BY DEF StoreInv, NoOrphanDeadline, NoEmptyCollection
<1>7. \A d \in Clients : /\ ~multiError'[d] => Len(queue'[d]) = sent'[d]
                         /\ ~inMulti'[d] => queue'[d] = << >> /\ ~multiError'[d] /\ sent'[d] = 0
  BY <1>2 DEF TypeOK, QueueInv, QueueIsWhole, TransactionEndsClean
<1>8. loop'.in = "exec" => /\ loop'.client \in open'
                           /\ ~inMulti'[loop'.client]
                           /\ ~dirtyCas'[loop'.client]
                           /\ watched'[loop'.client] = {}
  <2> SUFFICES ASSUME loop'.in = "exec"
               PROVE  /\ loop'.client \in open'
                      /\ ~inMulti'[loop'.client]
                      /\ ~dirtyCas'[loop'.client]
                      /\ watched'[loop'.client] = {}
    OBVIOUS
  <2>1. ~inMulti'[c] /\ ~dirtyCas'[c] /\ watched'[c] = {}
    BY <1>2 DEF TypeOK
  <2> HIDE DEF IInv
  <2>2. c \in open' /\ loop'.client = c
    BY DEF Idle, Exec
  <2> QED
    BY <2>1, <2>2
<1>9. QueueInv'
  BY <1>7, <1>8 DEF QueueInv, QueueIsWhole, TransactionEndsClean
<1> QED
  BY <1>1, <1>5, <1>6, <1>9

(* A step that leaves the store and the watches alone, and adds no client   *)
(* but one without watches, leaves what is said of them alone.              *)
LEMMA FrameKeepsWatches ==
  ASSUME IInv, UNCHANGED <<store, watchVars>>,
         now' \in Int, now' >= now,
         open \subseteq open', open' \subseteq Clients,
         \A c \in open' \ open : watched[c] = {}
  PROVE  WatchInv' /\ WatchTypes' /\ StoreInv'
<1> USE DEF IInv, WatchInv
<1>1. WatchesNest' /\ WatchIndexExact'
  BY DEF WatchesNest, WatchIndexExact
<1>2. WatchCatchesChange' /\ DirtyOnlyWhileWatching'
  BY DEF WatchCatchesChange, DirtyOnlyWhileWatching
<1>3. \A s \in Slots : Dead(store[s]) => Dead(store[s])'
  BY DEF Dead, TypeOK, Content
<1>4. PardonOnlyForCorpse'
  BY <1>3 DEF PardonOnlyForCorpse, TypeOK
<1>5. WatchTypes' /\ StoreInv'
  BY DEF WatchTypes, TypeOK, StoreInv, NoOrphanDeadline, NoEmptyCollection
<1> QED
  BY <1>1, <1>2, <1>4, <1>5

(* The clock is typed.                                                      *)
LEMMA NowType ==
  ASSUME TypeOK
  PROVE  now \in Int
BY TransactionsAssumption DEF TypeOK

(* A new connection.                                                        *)
LEMMA AcceptKeepsIInv ==
  ASSUME IInv, NEW c \in Clients, onAcceptable(c)
  PROVE  IInv'
<1> USE DEF IInv
<1>1. WatchInv' /\ WatchTypes' /\ StoreInv'
  <2>1. /\ UNCHANGED <<store, watchVars, now>> /\ c \notin open /\ open' = open \cup {c}
        /\ open' \subseteq Clients /\ now \in Int
    BY NowType DEF onAcceptable, keyspaceVars, TypeOK
  <2>2. \A d \in open' \ open : watched[d] = {}
    BY <2>1 DEF WatchInv, WatchesNest
  <2> HIDE DEF IInv
  <2>3. now' \in Int /\ now' >= now /\ open \subseteq open'
    BY <2>1
  <2> QED
    BY <2>1, <2>2, <2>3, FrameKeepsWatches
<1>2. TypeOK'
  BY <1>1 DEF onAcceptable, TypeOK, WatchTypes
<1>3. QueueInv'
  BY DEF onAcceptable, QueueInv, QueueIsWhole, TransactionEndsClean
<1> QED
  BY <1>1, <1>2, <1>3

(* The ways a transaction or a connection ends.                             *)
LEMMA EndKeepsIInv ==
  ASSUME IInv, NEW c \in Clients,
         \/ closeClient(c) \/ reset(c) \/ discard(c) \/ execRefused(c) \/ exec(c)
         \/ RejectExec(c)
  PROVE  IInv'
BY DiscardKeepsIInv
DEF closeClient, reset, discard, execRefused, exec, RejectExec, discardTransaction, Ready

(* A command outside MULTI.                                                 *)
LEMMA DispatchKeepsIInv ==
  ASSUME IInv, CommandsSound, NEW c \in Clients, NEW a \in Commands, dispatch(c, a)
  PROVE  IInv'
<1> USE DEF IInv
<1>1. /\ WatchInv' /\ WatchTypes'
      /\ store' \in [Slots -> Content] /\ StoreInv'
      /\ dbIndex' \in [Clients -> Dbs]
  BY CallKeepsWatches DEF dispatch
<1>2. TypeOK'
  BY <1>1 DEF dispatch, TypeOK, WatchTypes
<1>3. QueueInv'
  BY DEF dispatch, QueueInv, QueueIsWhole, TransactionEndsClean, Ready, Idle
<1> QED
  BY <1>1, <1>2, <1>3

(* MULTI, and a command queued or refused inside it.                        *)
LEMMA QueueingKeepsIInv ==
  ASSUME IInv, NEW c \in Clients,
         multi(c) \/ Reject(c) \/ (\E a \in Queueable : queueCommand(c, a))
  PROVE  IInv'
<1> USE DEF IInv
<1>1. WatchInv' /\ WatchTypes' /\ StoreInv'
  <2>1. UNCHANGED <<store, watchVars, now, open>>
    BY DEF multi, Reject, queueCommand, keyspaceVars
  <2>2. now \in Int /\ open \subseteq Clients
    BY NowType DEF TypeOK
  <2> HIDE DEF IInv
  <2>3. now' \in Int /\ now' >= now /\ open' = open
    BY <2>1, <2>2
  <2> QED
    BY <2>1, <2>2, <2>3, FrameKeepsWatches
<1>2. CASE multi(c)
  <2>1. TypeOK'
    BY <1>1, <1>2 DEF multi, TypeOK, WatchTypes
  <2>2. QueueInv'
    BY <1>2 DEF multi, QueueInv, QueueIsWhole, TransactionEndsClean, Ready, Idle, TypeOK
  <2> QED
    BY <1>1, <2>1, <2>2
<1>3. CASE Reject(c)
  <2>1. TypeOK'
    <3>1. multiError' \in [Clients -> BOOLEAN] /\ sent' \in [Clients -> Nat]
      BY <1>3 DEF Reject, TypeOK
    <3>2. UNCHANGED <<keyspaceVars, open, dbIndex, inMulti, queue, loop>>
      BY <1>3 DEF Reject
    <3> QED
      BY <1>1, <3>1, <3>2 DEF keyspaceVars, TypeOK, WatchTypes
  <2>2. QueueInv'
    BY <1>3 DEF Reject, QueueInv, QueueIsWhole, TransactionEndsClean, Ready, Idle, TypeOK
  <2> QED
    BY <1>1, <2>1, <2>2
<1>4. ASSUME NEW a \in Queueable, queueCommand(c, a)
      PROVE  IInv'
  <2>1. a \in Commands /\ queue[c] \in Seq(Commands)
    BY TransactionsAssumption DEF TypeOK
  <2>2. /\ Append(queue[c], a) \in Seq(Commands)
        /\ Len(Append(queue[c], a)) = Len(queue[c]) + 1
    BY <2>1
  <2>3. /\ queue' = [queue EXCEPT ![c] = Append(@, a)]
        /\ sent' = [sent EXCEPT ![c] = @ + 1]
        /\ inMulti[c]
        /\ UNCHANGED <<keyspaceVars, open, dbIndex, inMulti, multiError, loop>>
    BY <1>4 DEF queueCommand
  <2>4. /\ queue' \in [Clients -> Seq(Commands)] /\ sent' \in [Clients -> Nat]
        /\ Len(queue'[c]) = Len(queue[c]) + 1 /\ sent'[c] = sent[c] + 1
        /\ \A d \in Clients : d # c => queue'[d] = queue[d] /\ sent'[d] = sent[d]
    BY <2>2, <2>3 DEF TypeOK
  <2>5. TypeOK'
    <3>1. /\ store' \in [Slots -> Content] /\ now' \in 0 .. MaxTime /\ open' \subseteq Clients
          /\ dbIndex' \in [Clients -> Dbs] /\ inMulti' \in [Clients -> BOOLEAN]
          /\ multiError' \in [Clients -> BOOLEAN] /\ loop' \in LoopStates
      BY <2>3 DEF keyspaceVars, TypeOK
    <3> HIDE DEF IInv
    <3> QED
      BY <1>1, <2>4, <3>1 DEF TypeOK, WatchTypes
  <2>6. QueueIsWhole' /\ \A d \in Clients : ~inMulti'[d] => sent'[d] = 0
    BY <2>3, <2>4 DEF QueueInv, QueueIsWhole
  <2>7. loop = Idle
    BY <1>4 DEF queueCommand, Ready
  <2>8. TransactionEndsClean'
    BY <2>3, <2>4, <2>7 DEF QueueInv, TransactionEndsClean, Idle
  <2> QED
    BY <1>1, <2>5, <2>6, <2>8 DEF QueueInv
<1> QED
  BY <1>2, <1>3, <1>4

(* WATCH: the flag is set only for keys that are dead, which are the        *)
(* corpses.                                                                 *)
LEMMA WatchKeepsIInv ==
  ASSUME IInv, NEW c \in Clients, NEW S \in SUBSET Names, watch(c, S)
  PROVE  IInv'
<1> USE DEF IInv
<1> DEFINE new == ({dbIndex[c]} \X S) \ watched[c]
<1>1. /\ c \in open
      /\ new \subseteq Slots
      /\ watched' = [watched EXCEPT ![c] = @ \cup new]
      /\ sawExpired' = [sawExpired EXCEPT ![c] =
           @ \cup {s \in new : ExpireAtMs(store[s]) >= 0 /\ ExpireAtMs(store[s]) <= now}]
      /\ watchers' = [s \in Slots |-> IF s \in new THEN watchers[s] \cup {c} ELSE watchers[s]]
      /\ corpse' = [corpse EXCEPT ![c] = @ \cup {s \in new : Dead(store[s])}]
      /\ UNCHANGED <<keyspaceVars, clientVars, dirtyCas, changed, loop>>
  BY ZenonT(30) DEF watch, WatchKeys, Ready, TypeOK, Slots
<1> HIDE DEF new
<1>2. \A s \in new : ExpireAtMs(store[s]) >= 0 /\ ExpireAtMs(store[s]) <= now
                       => Dead(store[s])
  <2>1. now \in Int /\ \A s \in new : store[s] \in Content
    BY <1>1, NowType DEF TypeOK
  <2> HIDE DEF IInv
  <2> QED
    BY <2>1 DEF ExpireAtMs, Dead, Content
<1>3. WatchTypes'
  BY <1>1 DEF WatchTypes, TypeOK
<1>4. WatchesNest'
  BY <1>1, <1>2 DEF WatchInv, WatchesNest, TypeOK
<1>5. WatchIndexExact'
  BY <1>1 DEF WatchInv, WatchIndexExact, TypeOK
<1>6. WatchCatchesChange' /\ DirtyOnlyWhileWatching'
  BY <1>1 DEF WatchInv, WatchCatchesChange, DirtyOnlyWhileWatching, TypeOK
<1>7. PardonOnlyForCorpse'
  BY <1>1, <1>2, ZenonT(30) DEF WatchInv, PardonOnlyForCorpse, Dead, TypeOK
<1>8. TypeOK' /\ StoreInv'
  BY <1>1, <1>3 DEF TypeOK, WatchTypes, StoreInv, NoOrphanDeadline, NoEmptyCollection
<1>9. QueueInv'
  <2>1. loop = Idle /\ UNCHANGED <<inMulti, multiError, queue, sent, loop>>
    BY ZenonT(40) DEF watch, Ready
  <2> QED
    BY <2>1, ZenonT(30) DEF QueueInv, QueueIsWhole, TransactionEndsClean, Idle
<1> QED
  BY <1>4, <1>5, <1>6, <1>7, <1>8, <1>9 DEF WatchInv

(* One queued command: it cannot mark the client that runs it, who watches  *)
(* nothing.                                                                 *)
LEMMA ExecNextKeepsIInv ==
  ASSUME IInv, CommandsSound, execNext
  PROVE  IInv'
<1> USE DEF IInv
<1>1. /\ loop \in [in : {"exec"}, client : Clients, queue : Seq(Commands)]
      /\ loop.queue # << >>
  <2>1. loop \in LoopStates /\ loop.in = "exec" /\ loop.queue # << >>
    BY DEF execNext, TypeOK
  <2> HIDE DEF IInv
  <2> QED
    BY <2>1 DEF LoopStates, Idle
<1>2. loop.client \in Clients /\ Head(loop.queue) \in Commands
      /\ Tail(loop.queue) \in Seq(Commands)
  BY <1>1
<1>3. /\ WatchInv' /\ WatchTypes'
      /\ store' \in [Slots -> Content] /\ StoreInv'
      /\ dbIndex' \in [Clients -> Dbs]
      /\ \A d \in Clients : watched'[d] \subseteq watched[d]
  BY <1>2, CallKeepsWatches, ZenonT(30) DEF execNext
<1>4. loop' = Exec(loop.client, Tail(loop.queue))
      /\ UNCHANGED <<now, open, inMulti, multiError, queue, sent>>
  BY DEF execNext
<1>5. TypeOK'
  <2>1. loop' \in LoopStates
    BY <1>2, <1>4, ZenonT(30) DEF LoopStates, Exec
  <2> QED
    BY <1>3, <1>4, <2>1 DEF TypeOK, WatchTypes
<1>6. /\ loop.client \in open /\ ~inMulti[loop.client] /\ watched[loop.client] = {}
  BY ZenonT(30) DEF execNext, QueueInv, TransactionEndsClean
<1>7. ~dirtyCas'[loop.client] /\ watched'[loop.client] = {}
  BY <1>2, <1>3, <1>6, ZenonT(30) DEF WatchInv, DirtyOnlyWhileWatching
<1>8. QueueInv'
  BY <1>4, <1>6, <1>7 DEF QueueInv, QueueIsWhole, TransactionEndsClean, Exec
<1> QED
  BY <1>3, <1>5, <1>8, ZenonT(40)

(* The steps that leave the store, the clients and the watches alone.       *)
LEMMA FrameKeepsIInv ==
  ASSUME IInv, execDone \/ Tick \/ serverCron \/ cronSkip \/ UNCHANGED vars
  PROVE  IInv'
<1> USE DEF IInv
<1>0. /\ UNCHANGED <<store, clientVars, watchVars>>
      /\ now' = now \/ (now < MaxTime /\ now' = now + 1)
  BY ZenonT(30) DEF execDone, Tick, serverCron, cronSkip, vars
<1>1. WatchInv' /\ WatchTypes' /\ StoreInv'
  <2>1. now' \in Int /\ now' >= now /\ open \subseteq Clients
    BY <1>0, NowType DEF TypeOK
  <2> QED
    BY <1>0, <2>1, FrameKeepsWatches, ZenonT(30)
<1>2. loop' \in {Idle, loop} \cup [in : {"cron"}, db : Dbs, round : 0 .. MaxRounds - 1]
  <2>1. 0 \in Dbs /\ 0 \in 0 .. MaxRounds - 1
    BY KeyspaceAssumption, TransactionsAssumption DEF Dbs
  <2>2. CASE cronSkip
    BY <2>1, <2>2 DEF cronSkip, NextDb, Cron
  <2>3. CASE serverCron
    BY <2>1, <2>3 DEF serverCron, Cron
  <2> QED
    BY <2>2, <2>3 DEF execDone, Tick, vars
<1>3. now' \in 0 .. MaxTime /\ UNCHANGED <<store, clientVars, watchVars>>
  BY <1>0, TransactionsAssumption DEF TypeOK
<1>4. TypeOK'
  <2>1. loop' \in LoopStates
    BY <1>2 DEF TypeOK, LoopStates
  <2> QED
    BY <1>1, <1>3, <2>1 DEF TypeOK, WatchTypes
<1>5. QueueInv'
  <2>1. \A c \in Clients : /\ ~multiError'[c] => Len(queue'[c]) = sent'[c]
                           /\ ~inMulti'[c] => queue'[c] = << >> /\ ~multiError'[c] /\ sent'[c] = 0
    BY <1>3 DEF clientVars, QueueInv, QueueIsWhole, TransactionEndsClean
  <2>2. loop'.in = "exec" => loop' = loop
    BY <1>2 DEF Idle
  <2>3. loop'.in = "exec" => /\ loop'.client \in open'
                             /\ ~inMulti'[loop'.client]
                             /\ ~dirtyCas'[loop'.client]
                             /\ watched'[loop'.client] = {}
    BY <1>3, <2>2 DEF clientVars, watchVars, QueueInv, TransactionEndsClean
  <2> QED
    BY <2>1, <2>3 DEF QueueInv, QueueIsWhole, TransactionEndsClean
<1> QED
  BY <1>1, <1>4, <1>5

(* A round of the active expire cycle deletes only dead keys, and says so.  *)
LEMMA ExpireRoundKeepsIInv ==
  ASSUME IInv, activeExpireRound
  PROVE  IInv'
<1>1. PICK sample \in Samples(loop.db) : ExpireSample(sample)
  BY ZenonT(40) DEF activeExpireRound
<1> DEFINE doomed == Doomed(sample)
           again == DrawnAgain(sample)
<1>s. /\ store' = [s \in Slots |-> IF s \in doomed THEN Gone ELSE store[s]]
      /\ signalModifiedKey(doomed, again, {})
      /\ loop' = AfterRound(sample, loop.db, loop.round)
  BY <1>1, ZenonT(40) DEF ExpireSample
<1>a. again \subseteq doomed
  BY ZenonT(40) DEF DrawnAgain
<1>b. \A i \in DOMAIN sample : sample[i] \in WithTTL(loop.db)
  BY <1>1, ZenonT(40) DEF Samples
<1>c. \A s \in doomed : s \in WithTTL(loop.db) /\ Dead(store[s])
  BY <1>b, ZenonT(40) DEF Doomed, Hits
<1>2. RecordChanges /\ UNCHANGED <<now, clientVars, watched, watchers, corpse>>
  BY ZenonT(40) DEF activeExpireRound
<1>r. \/ loop.round + 1 < MaxRounds /\ loop' = Cron(loop.db, loop.round + 1)
      \/ loop' = NextDb(loop.db)
  BY <1>s, ZenonT(40) DEF AfterRound
<1> HIDE DEF doomed, again
<1>3. loop \in [in : {"cron"}, db : Dbs, round : 0 .. MaxRounds - 1]
  <2>1. loop.in = "cron" /\ loop \in LoopStates
    BY ZenonT(30) DEF activeExpireRound, TypeOK, IInv
  <2> QED
    BY <2>1 DEF LoopStates, Idle
<1>4. loop' \in {Idle} \cup [in : {"cron"}, db : Dbs, round : 0 .. MaxRounds - 1]
  BY <1>r, <1>3, TransactionsAssumption DEF Cron, NextDb
<1>5. doomed \in SUBSET Slots /\ again \in SUBSET doomed
  BY <1>a, <1>c, <1>3 DEF WithTTL, Slots
<1>6. /\ store' \in [Slots -> Content]
      /\ StoreInv'
      /\ Accounts(doomed, {})
  BY <1>s, <1>c, ZenonT(40) DEF IInv, Accounts, TypeOK, StoreInv, NoOrphanDeadline, NoEmptyCollection, Content, Gone
<1>7. WatchInv'
  BY <1>s, <1>2, <1>5, <1>6, SignalsKeepWatches DEF IInv
<1>8. TypeOK'
  <2>1. loop' \in LoopStates
    BY <1>4 DEF LoopStates
  <2>2. WatchTypes'
    BY <1>s, <1>2 DEF IInv, WatchTypes, TypeOK, signalModifiedKey, RecordChanges
  <2> QED
    BY <1>2, <1>6, <2>1, <2>2 DEF IInv, TypeOK, WatchTypes
<1>9. QueueInv'
  <2>1. loop'.in # "exec"
    BY <1>4 DEF Idle
  <2>2. UNCHANGED <<inMulti, multiError, queue, sent>>
    BY <1>2
  <2> QED
    BY <2>1, <2>2 DEF IInv, QueueInv, QueueIsWhole, TransactionEndsClean
<1> QED
  BY <1>6, <1>7, <1>8, <1>9, ZenonT(40) DEF IInv

(* Every step keeps the invariant.                                          *)
LEMMA NextIInv == IInv /\ CommandsSound /\ [Next]_vars => IInv'
BY AcceptKeepsIInv, EndKeepsIInv, DispatchKeepsIInv, QueueingKeepsIInv, WatchKeepsIInv,
   ExecNextKeepsIInv, FrameKeepsIInv, ExpireRoundKeepsIInv, TransactionsAssumption
DEF Next, ClientStep, TransactionStep

=============================================================================

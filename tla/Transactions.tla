----------------------------- MODULE Transactions -----------------------------
(***************************************************************************)
(* The server around the keyspace: connections, the dispatcher, MULTI,     *)
(* EXEC, DISCARD, WATCH and UNWATCH, and the cron that expires keys        *)
(* (src/server/server.cpp, src/server/commands/transaction_commands.cpp).  *)
(*                                                                         *)
(* The server has one thread.  A command is one step; EXEC and the cron,   *)
(* which run several commands or sampling rounds, are several steps during *)
(* which "loop" says what the thread is in the middle of and nothing else  *)
(* is enabled.                                                             *)
(***************************************************************************)
EXTENDS CommandTable

CONSTANTS Clients,       \* connections; one is the descriptor, reused after a close
          Transactors,   \* bound: those of them that use MULTI and WATCH
          Commands,      \* the argument records clients send
          Queueable,     \* bound: those of them sent inside MULTI
          MaxQueue,      \* bound: commands queued in one transaction
          MaxTime,       \* bound: the clock
          SampleSize,    \* kActiveExpireSampleSize
          MaxRounds      \* kActiveExpireMaxIterations

SessionArgs == [op : {"select"}, db : Dbs] \cup [op : {"unwatch"}]

ASSUME TransactionsAssumption ==
  /\ \A a \in Commands : a \in CommandArgs \cup SessionArgs
  /\ Transactors \subseteq Clients
  /\ Queueable \subseteq Commands
  /\ MaxQueue \in Nat
  /\ MaxTime \in Nat
  /\ SampleSize \in Nat \ {0}
  /\ MaxRounds \in Nat \ {0}

VARIABLES open,        \* the clients the server holds (clients_)
          dbIndex,     \* the database each client selected
          inMulti, multiError, queue,  \* its MULTI state
          dirtyCas,    \* a watched key of its was modified
          watched,     \* the slots of its watch list
          sawExpired,  \* the entries of the list with the expired flag set
          watchers,    \* the server's inverse index, slot -> clients
          loop         \* what the thread is doing

(***************************************************************************)
(* History: of the slots a client watches, the ones that were dead when it *)
(* watched them and the ones whose content changed since, the removal of   *)
(* such a dead key apart; and how many commands it sent since MULTI.       *)
(***************************************************************************)
VARIABLES corpse, changed, sent

clientVars == <<open, dbIndex, inMulti, multiError, queue, sent>>
watchVars == <<dirtyCas, watched, sawExpired, watchers, corpse, changed>>
vars == <<keyspaceVars, clientVars, watchVars, loop>>

Idle == [in |-> "poll"]
Exec(c, q) == [in |-> "exec", client |-> c, queue |-> q]
Cron(db, round) == [in |-> "cron", db |-> db, round |-> round]

LoopStates ==
  {Idle} \cup [in : {"exec"}, client : Clients, queue : Seq(Commands)]
         \cup [in : {"cron"}, db : Dbs, round : 0 .. MaxRounds - 1]

Init ==
  /\ store = [s \in Slots |-> Gone]
  /\ now = 0
  /\ open = {}
  /\ dbIndex = [c \in Clients |-> 0]
  /\ inMulti = [c \in Clients |-> FALSE]
  /\ multiError = [c \in Clients |-> FALSE]
  /\ queue = [c \in Clients |-> << >>]
  /\ dirtyCas = [c \in Clients |-> FALSE]
  /\ watched = [c \in Clients |-> {}]
  /\ sawExpired = [c \in Clients |-> {}]
  /\ watchers = [s \in Slots |-> {}]
  /\ loop = Idle
  /\ corpse = [c \in Clients |-> {}]
  /\ changed = [c \in Clients |-> {}]
  /\ sent = [c \in Clients |-> 0]

(***************************************************************************)
(* Watches.                                                                *)
(***************************************************************************)

(* Mutant: the expired flag is taken for a pardon whether or not it is set. *)
signalModifiedKeyPardonsAll(expired, again, touched) ==
  /\ dirtyCas' = [c \in Clients |->
                    dirtyCas[c] \/ (c \in open /\ \E s \in touched : c \in watchers[s])]
  /\ sawExpired' = [c \in Clients |-> IF c \in open THEN sawExpired[c] \ expired ELSE sawExpired[c]]

(* signalModifiedKey for every slot that changed: `expired` are the ones    *)
(* that died of their TTL, `again` those among them signalled a second time *)
(* and `touched` the ones a command wrote.  A watcher that had seen the key *)
(* as expired is let off, once.                                             *)
signalModifiedKey(expired, again, touched) ==
  LET Hit(c, S) == \E s \in S : c \in watchers[s] IN
  /\ dirtyCas' = [c \in Clients |->
                    \/ dirtyCas[c]
                    \/ c \in open /\ Hit(c, touched \cup again \cup (expired \ sawExpired[c]))]
  /\ sawExpired' = [c \in Clients |-> IF c \in open THEN sawExpired[c] \ expired ELSE sawExpired[c]]

(* What the history variables make of the step's change of the store.       *)
RecordChanges ==
  changed' = [c \in Clients |->
                changed[c] \cup {s \in watched[c] :
                                   store'[s] # store[s] /\ ~(s \in corpse[c] /\ store'[s] = Gone)}]

(* Mutant: any deadline, not one that has passed, sets the flag.            *)
WatchKeysFlagsAnyTTL(c, S) ==
  LET new == S \ watched[c] IN
  /\ watched' = [watched EXCEPT ![c] = @ \cup S]
  /\ sawExpired' = [sawExpired EXCEPT ![c] = @ \cup {s \in new : ExpireAtMs(store[s]) >= 0}]
  /\ watchers' = [s \in Slots |-> IF s \in new THEN watchers[s] \cup {c} ELSE watchers[s]]
  /\ corpse' = [corpse EXCEPT ![c] = @ \cup {s \in new : Dead(store[s])}]

(* watchKey for each of the keys: those already watched stay as they are.   *)
WatchKeys(c, S) ==
  LET new == S \ watched[c] IN
  /\ watched' = [watched EXCEPT ![c] = @ \cup S]
  /\ sawExpired' = [sawExpired EXCEPT ![c] =
                      @ \cup {s \in new : ExpireAtMs(store[s]) >= 0 /\ ExpireAtMs(store[s]) <= now}]
  /\ watchers' = [s \in Slots |-> IF s \in new THEN watchers[s] \cup {c} ELSE watchers[s]]
  /\ corpse' = [corpse EXCEPT ![c] = @ \cup {s \in new : Dead(store[s])}]

(* Mutant: the list is cleared first, and the index is never visited.       *)
unwatchAllKeysListFirst(c) ==
  /\ watched' = [watched EXCEPT ![c] = {}]
  /\ sawExpired' = [sawExpired EXCEPT ![c] = {}]
  /\ corpse' = [corpse EXCEPT ![c] = {}]
  /\ changed' = [changed EXCEPT ![c] = {}]
  /\ UNCHANGED watchers

(* unwatchAllKeys: the index first, then the list.                          *)
unwatchAllKeys(c) ==
  /\ watchers' = [s \in Slots |-> IF s \in watched[c] THEN watchers[s] \ {c} ELSE watchers[s]]
  /\ watched' = [watched EXCEPT ![c] = {}]
  /\ sawExpired' = [sawExpired EXCEPT ![c] = {}]
  /\ corpse' = [corpse EXCEPT ![c] = {}]
  /\ changed' = [changed EXCEPT ![c] = {}]

(* Mutant: the queue is not cleared.                                        *)
resetMultiStateKeepsQueue(c) ==
  /\ inMulti' = [inMulti EXCEPT ![c] = FALSE]
  /\ multiError' = [multiError EXCEPT ![c] = FALSE]
  /\ dirtyCas' = [dirtyCas EXCEPT ![c] = FALSE]
  /\ sent' = [sent EXCEPT ![c] = 0]
  /\ UNCHANGED queue

(* Client::resetMultiState.                                                 *)
resetMultiState(c) ==
  /\ inMulti' = [inMulti EXCEPT ![c] = FALSE]
  /\ multiError' = [multiError EXCEPT ![c] = FALSE]
  /\ dirtyCas' = [dirtyCas EXCEPT ![c] = FALSE]
  /\ queue' = [queue EXCEPT ![c] = << >>]
  /\ sent' = [sent EXCEPT ![c] = 0]

discardTransaction(c) == resetMultiState(c) /\ unwatchAllKeys(c)

(***************************************************************************)
(* Running a command (callCommand), from the dispatcher or from EXEC.      *)
(***************************************************************************)

KeyspaceCommand(c, a) ==
  LET e == CommandEffect(dbIndex[c], a) IN
  /\ a.op \in CommandOps
  /\ store' = StoreAfter(e)
  /\ signalModifiedKey(ExpiredBy(e), {}, e.events)
  /\ RecordChanges
  /\ UNCHANGED <<dbIndex, watched, watchers, corpse>>

select(c, a) ==
  /\ a.op = "select"
  /\ dbIndex' = [dbIndex EXCEPT ![c] = a.db]
  /\ UNCHANGED <<store, watchVars>>

(* Mutant: without clearDirtyCas.                                           *)
unwatchStaysDirty(c, a) ==
  /\ a.op = "unwatch"
  /\ unwatchAllKeys(c)
  /\ UNCHANGED <<store, dbIndex, dirtyCas>>

unwatch(c, a) ==
  /\ a.op = "unwatch"
  /\ unwatchAllKeys(c)
  /\ dirtyCas' = [dirtyCas EXCEPT ![c] = FALSE]
  /\ UNCHANGED <<store, dbIndex>>

callCommand(c, a) == KeyspaceCommand(c, a) \/ select(c, a) \/ unwatch(c, a)

(***************************************************************************)
(* Connections.                                                            *)
(***************************************************************************)

(* onAcceptable: a fresh Client under the descriptor.                       *)
onAcceptable(c) ==
  /\ loop = Idle
  /\ c \notin open
  /\ open' = open \cup {c}
  /\ UNCHANGED <<keyspaceVars, dbIndex, inMulti, multiError, queue, sent, watchVars, loop>>

(* closeClient: QUIT, the peer's shutdown, an I/O or a protocol error.  The *)
(* Client is destroyed; what is left is the state of a fresh one.           *)
closeClient(c) ==
  /\ loop = Idle
  /\ c \in open
  /\ unwatchAllKeys(c)
  /\ resetMultiState(c)
  /\ open' = open \ {c}
  /\ dbIndex' = [dbIndex EXCEPT ![c] = 0]
  /\ UNCHANGED <<keyspaceVars, loop>>

(***************************************************************************)
(* dispatch.  Commands that only answer an error and change nothing (a     *)
(* nested MULTI, WATCH inside MULTI, EXEC or DISCARD outside) are left out.*)
(***************************************************************************)

Ready(c) == loop = Idle /\ c \in open

(* Mutant: the error is answered but the transaction is not poisoned.       *)
RejectSilently(c) ==
  /\ Ready(c)
  /\ inMulti[c]
  /\ sent[c] <= MaxQueue
  /\ sent' = [sent EXCEPT ![c] = @ + 1]
  /\ UNCHANGED <<keyspaceVars, open, dbIndex, inMulti, multiError, queue, watchVars, loop>>

(* The reject lambda, for a command other than EXEC: unknown, of the wrong  *)
(* arity, not authenticated or not allowed to a subscriber.                 *)
Reject(c) ==
  /\ Ready(c)
  /\ inMulti[c]
  /\ sent[c] <= MaxQueue
  /\ multiError' = [multiError EXCEPT ![c] = TRUE]
  /\ sent' = [sent EXCEPT ![c] = @ + 1]
  /\ UNCHANGED <<keyspaceVars, open, dbIndex, inMulti, queue, watchVars, loop>>

(* The reject lambda, for EXEC: also outside MULTI.                         *)
RejectExec(c) ==
  /\ Ready(c)
  /\ discardTransaction(c)
  /\ UNCHANGED <<keyspaceVars, open, dbIndex, loop>>

(* Inside MULTI a command that passed the checks is queued.                 *)
queueCommand(c, a) ==
  /\ Ready(c)
  /\ inMulti[c]
  /\ sent[c] < MaxQueue
  /\ queue' = [queue EXCEPT ![c] = Append(@, a)]
  /\ sent' = [sent EXCEPT ![c] = @ + 1]
  /\ UNCHANGED <<keyspaceVars, open, dbIndex, inMulti, multiError, watchVars, loop>>

(* Outside MULTI it runs.                                                   *)
dispatch(c, a) ==
  /\ Ready(c)
  /\ ~inMulti[c]
  /\ callCommand(c, a)
  /\ UNCHANGED <<now, open, inMulti, multiError, queue, sent, loop>>

multi(c) ==
  /\ Ready(c)
  /\ ~inMulti[c]
  /\ inMulti' = [inMulti EXCEPT ![c] = TRUE]
  /\ UNCHANGED <<keyspaceVars, open, dbIndex, multiError, queue, sent, watchVars, loop>>

discard(c) ==
  /\ Ready(c)
  /\ inMulti[c]
  /\ discardTransaction(c)
  /\ UNCHANGED <<keyspaceVars, open, dbIndex, loop>>

watch(c, S) ==
  /\ Ready(c)
  /\ ~inMulti[c]
  /\ WatchKeys(c, {dbIndex[c]} \X S)
  /\ UNCHANGED <<keyspaceVars, clientVars, dirtyCas, changed, loop>>

(* RESET is a control command: it ends a transaction as DISCARD does.       *)
reset(c) ==
  /\ Ready(c)
  /\ discardTransaction(c)
  /\ dbIndex' = [dbIndex EXCEPT ![c] = 0]
  /\ UNCHANGED <<keyspaceVars, open, loop>>

(* EXEC answers EXECABORT or null, and the transaction is over.             *)
execRefused(c) ==
  /\ Ready(c)
  /\ inMulti[c]
  /\ multiError[c] \/ dirtyCas[c]
  /\ discardTransaction(c)
  /\ UNCHANGED <<keyspaceVars, open, dbIndex, loop>>

(* Mutant: without the dirtyCas test.                                       *)
execUnchecked(c) ==
  /\ Ready(c)
  /\ inMulti[c]
  /\ ~multiError[c]
  /\ discardTransaction(c)
  /\ loop' = Exec(c, queue[c])
  /\ UNCHANGED <<keyspaceVars, open, dbIndex>>

(* EXEC takes the queue, ends the transaction, and only then runs it.       *)
exec(c) ==
  /\ Ready(c)
  /\ inMulti[c]
  /\ ~multiError[c]
  /\ ~dirtyCas[c]
  /\ discardTransaction(c)
  /\ loop' = Exec(c, queue[c])
  /\ UNCHANGED <<keyspaceVars, open, dbIndex>>

execNext ==
  /\ loop.in = "exec"
  /\ loop.queue # << >>
  /\ callCommand(loop.client, Head(loop.queue))
  /\ loop' = Exec(loop.client, Tail(loop.queue))
  /\ UNCHANGED <<now, open, inMulti, multiError, queue, sent>>

execDone ==
  /\ loop.in = "exec"
  /\ loop.queue = << >>
  /\ loop' = Idle
  /\ UNCHANGED <<keyspaceVars, clientVars, watchVars>>

(***************************************************************************)
(* Time and the cron.                                                      *)
(***************************************************************************)

(* The loop refreshes its clock between callbacks only.                     *)
Tick ==
  /\ loop = Idle
  /\ now < MaxTime
  /\ now' = now + 1
  /\ UNCHANGED <<store, clientVars, watchVars, loop>>

serverCron ==
  /\ loop = Idle
  /\ loop' = Cron(0, 0)
  /\ UNCHANGED <<keyspaceVars, clientVars, watchVars>>

(* Mutant: one database too many.                                           *)
NextDbPastEnd(db) == IF db < NumDbs THEN Cron(db + 1, 0) ELSE Idle

NextDb(db) == IF db + 1 \in Dbs THEN Cron(db + 1, 0) ELSE Idle

WithTTL(db) == {s \in {db} \X Names : store[s].at # NoTTL}

(* activeExpireCycle returns at once when no key has a deadline.            *)
cronSkip ==
  /\ loop.in = "cron"
  /\ WithTTL(loop.db) = {}
  /\ loop' = NextDb(loop.db)
  /\ UNCHANGED <<keyspaceVars, clientVars, watchVars>>

(* The draws of a round that met a dead key, the keys they delete and the   *)
(* ones among these that were drawn more than once.                         *)
Hits(sample) == {i \in DOMAIN sample : Dead(store[sample[i]])}
Doomed(sample) == {sample[i] : i \in Hits(sample)}
DrawnAgain(sample) ==
  {s \in Doomed(sample) : \E i, j \in Hits(sample) : i < j /\ sample[i] = s /\ sample[j] = s}

(* Another round follows while more than a quarter of the draws were dead.  *)
AfterRound(sample, db, round) ==
  IF (Cardinality(Hits(sample)) * 100) \div Cardinality(DOMAIN sample) > 25 /\ round + 1 < MaxRounds
  THEN Cron(db, round + 1)
  ELSE NextDb(db)

(* randomEntry draws with replacement, so a dead key drawn twice is         *)
(* deleted, announced and counted twice.                                    *)
ExpireSample(sample) ==
  /\ store' = [s \in Slots |-> IF s \in Doomed(sample) THEN Gone ELSE store[s]]
  /\ signalModifiedKey(Doomed(sample), DrawnAgain(sample), {})
  /\ loop' = AfterRound(sample, loop.db, loop.round)

(* One round draws from the keys that have a deadline, SampleSize times or  *)
(* as often as there are such keys.                                         *)
Samples(db) ==
  LET size == Cardinality(WithTTL(db)) IN
  [1 .. (IF size < SampleSize THEN size ELSE SampleSize) -> WithTTL(db)]

activeExpireRound ==
  /\ loop.in = "cron"
  /\ WithTTL(loop.db) # {}
  /\ \E sample \in Samples(loop.db) : ExpireSample(sample)
  /\ RecordChanges
  /\ UNCHANGED <<now, clientVars, watched, watchers, corpse>>

ClientStep(c) ==
  \/ onAcceptable(c) \/ closeClient(c) \/ reset(c)
  \/ \E a \in Commands : dispatch(c, a)

TransactionStep(c) ==
  \/ multi(c) \/ discard(c) \/ execRefused(c) \/ exec(c) \/ Reject(c) \/ RejectExec(c)
  \/ \E a \in Queueable : queueCommand(c, a)
  \/ \E S \in (SUBSET Names) \ {{}} : watch(c, S)

Next ==
  \/ \E c \in Clients : ClientStep(c)
  \/ \E c \in Transactors : TransactionStep(c)
  \/ execNext \/ execDone
  \/ Tick \/ serverCron \/ cronSkip \/ activeExpireRound

Spec == Init /\ [][Next]_vars

(***************************************************************************)
(* Properties.                                                             *)
(***************************************************************************)

(* Every variable has its type.                                             *)
TypeOK ==
  /\ store \in [Slots -> Content]
  /\ now \in 0 .. MaxTime
  /\ open \subseteq Clients
  /\ dbIndex \in [Clients -> Dbs]
  /\ inMulti \in [Clients -> BOOLEAN]
  /\ multiError \in [Clients -> BOOLEAN]
  /\ dirtyCas \in [Clients -> BOOLEAN]
  /\ queue \in [Clients -> Seq(Commands)]
  /\ watched \in [Clients -> SUBSET Slots]
  /\ sawExpired \in [Clients -> SUBSET Slots]
  /\ corpse \in [Clients -> SUBSET Slots]
  /\ changed \in [Clients -> SUBSET Slots]
  /\ watchers \in [Slots -> SUBSET Clients]
  /\ sent \in [Clients -> Nat]
  /\ loop \in LoopStates

(* The two sides of a watch agree: the server's index names exactly the     *)
(* open connections whose own list has the slot.  An entry that outlived    *)
(* its connection would mark whoever is given the descriptor next.          *)
WatchIndexExact ==
  \A s \in Slots : watchers[s] = {c \in open : s \in watched[c]}

(* No deadline survives its key: a TTL left in expires_ would be inherited  *)
(* by whatever is stored under the name next, and delete it.                *)
NoOrphanDeadline ==
  \A s \in Slots : store[s].val = NoValue => store[s].at = NoTTL

(* A change of a watched key never goes unnoticed: if its value or deadline *)
(* is not what it was at WATCH, EXEC will refuse.  Only the removal of a    *)
(* key that was past its deadline at WATCH is no change.                    *)
WatchCatchesChange ==
  \A c \in Clients : changed[c] # {} => dirtyCas[c]

(* The verdict does not outlive the watches it is about: a client with      *)
(* nothing watched is never refused on their account.                       *)
DirtyOnlyWhileWatching ==
  \A c \in Clients : dirtyCas[c] => c \in open /\ watched[c] # {}

(* The pardon for an expiry is only held for a key that is still lying      *)
(* there dead, so it can never excuse the death of a live one.              *)
PardonOnlyForCorpse ==
  \A c \in Clients : ~dirtyCas[c] => \A s \in sawExpired[c] : Dead(store[s])

(* A transaction runs whole or not at all: unless it is poisoned its queue  *)
(* holds every command the client sent since MULTI.                         *)
QueueIsWhole ==
  \A c \in Clients : ~multiError[c] => Len(queue[c]) = sent[c]

(* Outside MULTI nothing of an earlier transaction is left, and while a     *)
(* queue runs its owner is outside MULTI and watches nothing: its own       *)
(* commands cannot mark it, nor be mistaken for a later transaction's.      *)
TransactionEndsClean ==
  /\ \A c \in Clients : ~inMulti[c] => queue[c] = << >> /\ ~multiError[c]
  /\ loop.in = "exec" =>
       /\ loop.client \in open
       /\ ~inMulti[loop.client]
       /\ ~dirtyCas[loop.client]
       /\ watched[loop.client] = {}

(* Where a transaction starts to run.                                       *)
Starts(c) == loop = Idle /\ loop' = Exec(c, queue[c])

(* EXEC is a check-and-set: the queue runs only if every key its client     *)
(* watched is, value and deadline, as it was at WATCH, and then with every  *)
(* command that was sent.                                                   *)
ExecIsCheckAndSet ==
  [][\A c \in Clients : Starts(c) => changed[c] = {} /\ Len(queue[c]) = sent[c]]_vars

(* What the client can observe, too, is as it was at WATCH: no watched key  *)
(* that was alive then has passed its deadline.                             *)
ExecSeesWatchedKeysAlive ==
  [][\A c \in Clients :
       Starts(c) => \A s \in watched[c] \ corpse[c] : ~Dead(store[s])]_vars

(* A key that was already dead at WATCH is dirtied only by storing a value: *)
(* deleting what the client saw as gone is not news to it.                  *)
DeletingCorpseIsNoNews ==
  [][\A c \in Clients :
       (~dirtyCas[c] /\ dirtyCas'[c]) =>
          \E s \in watched[c] : s \notin corpse[c] \/ store'[s].val # NoValue]_vars

(* A key stored with a positive TTL is alive when SETEX returns, however    *)
(* long the TTL.                                                            *)
SetexStoresLiveKey ==
  [][\A c \in Clients, a \in Commands :
       (a.op = "setex" /\ dispatch(c, a)) => store'[<<dbIndex[c], a.key>>].at > now]_vars

=============================================================================

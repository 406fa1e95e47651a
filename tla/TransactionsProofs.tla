------------------------- MODULE TransactionsProofs -------------------------
(***************************************************************************)
(* What Transactions promises for any number of clients, databases, keys   *)
(* and values, any queue length and any clock.                             *)
(***************************************************************************)
EXTENDS TransactionsInvariant, CollectionProofs

(* The time that a leaf may take.                                           *)
USE SMTT(40), ZenonT(40), Z3T(40)

(* Every command is sound, by the lemmas on effects.                        *)
LEMMA CommandsAreSound == CommandsSound
BY CommandEffectSound, StoreAfterSound, ZenonT(40) DEF CommandsSound

(* The inductive invariant holds throughout: the keyspace, the watch lists, *)
(* the index and the queues of the server fit together after every command. *)
THEOREM Invariance == Spec => []IInv
BY InitIInv, NextIInv, CommandsAreSound, PTL DEF Spec

(* Every variable keeps its type, whatever commands are sent.               *)
THEOREM TypeCorrect == Spec => []TypeOK
BY Invariance, PTL DEF IInv

(* The server's watch index names exactly the open connections that watch a *)
(* slot (watchKey, unwatchAllKeys, closeClient).                            *)
THEOREM WatchIndexIsExact == Spec => []WatchIndexExact
BY Invariance, PTL DEF IInv, WatchInv

(* No command and no expiry leaves a deadline in expires_ for a key that    *)
(* dict_ does not hold.                                                     *)
THEOREM NoDeadlineIsOrphaned == Spec => []NoOrphanDeadline
BY Invariance, PTL DEF IInv, StoreInv

(* Whatever changes a watched key, a command, a flush or an expiry, its     *)
(* watchers are marked (signalModifiedKey).                                 *)
THEOREM WatchCatchesEveryChange == Spec => []WatchCatchesChange
BY Invariance, PTL DEF IInv, WatchInv

(* A client is marked only while it watches something.                      *)
THEOREM DirtyMeansWatching == Spec => []DirtyOnlyWhileWatching
BY Invariance, PTL DEF IInv, WatchInv

(* The expired flag of a watch never excuses the death of a live key.       *)
THEOREM PardonIsForCorpses == Spec => []PardonOnlyForCorpse
BY Invariance, PTL DEF IInv, WatchInv

(* A queue that was not poisoned holds all that was sent since MULTI.       *)
THEOREM QueueStaysWhole == Spec => []QueueIsWhole
BY Invariance, PTL DEF IInv, QueueInv

(* EXEC, DISCARD, RESET and close leave nothing of a transaction behind.    *)
THEOREM TransactionsEndClean == Spec => []TransactionEndsClean
BY Invariance, PTL DEF IInv, QueueInv

(* EXEC starts to run a queue only if no watched key changed since WATCH,   *)
(* and then it runs the whole of it.                                        *)
THEOREM ExecChecksAndSets == Spec => ExecIsCheckAndSet
<1> DEFINE A == \A c \in Clients : Starts(c) => changed[c] = {} /\ Len(queue[c]) = sent[c]
<1>1. ASSUME IInv, [Next]_vars PROVE [A]_vars
  <2> SUFFICES ASSUME Next, NEW c \in Clients, Starts(c)
               PROVE  changed[c] = {} /\ Len(queue[c]) = sent[c]
    BY <1>1
  <2>1. exec(c)
    <3>1. loop = Idle /\ loop' = Exec(c, queue[c]) /\ loop' # Idle
      BY DEF Starts, Exec, Idle
    <3>2. ASSUME NEW d \in Clients, exec(d) PROVE d = c
      BY <3>1, <3>2 DEF exec, Exec
    <3>3. PICK d \in Clients : ClientStep(d) \/ TransactionStep(d) \/ serverCron
      BY <3>1, TransactionsAssumption, ZenonT(30)
      DEF Next, execNext, execDone, Tick, cronSkip, activeExpireRound, Idle
    <3>4. ~serverCron
      BY <3>1, ZenonT(30) DEF serverCron, Cron, Exec
    <3>5. ~ClientStep(d)
      BY <3>1 DEF ClientStep, onAcceptable, closeClient, reset, dispatch
    <3>6. exec(d)
      BY <3>1, <3>3, <3>4, <3>5, ZenonT(30)
      DEF TransactionStep, multi, discard, execRefused, Reject, RejectExec, queueCommand, watch
    <3> QED
      BY <3>2, <3>6
  <2>2. ~dirtyCas[c] /\ ~multiError[c]
    BY <2>1 DEF exec
  <2> QED
    BY <1>1, <2>2 DEF IInv, WatchInv, QueueInv, WatchCatchesChange, QueueIsWhole
<1> QED
  BY <1>1, Invariance, PTL DEF Spec, ExecIsCheckAndSet

=============================================================================

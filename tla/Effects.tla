------------------------------ MODULE Effects ------------------------------
(***************************************************************************)
(* What a command handler may store, and what running it may leave.  The   *)
(* words in which CollectionProofs speaks of the handlers and              *)
(* TransactionsInvariant relies on them.                                   *)
(***************************************************************************)
EXTENDS Keyspace

(* A content a database may hold: a deadline only with a value, and no      *)
(* collection without elements.                                             *)
Sound(c) ==
  /\ c \in Content
  /\ c.val = NoValue => c.at = NoTTL
  /\ c.val # NoValue => ~IsEmpty(c.val)

SoundStore == \A s \in Slots : Sound(store[s])

(* What the handler finds in a slot when it comes to write it.              *)
FoundBy(e, s) == IF s \in e.looked THEN Found(s) ELSE store[s]

(* An effect looks up, writes and announces slots, writes sound contents,   *)
(* and what it writes without announcing it was there before.               *)
SoundEffect(e) ==
  /\ e.looked \subseteq Slots
  /\ DOMAIN e.writes \subseteq Slots
  /\ e.events \subseteq Slots
  /\ \A s \in DOMAIN e.writes : Sound(e.writes[s])
  /\ \A s \in DOMAIN e.writes \ e.events : e.writes[s] = FoundBy(e, s)

(* What the run of an effect may leave: a sound store, in which every slot  *)
(* that changed is one it announced or a dead key its lookups deleted.      *)
SoundResult(e) ==
  /\ StoreAfter(e) \in [Slots -> Content]
  /\ ExpiredBy(e) \in SUBSET Slots
  /\ e.events \in SUBSET Slots
  /\ \A s \in Slots :
       /\ Sound(StoreAfter(e)[s])
       /\ \/ s \in e.events
          \/ s \in ExpiredBy(e) /\ Dead(store[s]) /\ StoreAfter(e)[s] = Gone
          \/ s \notin ExpiredBy(e) /\ StoreAfter(e)[s] = store[s]

=============================================================================

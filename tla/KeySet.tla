------------------------------- MODULE KeySet -------------------------------
(***************************************************************************)
(* What a hash table promises its callers: it is a set of keys, and every  *)
(* operation answers by that set.                                          *)
(***************************************************************************)
CONSTANT Keys

VARIABLES members,  \* the keys held
          reply     \* the last key asked about, and whether it was there

NoReply == [key |-> "none"]
Answer(k, was) == [key |-> k, was |-> was]

Find(k) == members' = members
Insert(k) == members' = members \cup {k}
Erase(k) == members' = members \ {k}

Operation(k) ==
  /\ Find(k) \/ Insert(k) \/ Erase(k)
  /\ reply' = Answer(k, k \in members)

Clear == members' = {} /\ UNCHANGED reply

Init == members = {} /\ reply = NoReply

Next == (\E k \in Keys : Operation(k)) \/ Clear

Spec == Init /\ [][Next]_<<members, reply>>

=============================================================================

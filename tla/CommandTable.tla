---------------------------- MODULE CommandTable ----------------------------
(***************************************************************************)
(* All the commands on keys: the arguments they take and their effect.     *)
(***************************************************************************)
EXTENDS ZSetCommands

CommandOps == StringOps \cup KeyOps \cup CollectionOps \cup ZSetOps

CommandArgs == StringArgs \cup KeyArgs \cup CollectionArgs \cup ZSetArgs

(* callCommand's way from the command table to the handler.                 *)
CommandEffect(db, a) ==
  CASE a.op \in StringOps     -> StringEffect(db, a)
    [] a.op \in KeyOps        -> KeyEffect(db, a)
    [] a.op \in CollectionOps -> CollectionEffect(db, a)
    [] a.op \in ZSetOps       -> ZSetEffect(db, a)

=============================================================================

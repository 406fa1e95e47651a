------------------------------- MODULE MCDict -------------------------------
(***************************************************************************)
(* Dict with tables that grow and shrink within a handful of keys.         *)
(***************************************************************************)
EXTENDS Dict

(* Keys are numbers, hashed to what collides at every size and what does    *)
(* not.                                                                     *)
MCKeys == 1 .. 4
MCHash == <<0, 1, 2, 4>>

(* The least InitialSize * 2^i that is at least n.                          *)
nextPowerOfTwo(n) ==
  LET p == CHOOSE i \in 0 .. n : /\ InitialSize * 2 ^ i >= n
                                 /\ \A j \in 0 .. i - 1 : InitialSize * 2 ^ j < n
  IN  InitialSize * 2 ^ p

=============================================================================

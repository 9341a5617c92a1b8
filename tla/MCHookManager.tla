--------------------------- MODULE MCHookManager ---------------------------
(* Instances of HookManager for TLC: two functions fa and fb, a forwarding  *)
(* stub st that jumps to fa, and the address wild a mis-encoded rel32 jump  *)
(* lands at.                                                                *)
EXTENDS HookRefinement, TLC

CONSTANTS fa, fb, st, wild, d1, d2

MCForward == [a \in Addr |-> IF a = st THEN fa ELSE NoAddr]

MCFar == {}

\* d1 is in rel32 reach of fa.
MCNear == {<<fa, d1>>}

MCBatches == {<< <<fa, d1>>, <<fb, d2>> >>}

OneBatch == {<< <<fa, d1>> >>}

Symmetry == Permutations(Threads) \cup Permutations(Ctx)
=============================================================================

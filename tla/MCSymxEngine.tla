---------------------------- MODULE MCSymxEngine ----------------------------
(* Instances of SymxEngine for TLC: all programs of four instructions, one    *)
(* from each of four sets.  Address 4 is StopAt.                              *)
EXTENDS SymxEngine

I(op, r, c, t) == [op |-> op, r |-> r, c |-> c, t |-> t]

Mov(r, c) == I("mov", r, c, 0)
Jeq(r, c, t) == I("jeq", r, c, t)
Jmp(t) == I("jmp", "r0", 0, t)
Jmpr(r) == I("jmpr", r, 0, 0)
Load(r) == I("load", r, 0, 0)
Store(r) == I("store", r, 0, 0)
Call(t) == I("call", "r0", 0, t)
Callr(r) == I("callr", r, 0, 0)
Ret == I("ret", "r0", 0, 0)

Of(A, B, C, D) == {<<a, b, c, d>> : a \in A, b \in B, c \in C, d \in D}

\* Branches, jumps and calls through registers and memory, diamonds and loops, with
\* no jump to itself and no store.
Forking == Of({Jeq("r0", 1, 2), Jeq("r0", 3, 3), Jmpr("r0"), Callr("r0"), Call(2), Ret},
              {Mov("r1", 2), Mov("r0", 1), Jeq("r0", 3, 3), Jmp(3), Call(3)},
              {Mov("r1", 4), Jeq("r0", 3, 4), Jeq("r1", 4, 1), Jmp(1), Jmpr("r0"), Call(1), Ret},
              {Mov("r1", 1), Jeq("r0", 4, 1), Jmpr("r1"), Jmp(4)})

\* With loads and stores.
Storing == Of({Jeq("r0", 1, 2), Store("r1"), Ret},
              {Mov("r1", 4), Store("r1"), Jmp(3), Load("r0")},
              {Store("r0"), Store("r1"), Jeq("r0", 3, 4), Jmpr("r1"), Ret},
              {Load("r1"), Jeq("r0", 4, 1)})

With(p, smt, gives_up, block, merging, depth, targets) ==
  [prog |-> p, smt |-> smt, gives_up |-> gives_up, block |-> block,
   enable_merging |-> merging, max_fork_depth |-> depth, max_enumerate_targets |-> targets]

\* Merging with Z3, with and without room for every target; without Z3; with a Z3 that
\* gives up; memory without merging; and run_block.
AllSetups ==
       {With(p, TRUE, FALSE, FALSE, TRUE, 1, 3) : p \in Forking}
  \cup {With(p, TRUE, FALSE, FALSE, TRUE, 2, 2) : p \in Forking}
  \cup {With(p, FALSE, FALSE, FALSE, TRUE, 2, 2) : p \in Forking}
  \cup {With(p, TRUE, TRUE, FALSE, FALSE, 1, 2) : p \in Storing}
  \cup {With(p, TRUE, FALSE, FALSE, FALSE, 2, 2) : p \in Storing}
  \cup {With(p, TRUE, FALSE, TRUE, FALSE, 2, 2) : p \in Storing}

ASSUME MergersStoreNothing /\ NoSelfJump
=============================================================================

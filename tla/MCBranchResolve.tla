--------------------------- MODULE MCBranchResolve ---------------------------
(* Instances of BranchResolve for TLC: words of four bits, two registers.    *)
EXTENDS BranchResolve

Slot(a) == [static |-> TRUE, addr |-> a, seg |-> FALSE, far |-> FALSE]
Moving == [static |-> FALSE, addr |-> 0, seg |-> FALSE, far |-> FALSE]
InSegment == [Slot(12) EXCEPT !.seg = TRUE]
Far == [Slot(12) EXCEPT !.far = TRUE]

MCInstr ==
    {[op |-> "movi", r |-> "a", size |-> z, imm |-> 14, len |-> 2] : z \in {1, 4, 8}}
    \cup {[op |-> "lea", r |-> "a", size |-> 8, imm |-> 8, len |-> 2]}
    \cup {[op |-> "load", r |-> "a", size |-> z, slot |-> Slot(12), len |-> 2] : z \in {4, 8}}
    \cup {[op |-> "alu", f |-> f, r |-> "a", size |-> 8, imm |-> 6, len |-> 1] : f \in {"add", "sar"}}
    \cup {[op |-> "alu", f |-> "add", r |-> "b", size |-> 8, imm |-> 6, len |-> 1]}
    \cup {[op |-> "pushi", imm |-> 14, len |-> 1], [op |-> "movsp4", imm |-> 1, len |-> 2]}
    \cup {[op |-> "pushr", r |-> r, len |-> 1] : r \in {"a", "b"}}
    \cup {[op |-> o, r |-> "a", len |-> 1] : o \in {"jmpr", "callr"}}
    \cup {[op |-> "jmpm", slot |-> t, len |-> 2] : t \in {Slot(12), Moving, InSegment, Far}}
    \cup {[op |-> "jmp", imm |-> t, len |-> 1] : t \in {0, 4}}
    \cup {[op |-> o, imm |-> 8, len |-> 1] : o \in {"jcc", "call"}}
    \cup {[op |-> "ret", len |-> 1], [op |-> "other", len |-> 1], [op |-> "leave", back |-> FALSE, len |-> 1]}
Opt(memory, chains, fold, deep, insns) ==
    [follow_memory |-> memory, follow_chains |-> chains, fold_arith |-> fold,
     max_chain_depth |-> deep, max_idiom_insns |-> insns]
MCOptions == {Opt(TRUE, TRUE, TRUE, 3, 4), Opt(TRUE, TRUE, FALSE, 1, 3), Opt(TRUE, FALSE, TRUE, 3, 2),
              Opt(FALSE, TRUE, TRUE, 3, 2)}
MCPointers == {4, 14}
=============================================================================

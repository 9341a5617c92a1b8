------------------------------ MODULE Trampolines ------------------------------
(***************************************************************************)
(* The instructions of a buffer of the code generator, hooked: what the    *)
(* relocation code makes of every instruction method, in every order the   *)
(* generator's client writes them.                                         *)
(***************************************************************************)
EXTENDS CodeGen, Relocation
LOCAL INSTANCE SequencesExt

CONSTANTS
    Places,     \* pairs [src, dest] of a function's and a trampoline's addresses
    HookSizes   \* the numbers of bytes a hook needs

\* An operand with the address it stands for, at the end of its instruction.
Resolved(op, end) ==
    CASE op[1] = "rel" -> <<"target", After(end, op[2])>>
      [] op[1] = "mem" -> IF op[6] THEN <<"at", After(end, op[5])>> ELSE op
      [] OTHER -> op
Meaning(d, end) == <<d.row, d.kept, [j \in DOMAIN d.row.o |-> Resolved(OperandOf(d, d.row.o[j]), end)]>>

\* The targets an instruction refers to must be in reach of a displacement from its new place.
InReach(d, srcEnd, destEnd) ==
    \A j \in DOMAIN d.row.o :
        LET op == Resolved(OperandOf(d, d.row.o[j]), srcEnd)
        IN  op[1] \in {"target", "at"} => FitsInt32(Minus(op[2], destEnd))
\* What the relocation code handles: no short branch, none of 16 bits, no VEX, EVEX or REX2.
Handled(d) ==
    /\ CanRelocate(d) /\ d.h.kind = "plain"
    /\ RelOffsets(d) # <<>> => \h66 \notin ToSet(d.kept)
Movable(d, srcEnd, destEnd) == Handled(d) /\ InReach(d, srcEnd, destEnd)

JumpsTo(c, at, to) ==
    \/ c[1] = \hE9 /\ After(After(at, 5), Value(c, 1, 4)) = to
    \/ SubSeq(c, 1, 2) = <<\h48, \hB8>> /\ SubSeq(c, 3, 10) = to /\ SubSeq(c, 11, 12) = <<\hFF, \hE0>>

KeepsMeaning(d, moved, srcEnd, destEnd) ==
    /\ Decoded(moved) /\ Meaning(moved, destEnd) = Meaning(d, srcEnd)
    /\ ~IsPcRelative(d) => moved = d

Faithful(copy, stolen, items, p) ==
    /\ \A k \in items \cap Instructions :
          LET end == log[k].at + log[k].len
          IN  KeepsMeaning(Reading(log[k]), Decode(SubSeq(copy, log[k].at + 1, Len(copy))),
                           After(p.src, end), After(p.dest, end))
    /\ JumpsTo(SubSeq(copy, stolen + 1, Len(copy)), After(p.dest, stolen), After(p.src, stolen))

Works(stolen, items, p) ==
    (\A k \in items \cap Instructions :
        LET end == log[k].at + log[k].len IN Movable(Reading(log[k]), After(p.src, end), After(p.dest, end)))
    => Faithful(CreateTrampoline(buf, stolen, p.src, p.dest), stolen, items, p)

(* A trampoline does what the bytes it replaces did: whole instructions are
   stolen, each of them reads the same at its new place, operands relative to
   RIP and branches included, which still mean the same addresses, and behind
   them a jump leads to the first byte that was not stolen.  Left out are the
   instructions the relocation code does not handle and those whose targets
   are out of reach, which it moves all the same.                            *)
TrampolinesWork == Brief =>
    \A n \in HookSizes : \A stolen \in {CalcStolenBytes(buf, n)} :
        LET items == {k \in DOMAIN log : log[k].at < stolen /\ log[k].len > 0}
        IN  stolen > 0 /\ items \subseteq {k \in DOMAIN log : log[k].kind \in {"call", "jump", "frame", "nops"}}
            => \A p \in Places : Works(stolen, items, p)
=============================================================================

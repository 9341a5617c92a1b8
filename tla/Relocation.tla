------------------------------ MODULE Relocation ------------------------------
(***************************************************************************)
(* Moving instructions (src/lib/relocation/relocation.cpp, and the same    *)
(* loop in src/lib/hook/hook.cpp): how many whole instructions a hook      *)
(* steals, their copy at another address with its RIP-relative operands    *)
(* and 32-bit branches adjusted, and the jump that leads back.             *)
(*                                                                         *)
(* An address is the sequence of its eight bytes, the lowest first, so     *)
(* that sums wrap at 64 bits and a displacement is what is left of a       *)
(* difference when it is cut to four bytes.                                *)
(***************************************************************************)
EXTENDS Decoder
LOCAL INSTANCE SequencesExt

Add(a, b) ==
    LET Carry(k, c) == (a[k] + b[k] + c) \div 256
        c1 == Carry(1, 0)  c2 == Carry(2, c1)  c3 == Carry(3, c2)  c4 == Carry(4, c3)
        c5 == Carry(5, c4) c6 == Carry(6, c5)  c7 == Carry(7, c6)
        carry == <<0, c1, c2, c3, c4, c5, c6, c7>>
    IN  [k \in 1..8 |-> (a[k] + b[k] + carry[k]) % 256]
Minus(a, b) == Add(Add(a, [k \in 1..8 |-> 255 - b[k]]), Little(1, 8))
After(a, n) == Add(a, Little(n, 8))

\* The int32_t at an offset of the code, as 64 bits, and the test that one is enough.
Int32At(c, i) == [k \in 1..8 |-> IF k <= 4 THEN At(c, i + k - 1) ELSE IF At(c, i + 3) >= 128 THEN 255 ELSE 0]
FitsInt32(w) == w = Int32At(w, 0)
Low4(w) == SubSeq(w, 1, 4)
Patch(c, i, w) == [k \in DOMAIN c |-> IF k \in i + 1 .. i + 4 THEN w[k - i] ELSE c[k]]

----------------------------------------------------------------------------
(* Jumps *)

RelJumpSize == 5
CanRel32(from, to) == FitsInt32(Minus(to, After(from, RelJumpSize)))
RelJump(at, to) == <<\hE9>> \o Low4(Minus(to, After(at, RelJumpSize)))

\* MOV RAX, target; JMP RAX; two nops.
AbsJump(to) == <<\h48, \hB8>> \o to \o <<\hFF, \hE0, \h90, \h90>>

GenerateJump(at, to) == IF CanRel32(at, to) THEN RelJump(at, to) ELSE AbsJump(to)

----------------------------------------------------------------------------
(* What can move *)

RipModRM(modrm) == Bits(modrm, 6, 2) = 0 /\ modrm % 8 = 5
RelOffsets(d) == SelectSeq(d.row.o, LAMBDA o : o \in {"Jb", "Jz", "Jd"})
ShortBranch(d) == RelOffsets(d) # <<>> /\ Head(RelOffsets(d)) = "Jb"

IsRipRelative(d) == Decoded(d) /\ d.row.m /\ RipModRM(d.modrm)
IsPcRelative(d) == IsRipRelative(d) \/ (Decoded(d) /\ RelOffsets(d) # <<>>)
CanRelocate(d) == Decoded(d) /\ ~ShortBranch(d)

\* Slip: without the REX prefix.
ModRMAt_NoRex(d) ==
    Len(d.kept) + (IF d.row.map = One THEN 1 ELSE IF d.row.map = Two THEN 2 ELSE 3)

(* Where the ModRM byte of a decoded instruction is taken to be: right for
   the instructions without VEX, EVEX or REX2.                              *)
ModRMAt(d) ==
    Len(d.kept) + (IF d.h.rex # 0 THEN 1 ELSE 0) + (IF d.row.map = One THEN 1 ELSE IF d.row.map = Two THEN 2 ELSE 3)

----------------------------------------------------------------------------
(* Stealing and moving *)

MaxStolen == 64

\* One turn of calc_stolen_bytes, which gives up with no bytes at all.
Taken(total, d) == IF ~Decoded(d) \/ total + d.len > MaxStolen THEN [total |-> 0, ok |-> FALSE]
                   ELSE [total |-> total + d.len, ok |-> TRUE]
Window(c, i) == SubSeq(c, i + 1, IF Len(c) < i + 15 THEN Len(c) ELSE i + 15)
CalcStolenBytes(c, least) ==
    FoldLeft(LAMBDA m, k : IF ~m.ok \/ m.total >= least THEN m
                           ELSE Taken(m.total, Decode(Window(c, m.total))),
             [total |-> 0, ok |-> TRUE], [k \in 1..least |-> k]).total

\* A distance that led to a target from the end of the instruction at src, from its end at dest.
NewDistance(old, src, dest, next) == Low4(Minus(Add(After(src, next), old), After(dest, next)))

FixRip(c, off, d, src, dest) ==
    LET at == off + ModRMAt(d)
    IN  IF d.row.m /\ at < off + d.len /\ RipModRM(At(c, at))
        THEN Patch(c, at + 1, NewDistance(Int32At(c, at + 1), src, dest, off + d.len)) ELSE c

FixBranch(c, off, d, src, dest) ==
    LET at == off + d.len - 4
    IN  IF RelOffsets(d) = <<>> \/ ShortBranch(d) THEN c
        ELSE Patch(c, at, NewDistance(Int32At(c, at), src, dest, off + d.len))

Moved(m, d, src, dest) ==
    IF ~Decoded(d) THEN [m EXCEPT !.ok = FALSE]
    ELSE [code |-> FixBranch(FixRip(m.code, m.off, d, src, dest), m.off, d, src, dest),
          off |-> m.off + d.len, count |-> m.count + 1, ok |-> TRUE]

\* The bytes copied from src to dest, one instruction after the other.
RelocateBlock(copy, src, dest) ==
    FoldLeft(LAMBDA m, b : IF ~m.ok \/ m.off >= Len(copy) THEN m
                           ELSE Moved(m, Decode(SubSeq(m.code, m.off + 1, Len(copy))), src, dest),
             [code |-> copy, off |-> 0, count |-> 0, ok |-> TRUE], copy)

\* The trampoline at dest of a hook of a function at src, empty if it cannot be made.
WithJumpBack(m, stolen, src, dest) ==
    IF m.ok THEN m.code \o GenerateJump(After(dest, stolen), After(src, stolen)) ELSE <<>>
CreateTrampoline(c, stolen, src, dest) ==
    IF stolen = 0 THEN <<>> ELSE WithJumpBack(RelocateBlock(SubSeq(c, 1, stolen), src, dest), stolen, src, dest)
=============================================================================

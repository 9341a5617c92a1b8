------------------------------- MODULE MCCodeGen -------------------------------
(***************************************************************************)
(* The instances of CodeGen that TLC checks.                               *)
(*                                                                         *)
(* Three hundred odd methods write bytes that the decoder does not take    *)
(* for what their names say.  They fall into a few classes, named here,    *)
(* each with its reason; README.md says more about them.  What is checked  *)
(* is everything else.                                                     *)
(***************************************************************************)
EXTENDS Trampolines, Assembler

HasArg(f, kind) == \E k \in DOMAIN f.l.a : f.l.a[k] = kind
LastBut(s, n) == s[Len(s) - n]

\* The XMM overload of an MMX instruction, without its prefix 66.
MmxNames == {Methods[i].m : i \in {j \in DOMAIN Methods : HasArg(Methods[j], "q")}}
Missing66(f) == f.l.enc = "plain" /\ f.p = <<>> /\ HasArg(f, "x") /\ f.m \in MmxNames
\* An opcode that contains its ModRM byte, written with another one.
TwoModRM(f) == f.l.a = <<>> /\ Len(f.o) > 2 /\ LastBut(f.o, 0) = 8 * (LastBut(f.o, 1) \div 8)
\* The decoder reads the leading 9B as an instruction of its own.
LeadingWait(f) == f.p = <<\h9B>> \/ (f.o[1] = \h9B /\ Len(f.o) > 1)
\* The third byte of the opcode is a ModRM byte to the decoder, or the other way round.
SecondOpcode(f) ==
    f.l.a = <<>> /\ \E k \in 2..Len(f.o) : f.o[k - 1] = \h0F /\ f.o[k] \in {\h01, \h1E}
\* Opmask registers: the decoder looks up CMOVcc and SETcc.
Opmasks(f) == f.l \in {VRR0, VMR, VRM, VRRR0, VRRIb0}
\* The decoder does not tell pd from ps by VEX.W, nor EVEX arithmetic from the SSE rows.
FusedDouble(f) == f.l.enc = "vex" /\ f.p[1] = 2 /\ f.p[4] = 1 /\ f.o[1] \in \h96..\hBF
EvexArithmetic(f) ==
    f.l.enc = "evex" /\ f.p[1] = 1 /\ f.o[1] \in {\h58, \h59, \h5C, \h5D, \h5E, \h5F, \hC2}

\* Without its immediate or its operands; a prefix that is no instruction; the opcode of another row.
LacksOperands == {"aad", "aam", "adx", "amx", "enter", "in", "out", "retf", "retn",
    "lock", "rep", "repe", "repz", "repne", "repnz", "data16", "addr32", "nop", "vzeroall", "vzeroupper"}
\* The register overload of an instruction that takes only memory, or of an FPU one that takes ST(i).
TakesMemory == {"callf", "cmpxchg8b", "clflush", "fadd", "fbld", "fbstp", "fcom", "fcomp", "fdiv", "fdivr",
    "fiadd", "ficom", "ficomp", "fidiv", "fidivr", "fild", "fimul", "fist", "fistp", "fisttp", "fisub",
    "fisubr", "fld", "fldcw", "fldenv", "fmul", "fnsave", "fnstcw", "fnstenv", "fnstsw", "frstor", "fst",
    "fstp", "fsub", "fsubr", "fxrstor", "fxsave", "invlpg", "jmpf", "ldmxcsr", "lgdt", "lidt",
    "prefetchnta", "prefetcht0", "prefetcht1", "prefetcht2", "sgdt", "sidt", "sldt", "smsw", "stmxcsr",
    "str", "vmclear", "vmptrld", "vmptrst", "vmxon", "xrstor", "xsave", "imul", "incsspq", "rdsspq"}
\* The decoder's row has another name, or other operands.
OtherRow == {"fcom", "fcomp", "fld", "frstor", "fxrstor", "xrstor", "prefetchnta", "prefetcht0", "prefetcht1",
    "prefetcht2", "prefetchw", "xsaveopt", "imul", "cmpxchg16b"}
\* A store with the opcode of the load.
StoresLoad == {"movaps", "movapd", "movd", "movdqa", "movdqu", "movhpd", "movhps", "movlpd", "movlps",
    "movntq", "movsd", "movss", "movupd", "movups"}
\* The register form with the opcode of the memory form, or of the shift group.
OtherForm == {"btc", "movbe", "wrssq", "wrussq", "bndstx", "bndldx", "crc32", "invept", "invvpid", "xchg",
    "movdq2q", "maskmovq", "movq2dq", "movd", "pshufw", "pmovmskb", "psllw", "pslld", "psllq", "psraw",
    "psrad", "psrlw", "psrld", "psrlq"}
\* No REX bit for the decoder; no segment from the generator; no immediate.
Unextended == {"pslldq", "psrldq", "cvtpi2pd", "vbroadcastf128", "dppd", "dpps", "palignr"}
\* The three-operand forms of rows the table lacks or writes with fewer operands.
MissingRow == {"pextrb", "pextrw", "pextrq", "pinsrb", "pinsrw", "pinsrq", "insertps", "vpermps", "vpermpd",
    "vpermilps", "vpermilpd", "vpternlogq", "vshufi32x4", "vshufi64x2"}

Crooked(f) ==
    \/ Missing66(f) \/ TwoModRM(f) \/ LeadingWait(f) \/ SecondOpcode(f) \/ Opmasks(f)
    \/ FusedDouble(f) \/ EvexArithmetic(f)
    \/ f.l.a = <<>> /\ f.m \in LacksOperands
    \/ f.l.a = <<"r">> /\ f.m \in TakesMemory
    \/ f.l.a = <<"m">> /\ f.m \in OtherRow
    \/ f.l.a = <<"m", "x">> /\ f.m \in StoresLoad
    \/ f.l.a = <<"ib">> /\ f.m = "xabort"
    \/ f.l.a \in {<<"r", "r">>, <<"r", "ib">>} /\ f.m = "in"
    \/ Len(f.l.a) \in {2, 3} /\ f.l.a[2] \in {"m", "r", "q", "x"} /\ f.m \in OtherForm
       /\ f.l.a \notin {<<"x", "x">>, <<"m", "x">>, <<"r", "r", "r">>}
    \/ Len(f.l.a) = 2 /\ f.m \in Unextended
    \/ Len(f.l.a) >= 3 /\ f.m \in MissingRow

Sound == {i \in DOMAIN Methods : ~Crooked(Methods[i])}

----------------------------------------------------------------------------
(* Arguments: the registers that need a REX bit and those that do not, and
   the addresses with a special encoding.                                   *)

Gpr(id, bits) == <<"gpr", id, bits>>
Xmm(id) == <<"xmm", id>>
Mmx(id) == <<"mmx", id>>
Imm(v) == <<"imm", v>>
Mem(base, index, scale, disp, size) == <<"mem", base, index, scale, disp, FALSE, size, 0>>
OnRIP == <<"mem", NoReg, NoReg, 1, 16, TRUE, 0, 0>>
InFS == <<"mem", 9, 12, 2, -128, FALSE, 8, \h64>>

Gprs == {Gpr(1, 8), Gpr(2, 64), Gpr(10, 32), Gpr(13, 64)}
Plain64 == {Gpr(1, 64), Gpr(10, 64)}
Xmms == {Xmm(1), Xmm(10)}
LowMems == {Mem(6, NoReg, 1, 0, 8), Mem(4, 7, 1, 8, 4), Mem(5, NoReg, 1, 0, 8), OnRIP}
FewMems == {Mem(6, NoReg, 1, 0, 8), Mem(13, 15, 8, -300, 8), Mem(12, NoReg, 1, 0, 0)}
Mems == LowMems \cup FewMems
        \cup {Mem(4, NoReg, 1, 8, 4), Mem(12, NoReg, 1, 0, 0), InFS, Mem(1, NoReg, 1, 128, 1)}
Imms == {Imm(5), Imm(-2), Imm(1000)}

AllSamples ==
    {<<>>} \cup {<<a>> : a \in Gprs \cup Mems \cup Imms}
    \cup {<<Gpr(1, 8), Gpr(2, 8)>>, <<Gpr(1, 32), Gpr(10, 32)>>, <<Gpr(9, 64), Gpr(2, 64)>>, <<Gpr(9, 64), Gpr(12, 64)>>}
    \cup (Gprs \cup Mems) \X (Imms \cup {Gpr(1, 8)})
    \cup Plain64 \X Mems \cup Mems \X Plain64
    \cup Xmms \X Mems \cup Mems \X Xmms
    \cup {<<Xmm(1), Xmm(10)>>, <<Xmm(9), Xmm(2)>>}
    \cup Xmms \X (Imms \cup {Gpr(2, 32), Gpr(10, 32)}) \cup {Gpr(2, 32), Gpr(10, 32)} \X Xmms
    \cup {Mmx(1)} \X (LowMems \cup {Mmx(2), Xmm(2)}) \cup {<<Xmm(1), Mmx(2)>>}
    \cup FewMems \X Xmms \X {Imm(5)} \cup Xmms \X FewMems \X {Imm(5), Xmm(9)}
    \cup {<<Xmm(9), Xmm(2), Xmm(12)>>, <<Xmm(1), Xmm(10), Xmm(3)>>}
    \cup {<<Xmm(9), Xmm(2), Imm(5)>>, <<Xmm(1), Xmm(10), Imm(5)>>}
    \cup Xmms \X {Gpr(2, 32), Gpr(10, 32)} \X {Imm(5)} \cup {Gpr(2, 32), Gpr(10, 32)} \X Xmms \X {Imm(5)}
    \cup {Gpr(1, 64)} \X FewMems \X Plain64 \cup {Gpr(1, 64)} \X Plain64 \X (FewMems \cup {Imm(5)})
    \cup {<<Gpr(1, 64), Gpr(10, 64), Gpr(3, 64)>>, <<Gpr(9, 32), Gpr(2, 32), Gpr(12, 32)>>}
    \cup {<<Xmm(1), Xmm(10), Xmm(3), Imm(5)>>, <<Xmm(9), Xmm(2), Xmm(12), Imm(5)>>}
    \cup {<<Xmm(9), Xmm(2), Xmm(12), Imm(3), Imm(z)>> : z \in {0, 1}}
    \cup {<<Xmm(9), Xmm(2), Xmm(12), Imm(5), Imm(3), Imm(1)>>}

----------------------------------------------------------------------------
(* What moves the labels: long and short jumps, and between them fillers and
   a shift, whose code the assembler writes by hand.                        *)

Among(names) == {i \in DOMAIN Methods : Methods[i].m \in names}
Mixed == Among({"loop", "shl"})
FewSamples == {<<Gpr(12, 64), Gpr(1, 8)>>}
OnePush == {[size |-> 0, regs |-> <<Gpr(3, 64)>>]}
NestedFrames == {[size |-> 0, regs |-> <<Gpr(12, 64), Gpr(3, 64)>>], [size |-> 136, regs |-> <<Gpr(3, 64)>>]}

----------------------------------------------------------------------------
(* Where functions and trampolines are: at the limit of a displacement, and
   out of reach.                                                            *)

Place(src, dest) == [src |-> src, dest |-> dest]
FunctionAt == <<0, 16, 0, 64, 1, 0, 0, 0>>
AllPlaces == {
    Place(FunctionAt, <<\hF0, 15, 0, \hC0, 1, 0, 0, 0>>),
    Place(FunctionAt, <<0, 0, 0, 0, 247, 127, 0, 0>>)}

----------------------------------------------------------------------------
(* Two clients: one that writes every method, alone, behind a push or before
   or behind a hole, and one that writes jumps to labels, nested frames and
   fillers, and clears the generator.                                       *)

MCUsed == [forms |-> Sound, labels |-> Mixed]

MCPlans == [
    forms |-> [samples |-> AllSamples, conditions |-> {4}, data |-> {}, fillers |-> {},
               frames |-> OnePush, calls |-> 1, jumps |-> 0, holes |-> 1, anchors |-> 0, depth |-> 1,
               labels |-> 0, work |-> 2, clears |-> 0],
    labels |-> [samples |-> FewSamples, conditions |-> {4}, data |-> {8}, fillers |-> {126, 127},
                frames |-> NestedFrames, calls |-> 1, jumps |-> 2, holes |-> 1, anchors |-> 1, depth |-> 2,
                labels |-> 2, work |-> 5, clears |-> 1]]
=============================================================================

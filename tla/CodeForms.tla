------------------------------- MODULE CodeForms -------------------------------
(***************************************************************************)
(* The instruction methods of the code generator                           *)
(* (src/include/vedx64/codegen.hpp), one form per overload.                *)
(*                                                                         *)
(* A form has the name m of its method (without the underscore of and_,    *)
(* or_, ...), a layout l, the bytes p before and o from the opcode on, and *)
(* the opcode extension x.  For a VEX or EVEX form p is the opcode map,    *)
(* the code of the mandatory prefix, L and W.                              *)
(*                                                                         *)
(* A layout says what becomes of the arguments a: r a register, x a vector *)
(* and q an MMX register, m memory, ib and imm an immediate, rel a raw     *)
(* distance.  reg, rm and v name the argument in ModRM.reg, ModRM.rm and   *)
(* VEX.vvvv (0: the extension, or none), low the one added to the opcode,  *)
(* rex whether a REX prefix is considered at all, and w the argument whose *)
(* 64 bits set W.  d16 says where a 16-bit first argument puts 66: first,  *)
(* after the REX prefix, or instead of the leading bytes.  alt = <<k, n,   *)
(* c>> adds c to the opcode if argument k has n bits; imm = <<k, kind>>    *)
(* writes argument k; mask is the argument with the opmask of an EVEX form.*)
(***************************************************************************)
EXTENDS Integers, Sequences

Never == 0
Always == 9

Layout(enc, a) ==
    [enc |-> enc, a |-> a, reg |-> 0, rm |-> 0, v |-> 0, low |-> 0, rex |-> FALSE, w |-> Never,
     d16 |-> "no", alt |-> <<>>, imm |-> <<>>, mask |-> 0]
WithImm(l, k, kind) == [l EXCEPT !.imm = <<k, kind>>]
Modrm(a, reg, rm, w) == [Layout("plain", a) EXCEPT !.reg = reg, !.rm = rm, !.rex = TRUE, !.w = w]
NoRex(l) == [l EXCEPT !.rex = FALSE]
Data16(l, where) == [l EXCEPT !.d16 = where]
Narrow(l) == [l EXCEPT !.alt = <<1, 8, -1>>]
Vector(enc, a, reg, rm, v, w) == [Layout(enc, a) EXCEPT !.reg = reg, !.rm = rm, !.v = v, !.w = w]

Id == WithImm(Layout("plain", <<"imm">>), 1, "d")
Rel32 == WithImm(Layout("plain", <<"rel">>), 1, "d")
Ib == WithImm(Layout("plain", <<"ib">>), 1, "b")
Near == WithImm(Layout("plain", <<"label">>), 1, "rel32")
Short == WithImm(Layout("plain", <<"label">>), 1, "rel8")
MBare == NoRex(Modrm(<<"m">>, 0, 1, Never))
M0 == Modrm(<<"m">>, 0, 1, Never)
MSized == Narrow(Data16(Modrm(<<"m">>, 0, 1, 1), "afterREX"))
MImul == [Data16(Modrm(<<"m">>, 0, 1, 1), "afterREX") EXCEPT !.alt = <<1, 8, 141>>]
M == Modrm(<<"m">>, 0, 1, 1)
MAlu == WithImm(Data16(Modrm(<<"m", "imm">>, 0, 1, 1), "first"), 2, "alu")
MSizedIb == WithImm(Narrow(Data16(Modrm(<<"m", "imm">>, 0, 1, 1), "first")), 2, "b")
MSizedIz == WithImm(Narrow(Data16(Modrm(<<"m", "imm">>, 0, 1, 1), "first")), 2, "size")
MIb == WithImm(Data16(Modrm(<<"m", "imm">>, 0, 1, 1), "first"), 2, "b")
MCl == Narrow(Data16(Modrm(<<"m", "cl">>, 0, 1, 1), "first"))
MR0 == Modrm(<<"m", "r">>, 2, 1, Never)
MR == Modrm(<<"m", "r">>, 2, 1, 2)
MR1 == Modrm(<<"m", "r">>, 2, 1, Always)
MX == Modrm(<<"m", "x">>, 2, 1, Never)
MXIb == WithImm(Modrm(<<"m", "x", "ib">>, 2, 1, Never), 3, "b")
QM == Modrm(<<"q", "m">>, 1, 2, Never)
QQ == NoRex(Modrm(<<"q", "q">>, 1, 2, Never))
QQIb == WithImm(NoRex(Modrm(<<"q", "q", "ib">>, 1, 2, Never)), 3, "b")
QX == NoRex(Modrm(<<"q", "x">>, 1, 2, Never))
R0 == Modrm(<<"r">>, 0, 1, Never)
RSized == Narrow(Data16(Modrm(<<"r">>, 0, 1, 1), "first"))
RImul == [Data16(Modrm(<<"r">>, 0, 1, 1), "first") EXCEPT !.alt = <<1, 8, 141>>]
R == Modrm(<<"r">>, 0, 1, 1)
R1 == Modrm(<<"r">>, 0, 1, Always)
RAlu == WithImm(Data16(Modrm(<<"r", "imm">>, 0, 1, 1), "first"), 2, "alu")
RSizedIb == WithImm(Narrow(Data16(Modrm(<<"r", "imm">>, 0, 1, 1), "first")), 2, "b")
RSizedIz == WithImm(Narrow(Data16(Modrm(<<"r", "imm">>, 0, 1, 1), "first")), 2, "size")
RIb == WithImm(Data16(Modrm(<<"r", "imm">>, 0, 1, 1), "first"), 2, "b")
RCl == Narrow(Data16(Modrm(<<"r", "cl">>, 0, 1, 1), "first"))
RM0 == Modrm(<<"r", "m">>, 1, 2, Never)
RMExtend == [Data16(Modrm(<<"r", "m">>, 1, 2, 1), "first") EXCEPT !.alt = <<2, 16, 1>>]
RM == Modrm(<<"r", "m">>, 1, 2, 1)
RR0 == Modrm(<<"r", "r">>, 1, 2, Never)
RRExtend == [Data16(Modrm(<<"r", "r">>, 1, 2, 1), "first") EXCEPT !.alt = <<2, 16, 1>>]
RROr16 == Data16(Modrm(<<"r", "r">>, 1, 2, 1), "instead")
RR == Modrm(<<"r", "r">>, 1, 2, 1)
RRStore == Modrm(<<"r", "r">>, 2, 1, 1)
RRIz == WithImm(Data16(Modrm(<<"r", "r", "imm">>, 1, 2, 1), "first"), 3, "wordOrDword")
RRIb == WithImm(Data16(Modrm(<<"r", "r", "imm">>, 2, 1, 1), "first"), 3, "b")
RX == Modrm(<<"r", "x">>, 1, 2, 1)
RXIb == WithImm(Modrm(<<"r", "x", "ib">>, 2, 1, Never), 3, "b")
RXIb1 == WithImm(Modrm(<<"r", "x", "ib">>, 2, 1, Always), 3, "b")
Rel16 == WithImm(Layout("plain", <<"rel">>), 1, "w")
Rel8 == WithImm(Layout("plain", <<"rel">>), 1, "b")
XIb == WithImm(NoRex(Modrm(<<"x", "ib">>, 0, 1, Never)), 2, "b")
XM == Modrm(<<"x", "m">>, 1, 2, Never)
XMIb == WithImm(Modrm(<<"x", "m", "ib">>, 1, 2, Never), 3, "b")
XQ == NoRex(Modrm(<<"x", "q">>, 1, 2, Never))
XR == Modrm(<<"x", "r">>, 1, 2, 2)
XRIb == WithImm(Modrm(<<"x", "r", "ib">>, 1, 2, 2), 3, "b")
XRIb1 == WithImm(Modrm(<<"x", "r", "ib">>, 1, 2, Always), 3, "b")
XX == Modrm(<<"x", "x">>, 1, 2, Never)
XXIb == WithImm(Modrm(<<"x", "x", "ib">>, 1, 2, Never), 3, "b")
EVVV == Vector("evex", <<"x", "x", "x">>, 1, 3, 2, Never)
EVVVIb == WithImm(Vector("evex", <<"x", "x", "x", "ib">>, 1, 3, 2, Never), 4, "b")
EVVVIbK == [WithImm(Vector("evex", <<"x", "x", "x", "ib", "ib", "z">>, 1, 3, 2, Never), 4, "b") EXCEPT !.mask = 5]
EVVVK == [Vector("evex", <<"x", "x", "x", "ib", "z">>, 1, 3, 2, Never) EXCEPT !.mask = 4]
VMR == Vector("vex", <<"m", "r">>, 2, 1, 0, Never)
VRM == Vector("vex", <<"r", "m">>, 1, 2, 0, Never)
VRMR == Vector("vex", <<"r", "m", "r">>, 1, 2, 3, 1)
VRRM == Vector("vex", <<"r", "r", "m">>, 1, 3, 2, 1)
VXM == Vector("vex", <<"x", "m">>, 1, 2, 0, Never)
VXMX == Vector("vex", <<"x", "m", "x">>, 1, 2, 3, Never)
VRRX == Vector("vex", <<"r", "r">>, 0, 2, 1, 1)
VRR0 == Vector("vex", <<"r", "r">>, 1, 2, 0, Never)
VRRIb0 == WithImm(Vector("vex", <<"r", "r", "ib">>, 1, 2, 0, Never), 3, "b")
VRRIb == WithImm(Vector("vex", <<"r", "r", "ib">>, 1, 2, 0, 1), 3, "b")
VRRRCount == Vector("vex", <<"r", "r", "r">>, 1, 2, 3, 1)
VRRR0 == Vector("vex", <<"r", "r", "r">>, 1, 3, 2, Never)
VRRR == Vector("vex", <<"r", "r", "r">>, 1, 3, 2, 1)
VXX == Vector("vex", <<"x", "x">>, 1, 2, 0, Never)
VXXIb == WithImm(Vector("vex", <<"x", "x", "ib">>, 1, 2, 0, Never), 3, "b")
VXXIbStore == WithImm(Vector("vex", <<"x", "x", "ib">>, 2, 1, 0, Never), 3, "b")
VXXX == Vector("vex", <<"x", "x", "x">>, 1, 3, 2, Never)
VXXXIb == WithImm(Vector("vex", <<"x", "x", "x", "ib">>, 1, 3, 2, Never), 4, "b")
RLow == [Modrm(<<"r">>, 0, 0, Never) EXCEPT !.low = 1]
RMov == WithImm([Data16(Modrm(<<"r", "imm">>, 0, 0, 1), "first") EXCEPT !.low = 1, !.alt = <<1, 8, -8>>], 2, "full")
RPort == WithImm(Narrow(Layout("plain", <<"r", "ib">>)), 2, "b")
RPortDx == Narrow(Layout("plain", <<"r", "r">>))

----------------------------------------------------------------------------
(* The forms, in the order of the header *)

Plain == <<>>
P66 == <<\h66>>
PF2 == <<\hF2>>
PF3 == <<\hF3>>
Byte == <<>>
Map0F == <<\h0F>>
Map38 == <<\h0F, \h38>>
Map3A == <<\h0F, \h3A>>

Form(m, l, p, o, x) == [m |-> m, l |-> l, p |-> p, o |-> o, x |-> x]

\* Methods that write the same bytes each time.
Fixed(es) == [i \in DOMAIN es |-> Form(es[i][1], Layout("plain", <<>>), <<>>, es[i][2], 0)]
\* Forms of one layout, leading bytes and opcode map: the last opcode byte, and the extension.
Forms(l, p, map, es) == [i \in DOMAIN es |-> Form(es[i][1], l, p, map \o <<es[i][2]>>, 0)]
FormsX(l, p, map, es) == [i \in DOMAIN es |-> Form(es[i][1], l, p, map \o <<es[i][2]>>, es[i][3])]
Vectors(l, map, pp, len, W, es) ==
    [i \in DOMAIN es |-> Form(es[i][1], l, <<map, pp, len, W>>, <<es[i][2]>>, 0)]
VectorsX(l, map, pp, len, W, es) ==
    [i \in DOMAIN es |-> Form(es[i][1], l, <<map, pp, len, W>>, <<es[i][2]>>, es[i][3])]

FromAaaToAddpd ==
     Fixed(<<<<"aaa", <<\h37>>>>, <<"aad", <<\hD5, \h0A>>>>, <<"aam", <<\hD4, \h0A>>>>, <<"aas", <<\h3F>>>>>>)
  \o Forms(RRStore, Plain, Byte, <<<<"adc", \h11>>, <<"add", \h01>>>>)
  \o Forms(RM, Plain, Byte, <<<<"adc", \h13>>, <<"add", \h03>>>>)
  \o Forms(MR, Plain, Byte, <<<<"adc", \h11>>, <<"add", \h01>>>>)
  \o FormsX(RAlu, Plain, Byte, <<<<"adc", \h81, 2>>, <<"add", \h81, 0>>>>)
  \o FormsX(MAlu, Plain, Byte, <<<<"adc", \h81, 2>>, <<"add", \h81, 0>>>>)
  \o Forms(XX, P66, Map0F, <<<<"addpd", \h58>>>>)
  \o Forms(XM, P66, Map0F, <<<<"addpd", \h58>>>>)

FromAddpsToAnd ==
     Fixed(<<<<"adx", <<\hD5>>>>, <<"amx", <<\hD4>>>>>>)
  \o Forms(XX, Plain, Map0F, <<<<"addps", \h58>>>>)
  \o Forms(XM, Plain, Map0F, <<<<"addps", \h58>>>>)
  \o Forms(XX, PF2, Map0F, <<<<"addsd", \h58>>, <<"addsubps", \hD0>>>>)
  \o Forms(XM, PF2, Map0F, <<<<"addsd", \h58>>, <<"addsubps", \hD0>>>>)
  \o Forms(XX, PF3, Map0F, <<<<"addss", \h58>>>>)
  \o Forms(XM, PF3, Map0F, <<<<"addss", \h58>>>>)
  \o Forms(XX, P66, Map0F, <<<<"addsubpd", \hD0>>>>)
  \o Forms(XM, P66, Map0F, <<<<"addsubpd", \hD0>>>>)
  \o Forms(RRStore, Plain, Byte, <<<<"and", \h21>>>>)
  \o Forms(RM, Plain, Byte, <<<<"and", \h23>>>>)
  \o Forms(MR, Plain, Byte, <<<<"and", \h21>>>>)
  \o FormsX(RAlu, Plain, Byte, <<<<"and", \h81, 4>>>>)
  \o FormsX(MAlu, Plain, Byte, <<<<"and", \h81, 4>>>>)

FromAndnpdToBound ==
     Forms(XX, P66, Map0F, <<<<"andnpd", \h55>>, <<"andpd", \h54>>>>)
  \o Forms(XM, P66, Map0F, <<<<"andnpd", \h55>>, <<"andpd", \h54>>>>)
  \o Forms(XX, Plain, Map0F, <<<<"andnps", \h55>>, <<"andps", \h54>>>>)
  \o Forms(XM, Plain, Map0F, <<<<"andnps", \h55>>, <<"andps", \h54>>>>)
  \o Forms(XXIb, P66, Map3A, <<<<"blendpd", \h0D>>, <<"blendps", \h0C>>>>)
  \o Forms(XMIb, P66, Map3A, <<<<"blendpd", \h0D>>, <<"blendps", \h0C>>>>)
  \o Forms(XX, P66, Map38, <<<<"blendvpd", \h15>>, <<"blendvps", \h14>>>>)
  \o Forms(XM, P66, Map38, <<<<"blendvpd", \h15>>, <<"blendvps", \h14>>>>)
  \o Forms(RM, Plain, Byte, <<<<"bound", \h62>>>>)

FromBsfToBts ==
     Forms(RR, Plain, Map0F, <<<<"bsf", \hBC>>, <<"bsr", \hBD>>>>)
  \o Forms(RM, Plain, Map0F, <<<<"bsf", \hBC>>, <<"bsr", \hBD>>>>)
  \o Forms(RLow, Plain, Map0F, <<<<"bswap", \hC8>>>>)
  \o Forms(RRStore, Plain, Map0F, <<<<"bt", \hA3>>, <<"btc", \hBB>>, <<"btr", \hB3>>, <<"bts", \hAB>>>>)
  \o Forms(MR, Plain, Map0F, <<<<"bt", \hA3>>, <<"btc", \hBA>>, <<"btr", \hB3>>, <<"bts", \hAB>>>>)
  \o FormsX(RIb, Plain, Map0F, <<<<"bt", \hBA, 4>>, <<"btc", \hBA, 7>>, <<"btr", \hBA, 6>>,
       <<"bts", \hBA, 5>>>>)
  \o FormsX(MIb, Plain, Map0F, <<<<"bt", \hBA, 4>>, <<"btc", \hBA, 7>>, <<"btr", \hBA, 6>>>>)

FromBtsToCmovnb ==
     Fixed(<<<<"cbw", <<\h98>>>>, <<"cdq", <<\h99>>>>, <<"clc", <<\hF8>>>>, <<"cld", <<\hFC>>>>,
       <<"cli", <<\hFA>>>>, <<"clts", <<\h0F, \h06>>>>, <<"cmc", <<\hF5>>>>>>)
  \o FormsX(MIb, Plain, Map0F, <<<<"bts", \hBA, 5>>>>)
  \o Forms(Near, Plain, Byte, <<<<"call", \hE8>>>>)
  \o FormsX(R, Plain, Byte, <<<<"call", \hFF, 2>>, <<"callf", \hFF, 3>>>>)
  \o FormsX(M, Plain, Byte, <<<<"call", \hFF, 2>>, <<"callf", \hFF, 3>>>>)
  \o FormsX(R, Plain, Map0F, <<<<"clflush", \hAE, 7>>>>)
  \o FormsX(M, Plain, Map0F, <<<<"clflush", \hAE, 7>>>>)
  \o Forms(RR, Plain, Map0F, <<<<"cmovb", \h42>>, <<"cmovbe", \h46>>, <<"cmovl", \h4C>>, <<"cmovle", \h4E>>,
       <<"cmovnb", \h43>>>>)
  \o Forms(RM, Plain, Map0F, <<<<"cmovb", \h42>>, <<"cmovbe", \h46>>, <<"cmovl", \h4C>>, <<"cmovle", \h4E>>>>)

FromCmovnbToCmovz ==
     Forms(RM, Plain, Map0F, <<<<"cmovnb", \h43>>, <<"cmovnbe", \h47>>, <<"cmovnl", \h4D>>, <<"cmovnle", \h4F>>,
       <<"cmovno", \h41>>, <<"cmovnp", \h4B>>, <<"cmovns", \h49>>, <<"cmovnz", \h45>>, <<"cmovo", \h40>>,
       <<"cmovp", \h4A>>, <<"cmovs", \h48>>, <<"cmovz", \h44>>>>)
  \o Forms(RR, Plain, Map0F, <<<<"cmovnbe", \h47>>, <<"cmovnl", \h4D>>, <<"cmovnle", \h4F>>, <<"cmovno", \h41>>,
       <<"cmovnp", \h4B>>, <<"cmovns", \h49>>, <<"cmovnz", \h45>>, <<"cmovo", \h40>>, <<"cmovp", \h4A>>,
       <<"cmovs", \h48>>, <<"cmovz", \h44>>>>)

FromCmpToCmpxchg ==
     Fixed(<<<<"cmps", <<\hA6>>>>>>)
  \o Forms(RRStore, Plain, Byte, <<<<"cmp", \h39>>>>)
  \o Forms(RM, Plain, Byte, <<<<"cmp", \h3B>>>>)
  \o Forms(MR, Plain, Byte, <<<<"cmp", \h39>>>>)
  \o FormsX(RAlu, Plain, Byte, <<<<"cmp", \h81, 7>>>>)
  \o FormsX(MAlu, Plain, Byte, <<<<"cmp", \h81, 7>>>>)
  \o Forms(XXIb, P66, Map0F, <<<<"cmppd", \hC2>>>>)
  \o Forms(XMIb, P66, Map0F, <<<<"cmppd", \hC2>>>>)
  \o Forms(XXIb, Plain, Map0F, <<<<"cmpps", \hC2>>>>)
  \o Forms(XMIb, Plain, Map0F, <<<<"cmpps", \hC2>>>>)
  \o Forms(XXIb, PF2, Map0F, <<<<"cmpsd", \hC2>>>>)
  \o Forms(XMIb, PF2, Map0F, <<<<"cmpsd", \hC2>>>>)
  \o Forms(XXIb, PF3, Map0F, <<<<"cmpss", \hC2>>>>)
  \o Forms(XMIb, PF3, Map0F, <<<<"cmpss", \hC2>>>>)
  \o Forms(RRStore, Plain, Map0F, <<<<"cmpxchg", \hB1>>>>)
  \o Forms(MR, Plain, Map0F, <<<<"cmpxchg", \hB1>>>>)

FromCmpxchg8bToCvtpd2ps ==
     Fixed(<<<<"cpuid", <<\h0F, \hA2>>>>>>)
  \o FormsX(R, Plain, Map0F, <<<<"cmpxchg8b", \hC7, 1>>>>)
  \o FormsX(M, Plain, Map0F, <<<<"cmpxchg8b", \hC7, 1>>>>)
  \o Forms(XX, P66, Map0F, <<<<"comisd", \h2F>>, <<"cvtpd2ps", \h5A>>>>)
  \o Forms(XM, P66, Map0F, <<<<"comisd", \h2F>>, <<"cvtpd2ps", \h5A>>>>)
  \o Forms(XX, Plain, Map0F, <<<<"comiss", \h2F>>, <<"cvtdq2ps", \h5B>>>>)
  \o Forms(XM, Plain, Map0F, <<<<"comiss", \h2F>>, <<"cvtdq2ps", \h5B>>>>)
  \o Forms(RROr16, PF2, Map38, <<<<"crc32", \hF1>>>>)
  \o Forms(RM, PF2, Map0F, <<<<"crc32", \h38>>>>)
  \o Forms(XX, PF3, Map0F, <<<<"cvtdq2pd", \hE6>>>>)
  \o Forms(XM, PF3, Map0F, <<<<"cvtdq2pd", \hE6>>>>)
  \o Forms(XX, PF2, Map0F, <<<<"cvtpd2dq", \hE6>>>>)
  \o Forms(XM, PF2, Map0F, <<<<"cvtpd2dq", \hE6>>>>)
  \o Forms(QX, P66, Map0F, <<<<"cvtpd2pi", \h2D>>>>)
  \o Forms(QM, P66, Map0F, <<<<"cvtpd2pi", \h2D>>>>)

FromCvtpi2pdToCvtsi2ss ==
     Forms(XQ, P66, Map0F, <<<<"cvtpi2pd", \h2A>>>>)
  \o Forms(XM, P66, Map0F, <<<<"cvtpi2pd", \h2A>>, <<"cvtps2dq", \h5B>>>>)
  \o Forms(XQ, Plain, Map0F, <<<<"cvtpi2ps", \h2A>>>>)
  \o Forms(XM, Plain, Map0F, <<<<"cvtpi2ps", \h2A>>, <<"cvtps2pd", \h5A>>>>)
  \o Forms(XX, P66, Map0F, <<<<"cvtps2dq", \h5B>>>>)
  \o Forms(XX, Plain, Map0F, <<<<"cvtps2pd", \h5A>>>>)
  \o Forms(QX, Plain, Map0F, <<<<"cvtps2pi", \h2D>>>>)
  \o Forms(QM, Plain, Map0F, <<<<"cvtps2pi", \h2D>>>>)
  \o Forms(RX, PF2, Map0F, <<<<"cvtsd2si", \h2D>>>>)
  \o Forms(RM, PF2, Map0F, <<<<"cvtsd2si", \h2D>>>>)
  \o Forms(XX, PF2, Map0F, <<<<"cvtsd2ss", \h5A>>>>)
  \o Forms(XM, PF2, Map0F, <<<<"cvtsd2ss", \h5A>>, <<"cvtsi2sd", \h2A>>>>)
  \o Forms(XR, PF2, Map0F, <<<<"cvtsi2sd", \h2A>>>>)
  \o Forms(XR, PF3, Map0F, <<<<"cvtsi2ss", \h2A>>>>)
  \o Forms(XM, PF3, Map0F, <<<<"cvtsi2ss", \h2A>>>>)

FromCvtss2sdToDaa ==
     Fixed(<<<<"cwd", <<\h99>>>>, <<"cwde", <<\h98>>>>, <<"daa", <<\h27>>>>>>)
  \o Forms(XX, PF3, Map0F, <<<<"cvtss2sd", \h5A>>, <<"cvttps2dq", \h5B>>>>)
  \o Forms(XM, PF3, Map0F, <<<<"cvtss2sd", \h5A>>, <<"cvttps2dq", \h5B>>>>)
  \o Forms(RX, PF3, Map0F, <<<<"cvtss2si", \h2D>>, <<"cvttss2si", \h2C>>>>)
  \o Forms(RM, PF3, Map0F, <<<<"cvtss2si", \h2D>>, <<"cvttss2si", \h2C>>>>)
  \o Forms(XX, P66, Map0F, <<<<"cvttpd2dq", \hE6>>>>)
  \o Forms(XM, P66, Map0F, <<<<"cvttpd2dq", \hE6>>>>)
  \o Forms(QX, P66, Map0F, <<<<"cvttpd2pi", \h2C>>>>)
  \o Forms(QM, P66, Map0F, <<<<"cvttpd2pi", \h2C>>>>)
  \o Forms(QX, Plain, Map0F, <<<<"cvttps2pi", \h2C>>>>)
  \o Forms(QM, Plain, Map0F, <<<<"cvttps2pi", \h2C>>>>)
  \o Forms(RX, PF2, Map0F, <<<<"cvttsd2si", \h2C>>>>)
  \o Forms(RM, PF2, Map0F, <<<<"cvttsd2si", \h2C>>>>)

FromDasToEnter ==
     Fixed(<<<<"das", <<\h2F>>>>, <<"emms", <<\h0F, \h77>>>>, <<"enter", <<\hC8>>>>>>)
  \o FormsX(RSized, Plain, Byte, <<<<"dec", \hFF, 1>>, <<"div", \hF7, 6>>>>)
  \o FormsX(MSized, Plain, Byte, <<<<"dec", \hFF, 1>>, <<"div", \hF7, 6>>>>)
  \o Forms(XX, P66, Map0F, <<<<"divpd", \h5E>>>>)
  \o Forms(XM, P66, Map0F, <<<<"divpd", \h5E>>>>)
  \o Forms(XX, Plain, Map0F, <<<<"divps", \h5E>>>>)
  \o Forms(XM, Plain, Map0F, <<<<"divps", \h5E>>>>)
  \o Forms(XX, PF2, Map0F, <<<<"divsd", \h5E>>>>)
  \o Forms(XM, PF2, Map0F, <<<<"divsd", \h5E>>>>)
  \o Forms(XX, PF3, Map0F, <<<<"divss", \h5E>>>>)
  \o Forms(XM, PF3, Map0F, <<<<"divss", \h5E>>>>)
  \o Forms(XX, P66, Map3A, <<<<"dppd", \h41>>, <<"dpps", \h40>>>>)
  \o Forms(XM, P66, Map3A, <<<<"dppd", \h41>>, <<"dpps", \h40>>>>)

FromExtractpsToFcom ==
     Fixed(<<<<"f2xm1", <<\hD9, \hF0, \hF0>>>>, <<"fabs", <<\hD9, \hE1, \hE0>>>>, <<"faddp", <<\hDE, \hC0>>>>,
       <<"fchs", <<\hD9, \hE0, \hE0>>>>, <<"fclex", <<\h9B, \hDB, \hE2, \hE0>>>>, <<"fcmovb", <<\hDA, \hC0>>>>,
       <<"fcmovbe", <<\hDA, \hD0>>>>, <<"fcmove", <<\hDA, \hC8>>>>, <<"fcmovnb", <<\hDB, \hC0>>>>,
       <<"fcmovnbe", <<\hDB, \hD0>>>>, <<"fcmovne", <<\hDB, \hC8>>>>, <<"fcmovnu", <<\hDB, \hD8>>>>,
       <<"fcmovu", <<\hDA, \hD8>>>>, <<"fcom", <<\hD8, \hD0>>>>>>)
  \o Forms(RXIb, P66, Map3A, <<<<"extractps", \h17>>>>)
  \o Forms(MXIb, P66, Map3A, <<<<"extractps", \h17>>>>)
  \o FormsX(R, Plain, Byte, <<<<"fadd", \hD8, 0>>, <<"fbld", \hDF, 4>>, <<"fbstp", \hDF, 6>>>>)
  \o FormsX(M, Plain, Byte, <<<<"fadd", \hD8, 0>>, <<"fbld", \hDF, 4>>, <<"fbstp", \hDF, 6>>>>)

FromFcomToFfreep ==
     Fixed(<<<<"fcom2", <<\hDC, \hD0>>>>, <<"fcomi", <<\hDB, \hF0>>>>, <<"fcomip", <<\hDF, \hF0>>>>,
       <<"fcomp", <<\hD8, \hD8>>>>, <<"fcomp3", <<\hDC, \hD8>>>>, <<"fcomp5", <<\hDE, \hD0>>>>,
       <<"fcompp", <<\hDE, \hD9, \hD8>>>>, <<"fcos", <<\hD9, \hFF, \hF8>>>>,
       <<"fdecstp", <<\hD9, \hF6, \hF0>>>>, <<"fdisi", <<\h9B, \hDB, \hE1, \hE0>>>>,
       <<"fdivp", <<\hDE, \hF8>>>>, <<"fdivrp", <<\hDE, \hF0>>>>, <<"feni", <<\h9B, \hDB, \hE0, \hE0>>>>,
       <<"ffree", <<\hDD, \hC0>>>>, <<"ffreep", <<\hDF, \hC0>>>>>>)
  \o FormsX(R, Plain, Byte, <<<<"fcom", \hD8, 2>>, <<"fcomp", \hD8, 3>>, <<"fdiv", \hD8, 6>>,
       <<"fdivr", \hD8, 7>>>>)
  \o FormsX(M, Plain, Byte, <<<<"fcom", \hD8, 2>>, <<"fcomp", \hD8, 3>>, <<"fdiv", \hD8, 6>>,
       <<"fdivr", \hD8, 7>>>>)

FromFiaddToFisttp ==
     Fixed(<<<<"fincstp", <<\hD9, \hF7, \hF0>>>>, <<"finit", <<\h9B, \hDB, \hE3, \hE0>>>>>>)
  \o FormsX(R, Plain, Byte, <<<<"fiadd", \hDA, 0>>, <<"ficom", \hDA, 2>>, <<"ficomp", \hDA, 3>>,
       <<"fidiv", \hDA, 6>>, <<"fidivr", \hDA, 7>>, <<"fild", \hDB, 0>>, <<"fimul", \hDA, 1>>,
       <<"fist", \hDB, 2>>, <<"fistp", \hDB, 3>>, <<"fisttp", \hDB, 1>>>>)
  \o FormsX(M, Plain, Byte, <<<<"fiadd", \hDA, 0>>, <<"ficom", \hDA, 2>>, <<"ficomp", \hDA, 3>>,
       <<"fidiv", \hDA, 6>>, <<"fidivr", \hDA, 7>>, <<"fild", \hDB, 0>>, <<"fimul", \hDA, 1>>,
       <<"fist", \hDB, 2>>, <<"fistp", \hDB, 3>>, <<"fisttp", \hDB, 1>>>>)

FromFisubToFndisi ==
     Fixed(<<<<"fld1", <<\hD9, \hE8, \hE8>>>>, <<"fldl2e", <<\hD9, \hEA, \hE8>>>>,
       <<"fldl2t", <<\hD9, \hE9, \hE8>>>>, <<"fldlg2", <<\hD9, \hEC, \hE8>>>>,
       <<"fldln2", <<\hD9, \hED, \hE8>>>>, <<"fldpi", <<\hD9, \hEB, \hE8>>>>, <<"fldz", <<\hD9, \hEE, \hE8>>>>,
       <<"fmulp", <<\hDE, \hC8>>>>, <<"fnclex", <<\hDB, \hE2, \hE0>>>>, <<"fndisi", <<\hDB, \hE1, \hE0>>>>>>)
  \o FormsX(R, Plain, Byte, <<<<"fisub", \hDA, 4>>, <<"fisubr", \hDA, 5>>, <<"fld", \hD9, 0>>,
       <<"fldcw", \hD9, 5>>, <<"fldenv", \hD9, 4>>, <<"fmul", \hD8, 1>>>>)
  \o FormsX(M, Plain, Byte, <<<<"fisub", \hDA, 4>>, <<"fisubr", \hDA, 5>>, <<"fld", \hD9, 0>>,
       <<"fldcw", \hD9, 5>>, <<"fldenv", \hD9, 4>>, <<"fmul", \hD8, 1>>>>)

FromFneniToFscale ==
     Fixed(<<<<"fneni", <<\hDB, \hE0, \hE0>>>>, <<"fninit", <<\hDB, \hE3, \hE0>>>>,
       <<"fnop", <<\hD9, \hD0, \hD0>>>>, <<"fnsetpm", <<\hDB, \hE4, \hE0>>>>,
       <<"fpatan", <<\hD9, \hF3, \hF0>>>>, <<"fprem", <<\hD9, \hF8, \hF8>>>>,
       <<"fprem1", <<\hD9, \hF5, \hF0>>>>, <<"fptan", <<\hD9, \hF2, \hF0>>>>,
       <<"frndint", <<\hD9, \hFC, \hF8>>>>, <<"fscale", <<\hD9, \hFD, \hF8>>>>>>)
  \o FormsX(R, Plain, Byte, <<<<"fnsave", \hDD, 6>>, <<"fnstcw", \hD9, 7>>, <<"fnstenv", \hD9, 6>>,
       <<"fnstsw", \hDD, 7>>, <<"frstor", \hDD, 4>>>>)
  \o FormsX(M, Plain, Byte, <<<<"fnsave", \hDD, 6>>, <<"fnstcw", \hD9, 7>>, <<"fnstenv", \hD9, 6>>,
       <<"fnstsw", \hDD, 7>>, <<"frstor", \hDD, 4>>>>)
  \o FormsX(R, <<\h9B>>, Byte, <<<<"fsave", \hDD, 6>>>>)
  \o FormsX(M, <<\h9B>>, Byte, <<<<"fsave", \hDD, 6>>>>)

FromFsetpmToFsubr ==
     Fixed(<<<<"fsetpm", <<\h9B, \hDB, \hE4, \hE0>>>>, <<"fsin", <<\hD9, \hFE, \hF8>>>>,
       <<"fsincos", <<\hD9, \hFB, \hF8>>>>, <<"fsqrt", <<\hD9, \hFA, \hF8>>>>, <<"fstp1", <<\hD9, \hD8>>>>,
       <<"fstp8", <<\hDF, \hD0>>>>, <<"fstp9", <<\hDF, \hD8>>>>, <<"fsubp", <<\hDE, \hE8>>>>>>)
  \o FormsX(R, Plain, Byte, <<<<"fst", \hD9, 2>>, <<"fstp", \hD9, 3>>, <<"fsub", \hD8, 4>>,
       <<"fsubr", \hD8, 5>>>>)
  \o FormsX(M, Plain, Byte, <<<<"fst", \hD9, 2>>, <<"fstp", \hD9, 3>>, <<"fsub", \hD8, 4>>,
       <<"fsubr", \hD8, 5>>>>)
  \o FormsX(R, <<\h9B>>, Byte, <<<<"fstcw", \hD9, 7>>, <<"fstenv", \hD9, 6>>, <<"fstsw", \hDD, 7>>>>)
  \o FormsX(M, <<\h9B>>, Byte, <<<<"fstcw", \hD9, 7>>, <<"fstenv", \hD9, 6>>, <<"fstsw", \hDD, 7>>>>)

FromFsubrpToHaddps ==
     Fixed(<<<<"fsubrp", <<\hDE, \hE0>>>>, <<"ftst", <<\hD9, \hE4, \hE0>>>>, <<"fucom", <<\hDD, \hE0>>>>,
       <<"fucomi", <<\hDB, \hE8>>>>, <<"fucomip", <<\hDF, \hE8>>>>, <<"fucomp", <<\hDD, \hE8>>>>,
       <<"fucompp", <<\hDA, \hE9, \hE8>>>>, <<"fxam", <<\hD9, \hE5, \hE0>>>>, <<"fxch", <<\hD9, \hC8>>>>,
       <<"fxch4", <<\hDD, \hC8>>>>, <<"fxch7", <<\hDF, \hC8>>>>, <<"fxtract", <<\hD9, \hF4, \hF0>>>>,
       <<"fyl2x", <<\hD9, \hF1, \hF0>>>>, <<"fyl2xp1", <<\hD9, \hF9, \hF8>>>>, <<"getsec", <<\h0F, \h37>>>>>>)
  \o FormsX(R, Plain, Map0F, <<<<"fxrstor", \hAE, 1>>, <<"fxsave", \hAE, 0>>>>)
  \o FormsX(M, Plain, Map0F, <<<<"fxrstor", \hAE, 1>>, <<"fxsave", \hAE, 0>>>>)
  \o Forms(XX, P66, Map0F, <<<<"haddpd", \h7C>>>>)
  \o Forms(XM, P66, Map0F, <<<<"haddpd", \h7C>>>>)
  \o Forms(XX, PF2, Map0F, <<<<"haddps", \h7C>>>>)

FromHaddpsToInsertps ==
     Fixed(<<<<"hlt", <<\hF4>>>>, <<"in", <<\hE4>>>>, <<"ins", <<\h6C>>>>>>)
  \o Forms(XM, PF2, Map0F, <<<<"haddps", \h7C>>, <<"hsubps", \h7D>>>>)
  \o FormsX(R, Plain, Map0F, <<<<"hint_nop", \h18, 0>>>>)
  \o FormsX(M, Plain, Map0F, <<<<"hint_nop", \h18, 0>>>>)
  \o Forms(XX, P66, Map0F, <<<<"hsubpd", \h7D>>>>)
  \o Forms(XM, P66, Map0F, <<<<"hsubpd", \h7D>>>>)
  \o Forms(XX, PF2, Map0F, <<<<"hsubps", \h7D>>>>)
  \o FormsX(RSized, Plain, Byte, <<<<"idiv", \hF7, 7>>, <<"inc", \hFF, 0>>>>)
  \o FormsX(MSized, Plain, Byte, <<<<"idiv", \hF7, 7>>, <<"inc", \hFF, 0>>>>)
  \o Forms(RR, Plain, Map0F, <<<<"imul", \hAF>>>>)
  \o Forms(RM, Plain, Map0F, <<<<"imul", \hAF>>>>)
  \o Forms(RRIz, Plain, Byte, <<<<"imul", \h69>>>>)
  \o FormsX(RImul, Plain, Byte, <<<<"imul", \h69, 0>>>>)
  \o FormsX(MImul, Plain, Byte, <<<<"imul", \h69, 0>>>>)
  \o Forms(XXIb, P66, Map3A, <<<<"insertps", \h21>>>>)

FromIntToJnl ==
     Fixed(<<<<"int", <<\hCC>>>>, <<"int1", <<\hF1>>>>, <<"into", <<\hCE>>>>, <<"invd", <<\h0F, \h08>>>>,
       <<"iret", <<\hCF>>>>, <<"iretd", <<\hCF>>>>, <<"jmpe", <<\h0F, \h00, \hF0>>>>>>)
  \o Forms(RM, P66, Map0F, <<<<"invept", \h38>>, <<"invvpid", \h38>>>>)
  \o FormsX(R, Plain, Map0F, <<<<"invlpg", \h01, 7>>>>)
  \o FormsX(M, Plain, Map0F, <<<<"invlpg", \h01, 7>>>>)
  \o Forms(Near, Plain, Map0F, <<<<"jb", \h82>>, <<"jbe", \h86>>, <<"jl", \h8C>>, <<"jle", \h8E>>,
       <<"jnb", \h83>>, <<"jnbe", \h87>>, <<"jnl", \h8D>>>>)
  \o Forms(Short, Plain, Byte, <<<<"jcxz", \hE3>>, <<"jecxz", \hE3>>>>)
  \o Forms(Near, Plain, Byte, <<<<"jmp", \hE9>>>>)
  \o FormsX(R, Plain, Byte, <<<<"jmp", \hFF, 4>>, <<"jmpf", \hFF, 5>>>>)
  \o FormsX(M, Plain, Byte, <<<<"jmp", \hFF, 4>>, <<"jmpf", \hFF, 5>>>>)

FromJnleToLgs ==
     Fixed(<<<<"lahf", <<\h9F>>>>, <<"leave", <<\hC9>>>>, <<"lfence", <<\h0F, \hAE, \hE8>>>>>>)
  \o Forms(Near, Plain, Map0F, <<<<"jnle", \h8F>>, <<"jno", \h81>>, <<"jnp", \h8B>>, <<"jns", \h89>>,
       <<"jnz", \h85>>, <<"jo", \h80>>, <<"jp", \h8A>>, <<"js", \h88>>, <<"jz", \h84>>>>)
  \o Forms(RM, Plain, Map0F, <<<<"lar", \h02>>, <<"lfs", \hB4>>, <<"lgs", \hB5>>>>)
  \o Forms(XM, PF2, Map0F, <<<<"lddqu", \hF0>>>>)
  \o FormsX(R, Plain, Map0F, <<<<"ldmxcsr", \hAE, 2>>, <<"lgdt", \h01, 2>>>>)
  \o FormsX(M, Plain, Map0F, <<<<"ldmxcsr", \hAE, 2>>, <<"lgdt", \h01, 2>>>>)
  \o Forms(RM, Plain, Byte, <<<<"lds", \hC5>>, <<"lea", \h8D>>, <<"les", \hC4>>>>)

FromLidtToMaxsd ==
     Fixed(<<<<"lods", <<\hAC>>>>>>)
  \o FormsX(R, Plain, Map0F, <<<<"lidt", \h01, 3>>, <<"lldt", \h00, 2>>, <<"lmsw", \h01, 6>>,
       <<"ltr", \h00, 3>>>>)
  \o FormsX(M, Plain, Map0F, <<<<"lidt", \h01, 3>>, <<"lldt", \h00, 2>>, <<"lmsw", \h01, 6>>,
       <<"ltr", \h00, 3>>>>)
  \o Forms(Short, Plain, Byte, <<<<"loop", \hE2>>, <<"loopnz", \hE0>>, <<"loopz", \hE1>>>>)
  \o Forms(RM, Plain, Map0F, <<<<"lsl", \h03>>, <<"lss", \hB2>>>>)
  \o Forms(XX, P66, Map0F, <<<<"maskmovdqu", \hF7>>, <<"maxpd", \h5F>>>>)
  \o Forms(QQ, Plain, Map0F, <<<<"maskmovq", \hF7>>>>)
  \o Forms(XM, P66, Map0F, <<<<"maxpd", \h5F>>>>)
  \o Forms(XX, Plain, Map0F, <<<<"maxps", \h5F>>>>)
  \o Forms(XM, Plain, Map0F, <<<<"maxps", \h5F>>>>)
  \o Forms(XX, PF2, Map0F, <<<<"maxsd", \h5F>>>>)

FromMaxsdToMov ==
     Fixed(<<<<"mfence", <<\h0F, \hAE, \hF0>>>>, <<"monitor", <<\h0F, \h01, \hC8, \hC8>>>>>>)
  \o Forms(XM, PF2, Map0F, <<<<"maxsd", \h5F>>, <<"minsd", \h5D>>>>)
  \o Forms(XX, PF3, Map0F, <<<<"maxss", \h5F>>, <<"minss", \h5D>>>>)
  \o Forms(XM, PF3, Map0F, <<<<"maxss", \h5F>>, <<"minss", \h5D>>>>)
  \o Forms(XX, P66, Map0F, <<<<"minpd", \h5D>>>>)
  \o Forms(XM, P66, Map0F, <<<<"minpd", \h5D>>>>)
  \o Forms(XX, Plain, Map0F, <<<<"minps", \h5D>>>>)
  \o Forms(XM, Plain, Map0F, <<<<"minps", \h5D>>>>)
  \o Forms(XX, PF2, Map0F, <<<<"minsd", \h5D>>>>)
  \o Forms(RRStore, Plain, Byte, <<<<"mov", \h89>>>>)
  \o Forms(RM, Plain, Byte, <<<<"mov", \h8B>>>>)
  \o Forms(MR, Plain, Byte, <<<<"mov", \h89>>>>)
  \o Forms(RMov, Plain, Byte, <<<<"mov", \hB8>>>>)
  \o FormsX(MSizedIz, Plain, Byte, <<<<"mov", \hC7, 0>>>>)

FromMovapdToMovdqu ==
     Forms(XX, P66, Map0F, <<<<"movapd", \h28>>, <<"movdqa", \h6F>>>>)
  \o Forms(XM, P66, Map0F, <<<<"movapd", \h28>>, <<"movdqa", \h6F>>>>)
  \o Forms(MX, P66, Map0F, <<<<"movapd", \h28>>, <<"movdqa", \h6F>>>>)
  \o Forms(XX, Plain, Map0F, <<<<"movaps", \h28>>>>)
  \o Forms(XM, Plain, Map0F, <<<<"movaps", \h28>>, <<"movd", \h6E>>>>)
  \o Forms(MX, Plain, Map0F, <<<<"movaps", \h28>>, <<"movd", \h6E>>>>)
  \o Forms(RM, Plain, Map0F, <<<<"movbe", \h38>>>>)
  \o Forms(MR, Plain, Map0F, <<<<"movbe", \h38>>>>)
  \o Forms(XR, Plain, Map0F, <<<<"movd", \h6E>>>>)
  \o Forms(XX, PF2, Map0F, <<<<"movddup", \h12>>>>)
  \o Forms(XM, PF2, Map0F, <<<<"movddup", \h12>>>>)
  \o Forms(QX, PF2, Map0F, <<<<"movdq2q", \hD6>>>>)
  \o Forms(QM, PF2, Map0F, <<<<"movdq2q", \hD6>>>>)
  \o Forms(XX, PF3, Map0F, <<<<"movdqu", \h6F>>>>)

FromMovdquToMovntpd ==
     Forms(XM, PF3, Map0F, <<<<"movdqu", \h6F>>>>)
  \o Forms(MX, PF3, Map0F, <<<<"movdqu", \h6F>>>>)
  \o Forms(XX, Plain, Map0F, <<<<"movhlps", \h12>>, <<"movlhps", \h16>>>>)
  \o Forms(XM, P66, Map0F, <<<<"movhpd", \h16>>, <<"movlpd", \h12>>>>)
  \o Forms(MX, P66, Map0F, <<<<"movhpd", \h16>>, <<"movlpd", \h12>>, <<"movntdq", \hE7>>, <<"movntpd", \h2B>>>>)
  \o Forms(XM, Plain, Map0F, <<<<"movhps", \h16>>, <<"movlps", \h12>>>>)
  \o Forms(MX, Plain, Map0F, <<<<"movhps", \h16>>, <<"movlps", \h12>>>>)
  \o Forms(RX, P66, Map0F, <<<<"movmskpd", \h50>>>>)
  \o Forms(RX, Plain, Map0F, <<<<"movmskps", \h50>>>>)
  \o Forms(XM, P66, Map38, <<<<"movntdqa", \h2A>>>>)
  \o Forms(MR, Plain, Map0F, <<<<"movnti", \hC3>>>>)

FromMovntpsToMovss ==
     Fixed(<<<<"movs", <<\hA4>>>>>>)
  \o Forms(MX, Plain, Map0F, <<<<"movntps", \h2B>>, <<"movntq", \hE7>>, <<"movq", \h6F>>>>)
  \o Forms(XX, Plain, Map0F, <<<<"movq", \h6F>>>>)
  \o Forms(XM, Plain, Map0F, <<<<"movq", \h6F>>>>)
  \o Forms(QQ, Plain, Map0F, <<<<"movq", \h6F>>>>)
  \o Forms(QM, Plain, Map0F, <<<<"movq", \h6F>>>>)
  \o Forms(XQ, PF3, Map0F, <<<<"movq2dq", \hD6>>>>)
  \o Forms(XM, PF3, Map0F, <<<<"movq2dq", \hD6>>, <<"movshdup", \h16>>, <<"movsldup", \h12>>,
       <<"movss", \h10>>>>)
  \o Forms(XX, PF2, Map0F, <<<<"movsd", \h10>>>>)
  \o Forms(XM, PF2, Map0F, <<<<"movsd", \h10>>>>)
  \o Forms(MX, PF2, Map0F, <<<<"movsd", \h10>>>>)
  \o Forms(XX, PF3, Map0F, <<<<"movshdup", \h16>>, <<"movsldup", \h12>>, <<"movss", \h10>>>>)

FromMovssToMulsd ==
     Forms(MX, PF3, Map0F, <<<<"movss", \h10>>>>)
  \o Forms(RR, Plain, Byte, <<<<"movsxd", \h63>>>>)
  \o Forms(RM, Plain, Byte, <<<<"movsxd", \h63>>>>)
  \o Forms(XX, P66, Map0F, <<<<"movupd", \h10>>, <<"mulpd", \h59>>>>)
  \o Forms(XM, P66, Map0F, <<<<"movupd", \h10>>, <<"mulpd", \h59>>>>)
  \o Forms(MX, P66, Map0F, <<<<"movupd", \h10>>>>)
  \o Forms(XX, Plain, Map0F, <<<<"movups", \h10>>, <<"mulps", \h59>>>>)
  \o Forms(XM, Plain, Map0F, <<<<"movups", \h10>>, <<"mulps", \h59>>>>)
  \o Forms(MX, Plain, Map0F, <<<<"movups", \h10>>>>)
  \o Forms(XXIb, P66, Map3A, <<<<"mpsadbw", \h42>>>>)
  \o Forms(XMIb, P66, Map3A, <<<<"mpsadbw", \h42>>>>)
  \o FormsX(RSized, Plain, Byte, <<<<"mul", \hF7, 4>>>>)
  \o FormsX(MSized, Plain, Byte, <<<<"mul", \hF7, 4>>>>)
  \o Forms(XX, PF2, Map0F, <<<<"mulsd", \h59>>>>)

FromMulsdToOrpd ==
     Fixed(<<<<"mwait", <<\h0F, \h01, \hC9, \hC8>>>>, <<"nop", <<\h90>>>>>>)
  \o Forms(XM, PF2, Map0F, <<<<"mulsd", \h59>>>>)
  \o Forms(XX, PF3, Map0F, <<<<"mulss", \h59>>>>)
  \o Forms(XM, PF3, Map0F, <<<<"mulss", \h59>>>>)
  \o FormsX(RSized, Plain, Byte, <<<<"neg", \hF7, 3>>, <<"not", \hF7, 2>>>>)
  \o FormsX(MSized, Plain, Byte, <<<<"neg", \hF7, 3>>, <<"not", \hF7, 2>>>>)
  \o FormsX(R, Plain, Map0F, <<<<"nop", \h0D, 0>>>>)
  \o FormsX(M, Plain, Map0F, <<<<"nop", \h0D, 0>>>>)
  \o Forms(RRStore, Plain, Byte, <<<<"or", \h09>>>>)
  \o Forms(RM, Plain, Byte, <<<<"or", \h0B>>>>)
  \o Forms(MR, Plain, Byte, <<<<"or", \h09>>>>)
  \o FormsX(RAlu, Plain, Byte, <<<<"or", \h81, 1>>>>)
  \o FormsX(MAlu, Plain, Byte, <<<<"or", \h81, 1>>>>)
  \o Forms(XX, P66, Map0F, <<<<"orpd", \h56>>>>)

FromOrpdToPackssdw ==
     Fixed(<<<<"out", <<\hE6>>>>, <<"outs", <<\h6E>>>>>>)
  \o Forms(XM, P66, Map0F, <<<<"orpd", \h56>>>>)
  \o Forms(XX, Plain, Map0F, <<<<"orps", \h56>>, <<"packssdw", \h6B>>>>)
  \o Forms(XM, Plain, Map0F, <<<<"orps", \h56>>, <<"packssdw", \h6B>>>>)
  \o Forms(XX, Plain, Map38, <<<<"pabsb", \h1C>>, <<"pabsd", \h1E>>, <<"pabsw", \h1D>>>>)
  \o Forms(XM, Plain, Map38, <<<<"pabsb", \h1C>>, <<"pabsd", \h1E>>, <<"pabsw", \h1D>>>>)
  \o Forms(QQ, Plain, Map38, <<<<"pabsb", \h1C>>, <<"pabsd", \h1E>>, <<"pabsw", \h1D>>>>)
  \o Forms(QM, Plain, Map38, <<<<"pabsb", \h1C>>, <<"pabsd", \h1E>>, <<"pabsw", \h1D>>>>)
  \o Forms(QQ, Plain, Map0F, <<<<"packssdw", \h6B>>>>)

FromPackssdwToPaddq ==
     Forms(QM, Plain, Map0F, <<<<"packssdw", \h6B>>, <<"packsswb", \h63>>, <<"packuswb", \h67>>,
       <<"paddb", \hFC>>, <<"paddd", \hFE>>>>)
  \o Forms(XX, Plain, Map0F, <<<<"packsswb", \h63>>, <<"packuswb", \h67>>, <<"paddb", \hFC>>, <<"paddd", \hFE>>,
       <<"paddq", \hD4>>>>)
  \o Forms(XM, Plain, Map0F, <<<<"packsswb", \h63>>, <<"packuswb", \h67>>, <<"paddb", \hFC>>,
       <<"paddd", \hFE>>>>)
  \o Forms(QQ, Plain, Map0F, <<<<"packsswb", \h63>>, <<"packuswb", \h67>>, <<"paddb", \hFC>>,
       <<"paddd", \hFE>>>>)
  \o Forms(XX, P66, Map38, <<<<"packusdw", \h2B>>>>)
  \o Forms(XM, P66, Map38, <<<<"packusdw", \h2B>>>>)

FromPaddqToPaddw ==
     Forms(XM, Plain, Map0F, <<<<"paddq", \hD4>>, <<"paddsb", \hEC>>, <<"paddsw", \hED>>, <<"paddusb", \hDC>>,
       <<"paddusw", \hDD>>, <<"paddw", \hFD>>>>)
  \o Forms(QQ, Plain, Map0F, <<<<"paddq", \hD4>>, <<"paddsb", \hEC>>, <<"paddsw", \hED>>, <<"paddusb", \hDC>>,
       <<"paddusw", \hDD>>>>)
  \o Forms(QM, Plain, Map0F, <<<<"paddq", \hD4>>, <<"paddsb", \hEC>>, <<"paddsw", \hED>>, <<"paddusb", \hDC>>,
       <<"paddusw", \hDD>>>>)
  \o Forms(XX, Plain, Map0F, <<<<"paddsb", \hEC>>, <<"paddsw", \hED>>, <<"paddusb", \hDC>>, <<"paddusw", \hDD>>,
       <<"paddw", \hFD>>>>)

FromPaddwToPavgw ==
     Fixed(<<<<"pause", <<\hF3, \h90>>>>>>)
  \o Forms(QQ, Plain, Map0F, <<<<"paddw", \hFD>>, <<"pand", \hDB>>, <<"pandn", \hDF>>, <<"pavgb", \hE0>>>>)
  \o Forms(QM, Plain, Map0F, <<<<"paddw", \hFD>>, <<"pand", \hDB>>, <<"pandn", \hDF>>, <<"pavgb", \hE0>>>>)
  \o Forms(XX, Plain, Map3A, <<<<"palignr", \h0F>>>>)
  \o Forms(XM, Plain, Map3A, <<<<"palignr", \h0F>>>>)
  \o Forms(QQ, Plain, Map3A, <<<<"palignr", \h0F>>>>)
  \o Forms(QM, Plain, Map3A, <<<<"palignr", \h0F>>>>)
  \o Forms(XX, Plain, Map0F, <<<<"pand", \hDB>>, <<"pandn", \hDF>>, <<"pavgb", \hE0>>, <<"pavgw", \hE3>>>>)
  \o Forms(XM, Plain, Map0F, <<<<"pand", \hDB>>, <<"pandn", \hDF>>, <<"pavgb", \hE0>>, <<"pavgw", \hE3>>>>)

FromPavgwToPcmpeqw ==
     Forms(QQ, Plain, Map0F, <<<<"pavgw", \hE3>>, <<"pcmpeqb", \h74>>, <<"pcmpeqd", \h76>>,
       <<"pcmpeqw", \h75>>>>)
  \o Forms(QM, Plain, Map0F, <<<<"pavgw", \hE3>>, <<"pcmpeqb", \h74>>, <<"pcmpeqd", \h76>>>>)
  \o Forms(XX, P66, Map38, <<<<"pblendvb", \h10>>, <<"pcmpeqq", \h29>>>>)
  \o Forms(XM, P66, Map38, <<<<"pblendvb", \h10>>, <<"pcmpeqq", \h29>>>>)
  \o Forms(XXIb, P66, Map3A, <<<<"pblendw", \h0E>>>>)
  \o Forms(XMIb, P66, Map3A, <<<<"pblendw", \h0E>>>>)
  \o Forms(XX, Plain, Map0F, <<<<"pcmpeqb", \h74>>, <<"pcmpeqd", \h76>>, <<"pcmpeqw", \h75>>>>)
  \o Forms(XM, Plain, Map0F, <<<<"pcmpeqb", \h74>>, <<"pcmpeqd", \h76>>, <<"pcmpeqw", \h75>>>>)

FromPcmpeqwToPcmpgtw ==
     Forms(QM, Plain, Map0F, <<<<"pcmpeqw", \h75>>, <<"pcmpgtb", \h64>>, <<"pcmpgtd", \h66>>>>)
  \o Forms(XXIb, P66, Map3A, <<<<"pcmpestri", \h61>>, <<"pcmpestrm", \h60>>>>)
  \o Forms(XMIb, P66, Map3A, <<<<"pcmpestri", \h61>>, <<"pcmpestrm", \h60>>>>)
  \o Forms(XX, Plain, Map0F, <<<<"pcmpgtb", \h64>>, <<"pcmpgtd", \h66>>, <<"pcmpgtw", \h65>>>>)
  \o Forms(XM, Plain, Map0F, <<<<"pcmpgtb", \h64>>, <<"pcmpgtd", \h66>>, <<"pcmpgtw", \h65>>>>)
  \o Forms(QQ, Plain, Map0F, <<<<"pcmpgtb", \h64>>, <<"pcmpgtd", \h66>>, <<"pcmpgtw", \h65>>>>)
  \o Forms(XX, P66, Map38, <<<<"pcmpgtq", \h37>>>>)
  \o Forms(XM, P66, Map38, <<<<"pcmpgtq", \h37>>>>)

FromPcmpgtwToPhaddd ==
     Forms(QM, Plain, Map0F, <<<<"pcmpgtw", \h65>>>>)
  \o Forms(XXIb, P66, Map3A, <<<<"pcmpistri", \h63>>, <<"pcmpistrm", \h62>>>>)
  \o Forms(XMIb, P66, Map3A, <<<<"pcmpistri", \h63>>, <<"pcmpistrm", \h62>>>>)
  \o Forms(RXIb, P66, Map3A, <<<<"pextrb", \h14>>, <<"pextrd", \h16>>, <<"pextrw", \h15>>>>)
  \o Forms(MXIb, P66, Map3A, <<<<"pextrb", \h14>>, <<"pextrd", \h16>>, <<"pextrw", \h15>>>>)
  \o Forms(XX, Plain, Map38, <<<<"phaddd", \h02>>>>)
  \o Forms(XM, Plain, Map38, <<<<"phaddd", \h02>>>>)
  \o Forms(QQ, Plain, Map38, <<<<"phaddd", \h02>>>>)
  \o Forms(QM, Plain, Map38, <<<<"phaddd", \h02>>>>)

FromPhaddswToPhsubsw ==
     Forms(XX, Plain, Map38, <<<<"phaddsw", \h03>>, <<"phaddw", \h01>>, <<"phsubd", \h06>>,
       <<"phsubsw", \h07>>>>)
  \o Forms(XM, Plain, Map38, <<<<"phaddsw", \h03>>, <<"phaddw", \h01>>, <<"phsubd", \h06>>,
       <<"phsubsw", \h07>>>>)
  \o Forms(QQ, Plain, Map38, <<<<"phaddsw", \h03>>, <<"phaddw", \h01>>, <<"phsubd", \h06>>,
       <<"phsubsw", \h07>>>>)
  \o Forms(QM, Plain, Map38, <<<<"phaddsw", \h03>>, <<"phaddw", \h01>>, <<"phsubd", \h06>>,
       <<"phsubsw", \h07>>>>)
  \o Forms(XX, P66, Map38, <<<<"phminposuw", \h41>>>>)
  \o Forms(XM, P66, Map38, <<<<"phminposuw", \h41>>>>)

FromPhsubwToPmaddwd ==
     Forms(XX, Plain, Map38, <<<<"phsubw", \h05>>, <<"pmaddubsw", \h04>>>>)
  \o Forms(XM, Plain, Map38, <<<<"phsubw", \h05>>, <<"pmaddubsw", \h04>>>>)
  \o Forms(QQ, Plain, Map38, <<<<"phsubw", \h05>>, <<"pmaddubsw", \h04>>>>)
  \o Forms(QM, Plain, Map38, <<<<"phsubw", \h05>>, <<"pmaddubsw", \h04>>>>)
  \o Forms(XRIb, P66, Map3A, <<<<"pinsrb", \h20>>, <<"pinsrd", \h22>>>>)
  \o Forms(XMIb, P66, Map3A, <<<<"pinsrb", \h20>>, <<"pinsrd", \h22>>>>)
  \o Forms(XRIb, Plain, Map0F, <<<<"pinsrw", \hC4>>>>)
  \o Forms(XMIb, Plain, Map0F, <<<<"pinsrw", \hC4>>>>)
  \o Forms(XX, Plain, Map0F, <<<<"pmaddwd", \hF5>>>>)
  \o Forms(XM, Plain, Map0F, <<<<"pmaddwd", \hF5>>>>)
  \o Forms(QQ, Plain, Map0F, <<<<"pmaddwd", \hF5>>>>)
  \o Forms(QM, Plain, Map0F, <<<<"pmaddwd", \hF5>>>>)

FromPmaxsbToPminsb ==
     Forms(XX, P66, Map38, <<<<"pmaxsb", \h3C>>, <<"pmaxsd", \h3D>>, <<"pmaxud", \h3F>>, <<"pmaxuw", \h3E>>,
       <<"pminsb", \h38>>>>)
  \o Forms(XM, P66, Map38, <<<<"pmaxsb", \h3C>>, <<"pmaxsd", \h3D>>, <<"pmaxud", \h3F>>, <<"pmaxuw", \h3E>>,
       <<"pminsb", \h38>>>>)
  \o Forms(XX, Plain, Map0F, <<<<"pmaxsw", \hEE>>, <<"pmaxub", \hDE>>>>)
  \o Forms(XM, Plain, Map0F, <<<<"pmaxsw", \hEE>>, <<"pmaxub", \hDE>>>>)
  \o Forms(QQ, Plain, Map0F, <<<<"pmaxsw", \hEE>>, <<"pmaxub", \hDE>>>>)
  \o Forms(QM, Plain, Map0F, <<<<"pmaxsw", \hEE>>, <<"pmaxub", \hDE>>>>)

FromPminsdToPmovsxbw ==
     Forms(XX, P66, Map38, <<<<"pminsd", \h39>>, <<"pminud", \h3B>>, <<"pminuw", \h3A>>>>)
  \o Forms(XM, P66, Map38, <<<<"pminsd", \h39>>, <<"pminud", \h3B>>, <<"pminuw", \h3A>>, <<"pmovsxbd", \h21>>,
       <<"pmovsxbq", \h22>>, <<"pmovsxbw", \h20>>>>)
  \o Forms(XX, Plain, Map0F, <<<<"pminsw", \hEA>>, <<"pminub", \hDA>>>>)
  \o Forms(XM, Plain, Map0F, <<<<"pminsw", \hEA>>, <<"pminub", \hDA>>>>)
  \o Forms(QQ, Plain, Map0F, <<<<"pminsw", \hEA>>, <<"pminub", \hDA>>>>)
  \o Forms(QM, Plain, Map0F, <<<<"pminsw", \hEA>>, <<"pminub", \hDA>>>>)
  \o Forms(RX, Plain, Map0F, <<<<"pmovmskb", \hD7>>>>)

FromPmovsxdqToPmulhuw ==
     Forms(XM, P66, Map38, <<<<"pmovsxdq", \h25>>, <<"pmovsxwd", \h23>>, <<"pmovsxwq", \h24>>,
       <<"pmovzxbd", \h31>>, <<"pmovzxbq", \h32>>, <<"pmovzxbw", \h30>>, <<"pmovzxdq", \h35>>,
       <<"pmovzxwd", \h33>>, <<"pmovzxwq", \h34>>, <<"pmuldq", \h28>>>>)
  \o Forms(XX, P66, Map38, <<<<"pmuldq", \h28>>>>)
  \o Forms(XX, Plain, Map38, <<<<"pmulhrsw", \h0B>>>>)
  \o Forms(XM, Plain, Map38, <<<<"pmulhrsw", \h0B>>>>)
  \o Forms(QQ, Plain, Map38, <<<<"pmulhrsw", \h0B>>>>)
  \o Forms(QM, Plain, Map38, <<<<"pmulhrsw", \h0B>>>>)
  \o Forms(XX, Plain, Map0F, <<<<"pmulhuw", \hE4>>>>)

FromPmulhuwToPopcnt ==
     Fixed(<<<<"popa", <<\h61>>>>, <<"popad", <<\h61>>>>>>)
  \o Forms(XM, Plain, Map0F, <<<<"pmulhuw", \hE4>>, <<"pmulhw", \hE5>>, <<"pmullw", \hD5>>,
       <<"pmuludq", \hF4>>>>)
  \o Forms(QQ, Plain, Map0F, <<<<"pmulhuw", \hE4>>, <<"pmulhw", \hE5>>, <<"pmullw", \hD5>>,
       <<"pmuludq", \hF4>>>>)
  \o Forms(QM, Plain, Map0F, <<<<"pmulhuw", \hE4>>, <<"pmulhw", \hE5>>, <<"pmullw", \hD5>>,
       <<"pmuludq", \hF4>>>>)
  \o Forms(XX, Plain, Map0F, <<<<"pmulhw", \hE5>>, <<"pmullw", \hD5>>, <<"pmuludq", \hF4>>>>)
  \o Forms(XX, P66, Map38, <<<<"pmulld", \h40>>>>)
  \o Forms(XM, P66, Map38, <<<<"pmulld", \h40>>>>)
  \o Forms(RLow, Plain, Byte, <<<<"pop", \h58>>>>)
  \o Forms(RROr16, PF3, Map0F, <<<<"popcnt", \hB8>>>>)

FromPopcntToPshufb ==
     Fixed(<<<<"popf", <<\h9D>>>>, <<"popfd", <<\h9D>>>>>>)
  \o Forms(RM, PF3, Map0F, <<<<"popcnt", \hB8>>>>)
  \o Forms(XX, Plain, Map0F, <<<<"por", \hEB>>, <<"psadbw", \hF6>>>>)
  \o Forms(XM, Plain, Map0F, <<<<"por", \hEB>>, <<"psadbw", \hF6>>>>)
  \o Forms(QQ, Plain, Map0F, <<<<"por", \hEB>>, <<"psadbw", \hF6>>>>)
  \o Forms(QM, Plain, Map0F, <<<<"por", \hEB>>, <<"psadbw", \hF6>>>>)
  \o FormsX(R, Plain, Map0F, <<<<"prefetchnta", \h18, 0>>, <<"prefetcht0", \h18, 1>>, <<"prefetcht1", \h18, 2>>,
       <<"prefetcht2", \h18, 3>>>>)
  \o FormsX(M, Plain, Map0F, <<<<"prefetchnta", \h18, 0>>, <<"prefetcht0", \h18, 1>>, <<"prefetcht1", \h18, 2>>,
       <<"prefetcht2", \h18, 3>>>>)
  \o Forms(XX, Plain, Map38, <<<<"pshufb", \h00>>>>)
  \o Forms(XM, Plain, Map38, <<<<"pshufb", \h00>>>>)
  \o Forms(QQ, Plain, Map38, <<<<"pshufb", \h00>>>>)

FromPshufbToPsignw ==
     Forms(QM, Plain, Map38, <<<<"pshufb", \h00>>, <<"psignb", \h08>>, <<"psignd", \h0A>>>>)
  \o Forms(XXIb, P66, Map0F, <<<<"pshufd", \h70>>>>)
  \o Forms(XMIb, P66, Map0F, <<<<"pshufd", \h70>>>>)
  \o Forms(XXIb, PF3, Map0F, <<<<"pshufhw", \h70>>>>)
  \o Forms(XMIb, PF3, Map0F, <<<<"pshufhw", \h70>>>>)
  \o Forms(XXIb, PF2, Map0F, <<<<"pshuflw", \h70>>>>)
  \o Forms(XMIb, PF2, Map0F, <<<<"pshuflw", \h70>>>>)
  \o Forms(QQ, Plain, Map0F, <<<<"pshufw", \h70>>>>)
  \o Forms(XX, Plain, Map38, <<<<"psignb", \h08>>, <<"psignd", \h0A>>, <<"psignw", \h09>>>>)
  \o Forms(XM, Plain, Map38, <<<<"psignb", \h08>>, <<"psignd", \h0A>>>>)
  \o Forms(QQ, Plain, Map38, <<<<"psignb", \h08>>, <<"psignd", \h0A>>>>)

FromPsignwToPsrad ==
     Forms(XM, Plain, Map38, <<<<"psignw", \h09>>>>)
  \o Forms(QQ, Plain, Map38, <<<<"psignw", \h09>>>>)
  \o Forms(QM, Plain, Map38, <<<<"psignw", \h09>>>>)
  \o Forms(XX, Plain, Map0F, <<<<"pslld", \h72>>, <<"psllq", \h73>>, <<"psllw", \h71>>, <<"psrad", \h72>>>>)
  \o Forms(XM, Plain, Map0F, <<<<"pslld", \h72>>, <<"psllq", \h73>>, <<"psllw", \h71>>>>)
  \o Forms(QQ, Plain, Map0F, <<<<"pslld", \h72>>, <<"psllq", \h73>>, <<"psllw", \h71>>>>)
  \o Forms(QM, Plain, Map0F, <<<<"pslld", \h72>>, <<"psllq", \h73>>, <<"psllw", \h71>>>>)
  \o FormsX(XIb, Plain, Map0F, <<<<"pslld", \h72, 6>>, <<"psllq", \h73, 6>>, <<"psllw", \h71, 6>>>>)
  \o FormsX(XIb, P66, Map0F, <<<<"pslldq", \h73, 7>>>>)

FromPsradToPsrlw ==
     Forms(XM, Plain, Map0F, <<<<"psrad", \h72>>, <<"psraw", \h71>>, <<"psrld", \h72>>, <<"psrlq", \h73>>>>)
  \o Forms(QQ, Plain, Map0F, <<<<"psrad", \h72>>, <<"psraw", \h71>>, <<"psrld", \h72>>, <<"psrlq", \h73>>>>)
  \o Forms(QM, Plain, Map0F, <<<<"psrad", \h72>>, <<"psraw", \h71>>, <<"psrld", \h72>>, <<"psrlq", \h73>>>>)
  \o FormsX(XIb, Plain, Map0F, <<<<"psrad", \h72, 4>>, <<"psraw", \h71, 4>>, <<"psrld", \h72, 2>>,
       <<"psrlq", \h73, 2>>>>)
  \o Forms(XX, Plain, Map0F, <<<<"psraw", \h71>>, <<"psrld", \h72>>, <<"psrlq", \h73>>, <<"psrlw", \h71>>>>)
  \o FormsX(XIb, P66, Map0F, <<<<"psrldq", \h73, 3>>>>)

FromPsrlwToPsubsw ==
     Forms(XM, Plain, Map0F, <<<<"psrlw", \h71>>, <<"psubb", \hF8>>, <<"psubd", \hFA>>, <<"psubq", \hFB>>,
       <<"psubsb", \hE8>>>>)
  \o Forms(QQ, Plain, Map0F, <<<<"psrlw", \h71>>, <<"psubb", \hF8>>, <<"psubd", \hFA>>, <<"psubq", \hFB>>,
       <<"psubsb", \hE8>>>>)
  \o Forms(QM, Plain, Map0F, <<<<"psrlw", \h71>>, <<"psubb", \hF8>>, <<"psubd", \hFA>>, <<"psubq", \hFB>>,
       <<"psubsb", \hE8>>>>)
  \o FormsX(XIb, Plain, Map0F, <<<<"psrlw", \h71, 2>>>>)
  \o Forms(XX, Plain, Map0F, <<<<"psubb", \hF8>>, <<"psubd", \hFA>>, <<"psubq", \hFB>>, <<"psubsb", \hE8>>,
       <<"psubsw", \hE9>>>>)

FromPsubswToPunpckhbw ==
     Forms(XM, Plain, Map0F, <<<<"psubsw", \hE9>>, <<"psubusb", \hD8>>, <<"psubusw", \hD9>>, <<"psubw", \hF9>>,
       <<"punpckhbw", \h68>>>>)
  \o Forms(QQ, Plain, Map0F, <<<<"psubsw", \hE9>>, <<"psubusb", \hD8>>, <<"psubusw", \hD9>>, <<"psubw", \hF9>>,
       <<"punpckhbw", \h68>>>>)
  \o Forms(QM, Plain, Map0F, <<<<"psubsw", \hE9>>, <<"psubusb", \hD8>>, <<"psubusw", \hD9>>,
       <<"psubw", \hF9>>>>)
  \o Forms(XX, Plain, Map0F, <<<<"psubusb", \hD8>>, <<"psubusw", \hD9>>, <<"psubw", \hF9>>,
       <<"punpckhbw", \h68>>>>)
  \o Forms(XX, P66, Map38, <<<<"ptest", \h17>>>>)
  \o Forms(XM, P66, Map38, <<<<"ptest", \h17>>>>)

FromPunpckhbwToPunpcklqdq ==
     Forms(QM, Plain, Map0F, <<<<"punpckhbw", \h68>>, <<"punpckhdq", \h6A>>, <<"punpckhwd", \h69>>,
       <<"punpcklbw", \h60>>, <<"punpckldq", \h62>>>>)
  \o Forms(XX, Plain, Map0F, <<<<"punpckhdq", \h6A>>, <<"punpckhwd", \h69>>, <<"punpcklbw", \h60>>,
       <<"punpckldq", \h62>>>>)
  \o Forms(XM, Plain, Map0F, <<<<"punpckhdq", \h6A>>, <<"punpckhwd", \h69>>, <<"punpcklbw", \h60>>,
       <<"punpckldq", \h62>>>>)
  \o Forms(QQ, Plain, Map0F, <<<<"punpckhdq", \h6A>>, <<"punpckhwd", \h69>>, <<"punpcklbw", \h60>>,
       <<"punpckldq", \h62>>>>)
  \o Forms(XX, P66, Map0F, <<<<"punpckhqdq", \h6D>>, <<"punpcklqdq", \h6C>>>>)
  \o Forms(XM, P66, Map0F, <<<<"punpckhqdq", \h6D>>>>)

FromPunpcklqdqToRcpss ==
     Fixed(<<<<"pusha", <<\h60>>>>, <<"pushad", <<\h60>>>>, <<"pushf", <<\h9C>>>>, <<"pushfd", <<\h9C>>>>>>)
  \o Forms(XM, P66, Map0F, <<<<"punpcklqdq", \h6C>>>>)
  \o Forms(XX, Plain, Map0F, <<<<"punpcklwd", \h61>>, <<"pxor", \hEF>>, <<"rcpps", \h53>>>>)
  \o Forms(XM, Plain, Map0F, <<<<"punpcklwd", \h61>>, <<"pxor", \hEF>>, <<"rcpps", \h53>>>>)
  \o Forms(QQ, Plain, Map0F, <<<<"punpcklwd", \h61>>, <<"pxor", \hEF>>>>)
  \o Forms(QM, Plain, Map0F, <<<<"punpcklwd", \h61>>, <<"pxor", \hEF>>>>)
  \o Forms(RLow, Plain, Byte, <<<<"push", \h50>>>>)
  \o FormsX(RSizedIb, Plain, Byte, <<<<"rcl", \hC1, 2>>>>)
  \o FormsX(MSizedIb, Plain, Byte, <<<<"rcl", \hC1, 2>>>>)
  \o Forms(XX, PF3, Map0F, <<<<"rcpss", \h53>>>>)
  \o Forms(XM, PF3, Map0F, <<<<"rcpss", \h53>>>>)

FromRcrToRoundps ==
     Fixed(<<<<"rdmsr", <<\h0F, \h32>>>>, <<"rdpmc", <<\h0F, \h33>>>>, <<"rdtsc", <<\h0F, \h31>>>>,
       <<"rdtscp", <<\h0F, \h01, \hF9, \hF8>>>>, <<"retf", <<\hCA>>>>, <<"retn", <<\hC2>>>>>>)
  \o FormsX(RSizedIb, Plain, Byte, <<<<"rcr", \hC1, 3>>, <<"rol", \hC1, 0>>, <<"ror", \hC1, 1>>>>)
  \o FormsX(MSizedIb, Plain, Byte, <<<<"rcr", \hC1, 3>>, <<"rol", \hC1, 0>>, <<"ror", \hC1, 1>>>>)
  \o Forms(XXIb, P66, Map3A, <<<<"roundpd", \h09>>, <<"roundps", \h08>>>>)
  \o Forms(XMIb, P66, Map3A, <<<<"roundpd", \h09>>>>)

FromRoundpsToSar ==
     Fixed(<<<<"rsm", <<\h0F, \hAA>>>>, <<"sahf", <<\h9E>>>>, <<"salc", <<\hD6>>>>>>)
  \o Forms(XMIb, P66, Map3A, <<<<"roundps", \h08>>, <<"roundsd", \h0B>>, <<"roundss", \h0A>>>>)
  \o Forms(XXIb, P66, Map3A, <<<<"roundsd", \h0B>>, <<"roundss", \h0A>>>>)
  \o Forms(XX, Plain, Map0F, <<<<"rsqrtps", \h52>>>>)
  \o Forms(XM, Plain, Map0F, <<<<"rsqrtps", \h52>>>>)
  \o Forms(XX, PF3, Map0F, <<<<"rsqrtss", \h52>>>>)
  \o Forms(XM, PF3, Map0F, <<<<"rsqrtss", \h52>>>>)
  \o FormsX(RSizedIb, Plain, Byte, <<<<"sal", \hC1, 6>>, <<"sar", \hC1, 7>>>>)
  \o FormsX(MSizedIb, Plain, Byte, <<<<"sal", \hC1, 6>>>>)

FromSarToSetnbe ==
     Fixed(<<<<"scas", <<\hAE>>>>>>)
  \o FormsX(MSizedIb, Plain, Byte, <<<<"sar", \hC1, 7>>>>)
  \o Forms(RRStore, Plain, Byte, <<<<"sbb", \h19>>>>)
  \o Forms(RM, Plain, Byte, <<<<"sbb", \h1B>>>>)
  \o Forms(MR, Plain, Byte, <<<<"sbb", \h19>>>>)
  \o FormsX(RAlu, Plain, Byte, <<<<"sbb", \h81, 3>>>>)
  \o FormsX(MAlu, Plain, Byte, <<<<"sbb", \h81, 3>>>>)
  \o FormsX(R, Plain, Map0F, <<<<"setb", \h92, 0>>, <<"setbe", \h96, 0>>, <<"setl", \h9C, 0>>,
       <<"setle", \h9E, 0>>, <<"setnb", \h93, 0>>, <<"setnbe", \h97, 0>>>>)
  \o FormsX(M, Plain, Map0F, <<<<"setb", \h92, 0>>, <<"setbe", \h96, 0>>, <<"setl", \h9C, 0>>,
       <<"setle", \h9E, 0>>, <<"setnb", \h93, 0>>>>)

FromSetnbeToSgdt ==
     Fixed(<<<<"sfence", <<\h0F, \hAE, \hF8>>>>>>)
  \o FormsX(M, Plain, Map0F, <<<<"setnbe", \h97, 0>>, <<"setnl", \h9D, 0>>, <<"setnle", \h9F, 0>>,
       <<"setno", \h91, 0>>, <<"setnp", \h9B, 0>>, <<"setns", \h99, 0>>, <<"setnz", \h95, 0>>,
       <<"seto", \h90, 0>>, <<"setp", \h9A, 0>>, <<"sets", \h98, 0>>, <<"setz", \h94, 0>>>>)
  \o FormsX(R, Plain, Map0F, <<<<"setnl", \h9D, 0>>, <<"setnle", \h9F, 0>>, <<"setno", \h91, 0>>,
       <<"setnp", \h9B, 0>>, <<"setns", \h99, 0>>, <<"setnz", \h95, 0>>, <<"seto", \h90, 0>>,
       <<"setp", \h9A, 0>>, <<"sets", \h98, 0>>, <<"setz", \h94, 0>>, <<"sgdt", \h01, 0>>>>)

FromSgdtToSmsw ==
     FormsX(M, Plain, Map0F, <<<<"sgdt", \h01, 0>>, <<"sidt", \h01, 1>>, <<"sldt", \h00, 0>>>>)
  \o FormsX(RSizedIb, Plain, Byte, <<<<"shl", \hC1, 4>>, <<"shr", \hC1, 5>>>>)
  \o FormsX(MSizedIb, Plain, Byte, <<<<"shl", \hC1, 4>>, <<"shr", \hC1, 5>>>>)
  \o Forms(RRIb, Plain, Map0F, <<<<"shld", \hA4>>, <<"shrd", \hAC>>>>)
  \o Forms(XXIb, P66, Map0F, <<<<"shufpd", \hC6>>>>)
  \o Forms(XMIb, P66, Map0F, <<<<"shufpd", \hC6>>>>)
  \o Forms(XXIb, Plain, Map0F, <<<<"shufps", \hC6>>>>)
  \o Forms(XMIb, Plain, Map0F, <<<<"shufps", \hC6>>>>)
  \o FormsX(R, Plain, Map0F, <<<<"sidt", \h01, 1>>, <<"sldt", \h00, 0>>, <<"smsw", \h01, 4>>>>)

FromSmswToSub ==
     Fixed(<<<<"stc", <<\hF9>>>>, <<"std", <<\hFD>>>>, <<"sti", <<\hFB>>>>, <<"stos", <<\hAA>>>>>>)
  \o FormsX(M, Plain, Map0F, <<<<"smsw", \h01, 4>>, <<"stmxcsr", \hAE, 3>>, <<"str", \h00, 1>>>>)
  \o Forms(XX, P66, Map0F, <<<<"sqrtpd", \h51>>>>)
  \o Forms(XM, P66, Map0F, <<<<"sqrtpd", \h51>>>>)
  \o Forms(XX, Plain, Map0F, <<<<"sqrtps", \h51>>>>)
  \o Forms(XM, Plain, Map0F, <<<<"sqrtps", \h51>>>>)
  \o Forms(XX, PF2, Map0F, <<<<"sqrtsd", \h51>>>>)
  \o Forms(XM, PF2, Map0F, <<<<"sqrtsd", \h51>>>>)
  \o Forms(XX, PF3, Map0F, <<<<"sqrtss", \h51>>>>)
  \o Forms(XM, PF3, Map0F, <<<<"sqrtss", \h51>>>>)
  \o FormsX(R, Plain, Map0F, <<<<"stmxcsr", \hAE, 3>>, <<"str", \h00, 1>>>>)
  \o Forms(RRStore, Plain, Byte, <<<<"sub", \h29>>>>)
  \o Forms(RM, Plain, Byte, <<<<"sub", \h2B>>>>)
  \o Forms(MR, Plain, Byte, <<<<"sub", \h29>>>>)

FromSubToTest ==
     Fixed(<<<<"swapgs", <<\h0F, \h01, \hF8, \hF8>>>>, <<"syscall", <<\h0F, \h05>>>>,
       <<"sysenter", <<\h0F, \h34>>>>, <<"sysexit", <<\h0F, \h35>>>>, <<"sysret", <<\h0F, \h07>>>>>>)
  \o FormsX(RAlu, Plain, Byte, <<<<"sub", \h81, 5>>>>)
  \o FormsX(MAlu, Plain, Byte, <<<<"sub", \h81, 5>>>>)
  \o Forms(XX, P66, Map0F, <<<<"subpd", \h5C>>>>)
  \o Forms(XM, P66, Map0F, <<<<"subpd", \h5C>>>>)
  \o Forms(XX, Plain, Map0F, <<<<"subps", \h5C>>>>)
  \o Forms(XM, Plain, Map0F, <<<<"subps", \h5C>>>>)
  \o Forms(XX, PF2, Map0F, <<<<"subsd", \h5C>>>>)
  \o Forms(XM, PF2, Map0F, <<<<"subsd", \h5C>>>>)
  \o Forms(XX, PF3, Map0F, <<<<"subss", \h5C>>>>)
  \o Forms(XM, PF3, Map0F, <<<<"subss", \h5C>>>>)
  \o Forms(RRStore, Plain, Byte, <<<<"test", \h85>>>>)
  \o Forms(MR, Plain, Byte, <<<<"test", \h85>>>>)

FromTestToVerr ==
     Fixed(<<<<"ud2", <<\h0F, \h0B>>>>>>)
  \o FormsX(RSizedIz, Plain, Byte, <<<<"test", \hF7, 0>>>>)
  \o FormsX(MSizedIz, Plain, Byte, <<<<"test", \hF7, 0>>>>)
  \o Forms(XX, P66, Map0F, <<<<"ucomisd", \h2E>>, <<"unpckhpd", \h15>>, <<"unpcklpd", \h14>>>>)
  \o Forms(XM, P66, Map0F, <<<<"ucomisd", \h2E>>, <<"unpckhpd", \h15>>, <<"unpcklpd", \h14>>>>)
  \o Forms(XX, Plain, Map0F, <<<<"ucomiss", \h2E>>, <<"unpckhps", \h15>>, <<"unpcklps", \h14>>>>)
  \o Forms(XM, Plain, Map0F, <<<<"ucomiss", \h2E>>, <<"unpckhps", \h15>>, <<"unpcklps", \h14>>>>)
  \o Forms(RR, Plain, Map0F, <<<<"ud", \hB9>>>>)
  \o Forms(RM, Plain, Map0F, <<<<"ud", \hB9>>>>)
  \o FormsX(R, Plain, Map0F, <<<<"verr", \h00, 4>>>>)

FromVerrToXadd ==
     Fixed(<<<<"vmcall", <<\h0F, \h01, \hC1, \hC0>>>>, <<"vmlaunch", <<\h0F, \h01, \hC2, \hC0>>>>,
       <<"vmresume", <<\h0F, \h01, \hC3, \hC0>>>>, <<"vmxoff", <<\h0F, \h01, \hC4, \hC0>>>>,
       <<"wbinvd", <<\h0F, \h09>>>>, <<"wrmsr", <<\h0F, \h30>>>>>>)
  \o FormsX(M, Plain, Map0F, <<<<"verr", \h00, 4>>, <<"verw", \h00, 5>>, <<"vmptrld", \hC7, 6>>,
       <<"vmptrst", \hC7, 7>>>>)
  \o FormsX(R, Plain, Map0F, <<<<"verw", \h00, 5>>, <<"vmptrld", \hC7, 6>>, <<"vmptrst", \hC7, 7>>>>)
  \o FormsX(R, P66, Map0F, <<<<"vmclear", \hC7, 6>>>>)
  \o FormsX(M, P66, Map0F, <<<<"vmclear", \hC7, 6>>>>)
  \o Forms(RRStore, Plain, Map0F, <<<<"vmread", \h78>>, <<"xadd", \hC1>>>>)
  \o Forms(MR, Plain, Map0F, <<<<"vmread", \h78>>>>)
  \o Forms(RR, Plain, Map0F, <<<<"vmwrite", \h79>>>>)
  \o Forms(RM, Plain, Map0F, <<<<"vmwrite", \h79>>>>)
  \o FormsX(R, PF3, Map0F, <<<<"vmxon", \hC7, 6>>>>)
  \o FormsX(M, PF3, Map0F, <<<<"vmxon", \hC7, 6>>>>)

FromXaddToXsave ==
     Fixed(<<<<"xgetbv", <<\h0F, \h01, \hD0, \hD0>>>>, <<"xlat", <<\hD7>>>>>>)
  \o Forms(MR, Plain, Map0F, <<<<"xadd", \hC1>>>>)
  \o Forms(RR, Plain, Byte, <<<<"xchg", \h87>>>>)
  \o Forms(RM, Plain, Byte, <<<<"xchg", \h87>>, <<"xor", \h33>>>>)
  \o Forms(RLow, Plain, Byte, <<<<"xchg", \h90>>>>)
  \o Forms(RRStore, Plain, Byte, <<<<"xor", \h31>>>>)
  \o Forms(MR, Plain, Byte, <<<<"xor", \h31>>>>)
  \o FormsX(RAlu, Plain, Byte, <<<<"xor", \h81, 6>>>>)
  \o FormsX(MAlu, Plain, Byte, <<<<"xor", \h81, 6>>>>)
  \o Forms(XX, P66, Map0F, <<<<"xorpd", \h57>>>>)
  \o Forms(XM, P66, Map0F, <<<<"xorpd", \h57>>>>)
  \o Forms(XX, Plain, Map0F, <<<<"xorps", \h57>>>>)
  \o Forms(XM, Plain, Map0F, <<<<"xorps", \h57>>>>)
  \o FormsX(R, Plain, Map0F, <<<<"xrstor", \hAE, 5>>, <<"xsave", \hAE, 4>>>>)
  \o FormsX(M, Plain, Map0F, <<<<"xrstor", \hAE, 5>>>>)

FromXsaveToIretq ==
     Fixed(<<<<"xsetbv", <<\h0F, \h01, \hD1, \hD0>>>>, <<"ret", <<\hC3>>>>, <<"int3", <<\hCC>>>>,
       <<"movsb", <<\hA4>>>>, <<"movsw", <<\h66, \hA5>>>>, <<"movsd_str", <<\hA5>>>>,
       <<"movsq", <<\h48, \hA5>>>>, <<"stosb", <<\hAA>>>>, <<"stosw", <<\h66, \hAB>>>>, <<"stosd", <<\hAB>>>>,
       <<"stosq", <<\h48, \hAB>>>>, <<"lodsb", <<\hAC>>>>, <<"lodsw", <<\h66, \hAD>>>>, <<"lodsd", <<\hAD>>>>,
       <<"lodsq", <<\h48, \hAD>>>>, <<"cmpsb", <<\hA6>>>>, <<"cmpsw", <<\h66, \hA7>>>>,
       <<"cmpsd_str", <<\hA7>>>>, <<"cmpsq", <<\h48, \hA7>>>>, <<"scasb", <<\hAE>>>>,
       <<"scasw", <<\h66, \hAF>>>>, <<"scasd", <<\hAF>>>>, <<"scasq", <<\h48, \hAF>>>>, <<"insb", <<\h6C>>>>,
       <<"insw", <<\h66, \h6D>>>>, <<"insd", <<\h6D>>>>, <<"outsb", <<\h6E>>>>, <<"outsw", <<\h66, \h6F>>>>,
       <<"outsd", <<\h6F>>>>, <<"lock", <<\hF0>>>>, <<"rep", <<\hF3>>>>, <<"repe", <<\hF3>>>>,
       <<"repz", <<\hF3>>>>, <<"repne", <<\hF2>>>>, <<"repnz", <<\hF2>>>>, <<"data16", <<\h66>>>>,
       <<"addr32", <<\h67>>>>, <<"rep_movsb", <<\hF3, \hA4>>>>, <<"rep_movsw", <<\hF3, \h66, \hA5>>>>,
       <<"rep_movsd", <<\hF3, \hA5>>>>, <<"rep_movsq", <<\hF3, \h48, \hA5>>>>, <<"rep_stosb", <<\hF3, \hAA>>>>,
       <<"rep_stosw", <<\hF3, \h66, \hAB>>>>, <<"rep_stosd", <<\hF3, \hAB>>>>,
       <<"rep_stosq", <<\hF3, \h48, \hAB>>>>, <<"repe_cmpsb", <<\hF3, \hA6>>>>,
       <<"repe_scasb", <<\hF3, \hAE>>>>, <<"repne_cmpsb", <<\hF2, \hA6>>>>, <<"repne_scasb", <<\hF2, \hAE>>>>,
       <<"fwait", <<\h9B>>>>, <<"wait", <<\h9B>>>>, <<"cdqe", <<\h48, \h98>>>>, <<"cqo", <<\h48, \h99>>>>,
       <<"iretq", <<\h48, \hCF>>>>>>)
  \o FormsX(M, Plain, Map0F, <<<<"xsave", \hAE, 4>>>>)

FromPushfqToRdseed ==
     Fixed(<<<<"pushfq", <<\h9C>>>>, <<"popfq", <<\h9D>>>>, <<"xlatb", <<\hD7>>>>, <<"setalc", <<\hD6>>>>>>)
  \o Forms(Id, Plain, Byte, <<<<"push", \h68>>>>)
  \o Forms(Short, Plain, Byte, <<<<"loope", \hE1>>, <<"loopne", \hE0>>>>)
  \o Forms(RPort, Plain, Byte, <<<<"in", \hE5>>>>)
  \o Forms(RPortDx, Plain, Byte, <<<<"in", \hED>>>>)
  \o FormsX(MBare, <<\h48>>, Map0F, <<<<"cmpxchg16b", \hC7, 1>>>>)
  \o Forms(RXIb1, <<\h66, \h48>>, Map3A, <<<<"pextrq", \h16>>>>)
  \o Forms(XRIb1, <<\h66, \h48>>, Map3A, <<<<"pinsrq", \h22>>>>)
  \o Forms(QQIb, Plain, Map0F, <<<<"pshufw", \h70>>>>)
  \o Forms(RMExtend, Plain, Map0F, <<<<"movsx", \hBE>>, <<"movzx", \hB6>>>>)
  \o Forms(RRExtend, Plain, Map0F, <<<<"movsx", \hBE>>, <<"movzx", \hB6>>>>)
  \o FormsX(RCl, Plain, Byte, <<<<"shl", \hD3, 4>>, <<"shr", \hD3, 5>>, <<"sar", \hD3, 7>>>>)
  \o FormsX(MCl, Plain, Byte, <<<<"shl", \hD3, 4>>, <<"shr", \hD3, 5>>, <<"sar", \hD3, 7>>>>)
  \o Forms(Rel8, Plain, Byte, <<<<"jmp", \hEB>>>>)
  \o Forms(Rel16, P66, Byte, <<<<"jmp", \hE9>>>>)
  \o Forms(Rel32, Plain, Byte, <<<<"jmp", \hE9>>, <<"call", \hE8>>>>)
  \o Vectors(VRRR, 2, 0, 0, 0, <<<<"andn", \hF2>>>>)
  \o Vectors(VRRM, 2, 0, 0, 0, <<<<"andn", \hF2>>>>)
  \o Vectors(VRRRCount, 2, 0, 0, 0, <<<<"bextr", \hF7>>, <<"bzhi", \hF5>>>>)
  \o Vectors(VRMR, 2, 0, 0, 0, <<<<"bextr", \hF7>>>>)
  \o VectorsX(VRRX, 2, 0, 0, 0, <<<<"blsi", \hF3, 3>>, <<"blsmsk", \hF3, 2>>, <<"blsr", \hF3, 1>>>>)
  \o Forms(RR, PF3, Map0F, <<<<"tzcnt", \hBC>>, <<"lzcnt", \hBD>>>>)
  \o Vectors(VRRR, 2, 3, 0, 0, <<<<"mulx", \hF6>>, <<"pdep", \hF5>>>>)
  \o Vectors(VRRR, 2, 2, 0, 0, <<<<"pext", \hF5>>>>)
  \o Vectors(VRRIb, 3, 3, 0, 0, <<<<"rorx", \hF0>>>>)
  \o Vectors(VRRRCount, 2, 2, 0, 0, <<<<"sarx", \hF7>>>>)
  \o Vectors(VRRRCount, 2, 1, 0, 0, <<<<"shlx", \hF7>>>>)
  \o Vectors(VRRRCount, 2, 3, 0, 0, <<<<"shrx", \hF7>>>>)
  \o Forms(XX, P66, Map38, <<<<"aesenc", \hDC>>, <<"aesenclast", \hDD>>, <<"aesdec", \hDE>>,
       <<"aesdeclast", \hDF>>, <<"aesimc", \hDB>>>>)
  \o Forms(XXIb, P66, Map3A, <<<<"aeskeygenassist", \hDF>>, <<"pclmulqdq", \h44>>>>)
  \o Forms(XXIb, Plain, Map3A, <<<<"sha1rnds4", \hCC>>>>)
  \o Forms(XX, Plain, Map38, <<<<"sha1nexte", \hC8>>, <<"sha1msg1", \hC9>>, <<"sha1msg2", \hCA>>,
       <<"sha256rnds2", \hCB>>, <<"sha256msg1", \hCC>>, <<"sha256msg2", \hCD>>>>)
  \o Forms(RR, P66, Map38, <<<<"adcx", \hF6>>>>)
  \o Forms(RR, PF3, Map38, <<<<"adox", \hF6>>>>)
  \o FormsX(R, Plain, Map0F, <<<<"rdrand", \hC7, 6>>, <<"rdseed", \hC7, 7>>>>)

FromVzeroallToFwait ==
     Fixed(<<<<"vzeroall", <<\hC5, \hFC, \h77>>>>, <<"vzeroupper", <<\hC5, \hF8, \h77>>>>,
       <<"endbr64", <<\hF3, \h0F, \h1E, \hFA>>>>, <<"endbr32", <<\hF3, \h0F, \h1E, \hFB>>>>,
       <<"clac", <<\h0F, \h01, \hCA>>>>, <<"stac", <<\h0F, \h01, \hCB>>>>,
       <<"serialize", <<\h0F, \h01, \hE8>>>>, <<"wbnoinvd", <<\hF3, \h0F, \h09>>>>,
       <<"rdpkru", <<\h0F, \h01, \hEE>>>>, <<"wrpkru", <<\h0F, \h01, \hEF>>>>, <<"fwait", <<\h9B>>>>>>)
  \o FormsX(R, PF3, Map0F, <<<<"rdfsbase", \hAE, 0>>, <<"rdgsbase", \hAE, 1>>, <<"wrfsbase", \hAE, 2>>,
       <<"wrgsbase", \hAE, 3>>, <<"ptwrite", \hAE, 4>>>>)
  \o Vectors(VXXX, 2, 1, 0, 0, <<<<"vfmadd132ps", \h98>>, <<"vfmadd132ss", \h99>>, <<"vfmadd213ps", \hA8>>,
       <<"vfmadd213ss", \hA9>>, <<"vfmadd231ps", \hB8>>, <<"vfmadd231ss", \hB9>>, <<"vfmsub132ps", \h9A>>,
       <<"vfmsub132ss", \h9B>>, <<"vfmsub213ps", \hAA>>, <<"vfmsub213ss", \hAB>>, <<"vfmsub231ps", \hBA>>,
       <<"vfmsub231ss", \hBB>>, <<"vfnmadd132ps", \h9C>>, <<"vfnmadd132ss", \h9D>>, <<"vfnmadd213ps", \hAC>>,
       <<"vfnmadd213ss", \hAD>>, <<"vfnmadd231ps", \hBC>>, <<"vfnmadd231ss", \hBD>>, <<"vfnmsub132ps", \h9E>>,
       <<"vfnmsub132ss", \h9F>>, <<"vfnmsub213ps", \hAE>>, <<"vfnmsub213ss", \hAF>>, <<"vfnmsub231ps", \hBE>>,
       <<"vfnmsub231ss", \hBF>>, <<"vfmaddsub132ps", \h96>>, <<"vfmaddsub213ps", \hA6>>,
       <<"vfmaddsub231ps", \hB6>>, <<"vfmsubadd132ps", \h97>>, <<"vfmsubadd213ps", \hA7>>,
       <<"vfmsubadd231ps", \hB7>>, <<"vpermilps", \h0C>>, <<"vpermilpd", \h0D>>>>)
  \o Vectors(VXXX, 2, 1, 0, 1, <<<<"vfmadd132pd", \h98>>, <<"vfmadd132sd", \h99>>, <<"vfmadd213pd", \hA8>>,
       <<"vfmadd213sd", \hA9>>, <<"vfmadd231pd", \hB8>>, <<"vfmadd231sd", \hB9>>, <<"vfmsub132pd", \h9A>>,
       <<"vfmsub132sd", \h9B>>, <<"vfmsub213pd", \hAA>>, <<"vfmsub213sd", \hAB>>, <<"vfmsub231pd", \hBA>>,
       <<"vfmsub231sd", \hBB>>, <<"vfnmadd132pd", \h9C>>, <<"vfnmadd132sd", \h9D>>, <<"vfnmadd213pd", \hAC>>,
       <<"vfnmadd213sd", \hAD>>, <<"vfnmadd231pd", \hBC>>, <<"vfnmadd231sd", \hBD>>, <<"vfnmsub132pd", \h9E>>,
       <<"vfnmsub132sd", \h9F>>, <<"vfnmsub213pd", \hAE>>, <<"vfnmsub213sd", \hAF>>, <<"vfnmsub231pd", \hBE>>,
       <<"vfnmsub231sd", \hBF>>, <<"vfmaddsub132pd", \h96>>, <<"vfmaddsub213pd", \hA6>>,
       <<"vfmaddsub231pd", \hB6>>, <<"vfmsubadd132pd", \h97>>, <<"vfmsubadd213pd", \hA7>>,
       <<"vfmsubadd231pd", \hB7>>>>)
  \o Vectors(VXX, 2, 1, 0, 0, <<<<"vbroadcastss", \h18>>, <<"vpbroadcastb", \h78>>, <<"vpbroadcastw", \h79>>,
       <<"vpbroadcastd", \h58>>, <<"vpbroadcastq", \h59>>>>)
  \o Vectors(VXX, 2, 1, 1, 0, <<<<"vbroadcastsd", \h19>>>>)
  \o Vectors(VXM, 2, 1, 1, 0, <<<<"vbroadcastf128", \h1A>>>>)
  \o Vectors(VXXXIb, 3, 1, 1, 0, <<<<"vperm2f128", \h06>>, <<"vperm2i128", \h46>>, <<"vinsertf128", \h18>>,
       <<"vinserti128", \h38>>>>)
  \o Vectors(VXXX, 2, 1, 1, 0, <<<<"vpermd", \h36>>, <<"vpermps", \h16>>>>)
  \o Vectors(VXXIb, 3, 1, 1, 1, <<<<"vpermq", \h00>>, <<"vpermpd", \h01>>>>)
  \o Vectors(VXXIb, 3, 1, 0, 0, <<<<"vpermilps", \h04>>, <<"vpermilpd", \h05>>>>)
  \o Vectors(VXXIbStore, 3, 1, 1, 0, <<<<"vextractf128", \h19>>, <<"vextracti128", \h39>>>>)
  \o Vectors(VXMX, 2, 1, 0, 0, <<<<"vgatherdps", \h92>>, <<"vgatherqps", \h93>>, <<"vpgatherdd", \h90>>,
       <<"vpgatherqd", \h91>>>>)
  \o Vectors(VXMX, 2, 1, 0, 1, <<<<"vgatherdpd", \h92>>, <<"vgatherqpd", \h93>>, <<"vpgatherdq", \h90>>,
       <<"vpgatherqq", \h91>>>>)
  \o Vectors(VRR0, 1, 0, 0, 0, <<<<"kmovw", \h90>>, <<"kmovw_from_gpr", \h92>>, <<"kmovw_to_gpr", \h93>>,
       <<"knotw", \h44>>, <<"kortestw", \h98>>>>)
  \o Vectors(VMR, 1, 0, 0, 0, <<<<"kmovw_store", \h91>>>>)
  \o Vectors(VRM, 1, 0, 0, 0, <<<<"kmovw_load", \h90>>>>)
  \o Vectors(VRRR0, 1, 0, 1, 0, <<<<"kandw", \h41>>, <<"kandnw", \h42>>, <<"korw", \h45>>, <<"kxorw", \h47>>,
       <<"kunpckwd", \h4B>>>>)
  \o Vectors(VRRR0, 1, 1, 1, 1, <<<<"kandd", \h41>>, <<"kord", \h45>>, <<"kxord", \h47>>>>)
  \o Vectors(VRRR0, 1, 0, 1, 1, <<<<"kandq", \h41>>, <<"korq", \h45>>, <<"kxorq", \h47>>,
       <<"kunpckdq", \h4B>>>>)
  \o Vectors(VRR0, 1, 1, 0, 1, <<<<"knotd", \h44>>, <<"kortestd", \h98>>>>)
  \o Vectors(VRR0, 1, 0, 0, 1, <<<<"knotq", \h44>>, <<"kortestq", \h98>>>>)
  \o Vectors(VRRR0, 1, 1, 1, 0, <<<<"kunpckbw", \h4B>>>>)
  \o Vectors(VRRIb0, 3, 1, 0, 1, <<<<"kshiftrw", \h30>>, <<"kshiftlw", \h32>>>>)
  \o FormsX(M0, P66, Map0F, <<<<"clflushopt", \hAE, 7>>, <<"clwb", \hAE, 6>>>>)
  \o FormsX(R0, PF3, Map0F, <<<<"rdpid", \hC7, 7>>>>)
  \o Forms(MR, Plain, Map38, <<<<"movdiri", \hF9>>>>)
  \o Forms(RM0, P66, Map38, <<<<"movdir64b", \hF8>>, <<"invpcid", \h82>>>>)
  \o FormsX(M0, Plain, Map0F, <<<<"prefetchw", \h0D, 1>>>>)

FromWaitToVdivpsZ ==
     Fixed(<<<<"wait", <<\h9B>>>>, <<"xend", <<\h0F, \h01, \hD5>>>>, <<"xtest", <<\h0F, \h01, \hD6>>>>,
       <<"saveprevssp", <<\hF3, \h0F, \h01, \hEA>>>>, <<"setssbsy", <<\hF3, \h0F, \h01, \hE8>>>>,
       <<"clui", <<\hF3, \h0F, \h01, \hEE>>>>, <<"stui", <<\hF3, \h0F, \h01, \hEF>>>>,
       <<"testui", <<\hF3, \h0F, \h01, \hED>>>>, <<"uiret", <<\hF3, \h0F, \h01, \hEC>>>>>>)
  \o Forms(Ib, Plain, Byte, <<<<"int_n", \hCD>>>>)
  \o FormsX(R0, P66, Map0F, <<<<"tpause", \hAE, 6>>>>)
  \o FormsX(R0, PF3, Map0F, <<<<"umonitor", \hAE, 6>>, <<"incsspd", \hAE, 5>>, <<"rdsspd", \h1E, 1>>,
       <<"senduipi", \hC7, 6>>>>)
  \o FormsX(R0, PF2, Map0F, <<<<"umwait", \hAE, 6>>>>)
  \o Forms(RM0, PF2, Map38, <<<<"enqcmd", \hF8>>>>)
  \o Forms(RM0, PF3, Map38, <<<<"enqcmds", \hF8>>>>)
  \o Forms(Ib, PF3, <<\h0F, \h3A, \hF0>>, <<<<"hreset", \hC0>>>>)
  \o Forms(Near, Plain, <<\hC7>>, <<<<"xbegin", \hF8>>>>)
  \o Forms(Ib, Plain, <<\hC6>>, <<<<"xabort", \hF8>>>>)
  \o FormsX(M0, Plain, Map0F, <<<<"xsavec", \hC7, 4>>, <<"xsaveopt", \hAE, 6>>, <<"xsaves", \hC7, 5>>,
       <<"xrstors", \hC7, 3>>>>)
  \o FormsX(R1, PF3, Map0F, <<<<"incsspq", \hAE, 5>>, <<"rdsspq", \h1E, 1>>>>)
  \o FormsX(M0, PF3, Map0F, <<<<"clrssbsy", \hAE, 6>>, <<"rstorssp", \h01, 5>>>>)
  \o Forms(MR0, Plain, Map38, <<<<"wrssd", \hF6>>>>)
  \o Forms(MR1, Plain, Map38, <<<<"wrssq", \hF6>>>>)
  \o Forms(MR0, P66, Map38, <<<<"wrussd", \hF5>>>>)
  \o Forms(MR1, P66, Map38, <<<<"wrussq", \hF5>>>>)
  \o Forms(RM0, PF3, Map0F, <<<<"bndmk", \h1B>>>>)
  \o Forms(RR0, PF3, Map0F, <<<<"bndcl", \h1A>>>>)
  \o Forms(RR0, PF2, Map0F, <<<<"bndcu", \h1A>>, <<"bndcn", \h1B>>>>)
  \o Forms(RM0, Plain, Map0F, <<<<"bndldx", \h1A>>>>)
  \o Forms(MR0, Plain, Map0F, <<<<"bndstx", \h1B>>>>)
  \o Forms(RR0, P66, Map0F, <<<<"bndmov", \h1A>>>>)
  \o Forms(XM, PF3, Map38, <<<<"aesenc128kl", \hDC>>, <<"aesdec128kl", \hDD>>, <<"aesenc256kl", \hDE>>,
       <<"aesdec256kl", \hDF>>>>)
  \o FormsX(M0, PF3, Map38, <<<<"aesencwide128kl", \hD8, 0>>, <<"aesdecwide128kl", \hD8, 1>>,
       <<"aesencwide256kl", \hD8, 2>>, <<"aesdecwide256kl", \hD8, 3>>>>)
  \o Forms(RR0, PF3, Map38, <<<<"encodekey128", \hFA>>, <<"encodekey256", \hFB>>>>)
  \o Forms(XXIb, P66, Map3A, <<<<"gf2p8affineinvqb", \hCF>>, <<"gf2p8affineqb", \hCE>>>>)
  \o Forms(XX, P66, Map38, <<<<"gf2p8mulb", \hCF>>>>)
  \o Vectors(EVVV, 1, 1, 2, 0, <<<<"vpxord", \hEF>>, <<"vpandd", \hDB>>, <<"vpord", \hEB>>,
       <<"vpandnd", \hDF>>>>)
  \o Vectors(EVVV, 1, 1, 0, 0, <<<<"vpxord", \hEF>>, <<"vpandd", \hDB>>, <<"vpord", \hEB>>,
       <<"vpandnd", \hDF>>>>)
  \o Vectors(EVVV, 1, 1, 2, 1, <<<<"vpxorq", \hEF>>, <<"vpandq", \hDB>>, <<"vporq", \hEB>>, <<"vpandnq", \hDF>>,
       <<"vaddpd_z", \h58>>, <<"vsubpd_z", \h5C>>, <<"vmulpd_z", \h59>>>>)
  \o Vectors(EVVV, 1, 1, 0, 1, <<<<"vpxorq", \hEF>>, <<"vpandq", \hDB>>, <<"vporq", \hEB>>,
       <<"vpandnq", \hDF>>>>)
  \o Vectors(EVVVIb, 3, 1, 2, 0, <<<<"vpternlogd", \h25>>>>)
  \o Vectors(EVVVIb, 3, 1, 2, 1, <<<<"vpternlogq", \h25>>>>)
  \o Vectors(EVVVIb, 3, 1, 0, 0, <<<<"vpternlogd", \h25>>>>)
  \o Vectors(EVVV, 1, 0, 2, 0, <<<<"vaddps_z", \h58>>, <<"vsubps_z", \h5C>>, <<"vmulps_z", \h59>>,
       <<"vdivps_z", \h5E>>>>)

FromVdivpdZToVshufi64x2 ==
     Vectors(EVVV, 1, 1, 2, 1, <<<<"vdivpd_z", \h5E>>, <<"vminpd_z", \h5D>>, <<"vmaxpd_z", \h5F>>>>)
  \o Vectors(EVVV, 1, 0, 2, 0, <<<<"vminps_z", \h5D>>, <<"vmaxps_z", \h5F>>>>)
  \o Vectors(EVVV, 2, 1, 2, 0, <<<<"vpdpbusd", \h50>>, <<"vpdpbusds", \h51>>, <<"vpdpwssd", \h52>>,
       <<"vpdpwssds", \h53>>, <<"vblendmps", \h65>>, <<"vpblendmd", \h64>>>>)
  \o Vectors(EVVV, 2, 1, 0, 0, <<<<"vpdpbusd", \h50>>, <<"vpdpbusds", \h51>>, <<"vpdpwssd", \h52>>,
       <<"vpdpwssds", \h53>>>>)
  \o Vectors(EVVV, 2, 1, 2, 1, <<<<"vblendmpd", \h65>>, <<"vpblendmq", \h64>>>>)
  \o Vectors(EVVVK, 1, 1, 2, 0, <<<<"vpxord_k", \hEF>>, <<"vpandd_k", \hDB>>, <<"vpord_k", \hEB>>>>)
  \o Vectors(EVVVK, 1, 1, 2, 1, <<<<"vpxorq_k", \hEF>>, <<"vpandq_k", \hDB>>, <<"vporq_k", \hEB>>,
       <<"vaddpd_kz", \h58>>, <<"vmulpd_kz", \h59>>>>)
  \o Vectors(EVVVIbK, 3, 1, 2, 0, <<<<"vpternlogd_k", \h25>>>>)
  \o Vectors(EVVVK, 1, 0, 2, 0, <<<<"vaddps_kz", \h58>>, <<"vmulps_kz", \h59>>>>)
  \o Vectors(EVVVIb, 1, 0, 0, 0, <<<<"vcmpps_k", \hC2>>>>)
  \o Vectors(EVVVIb, 1, 1, 0, 1, <<<<"vcmppd_k", \hC2>>>>)
  \o Vectors(EVVVIb, 3, 1, 2, 0, <<<<"vshufi32x4", \h43>>>>)
  \o Vectors(EVVVIb, 3, 1, 2, 1, <<<<"vshufi64x2", \h43>>>>)

\* Methods that call another method with their arguments.
Aliases == [
    je |-> "jz", ja |-> "jnbe", jae |-> "jnb", jc |-> "jb", jg |-> "jnle", jge |-> "jnl", jna |-> "jbe",
    jnae |-> "jb", jnc |-> "jnb", jne |-> "jnz", jng |-> "jle", jnge |-> "jl", jpe |-> "jp", jpo |-> "jnp",
    jrcxz |-> "jecxz", cmova |-> "cmovnbe", cmovae |-> "cmovnb", cmovc |-> "cmovb", cmove |-> "cmovz",
    cmovg |-> "cmovnle", cmovge |-> "cmovnl", cmovna |-> "cmovbe", cmovnae |-> "cmovb", cmovnc |-> "cmovnb",
    cmovne |-> "cmovnz", cmovng |-> "cmovle", cmovnge |-> "cmovl", cmovpe |-> "cmovp", cmovpo |-> "cmovnp",
    seta |-> "setnbe", setae |-> "setnb", setc |-> "setb", sete |-> "setz", setg |-> "setnle",
    setge |-> "setnl", setna |-> "setbe", setnae |-> "setb", setnc |-> "setnb", setne |-> "setnz",
    setng |-> "setle", setnge |-> "setl", setpe |-> "setp", setpo |-> "setnp", icebp |-> "int1",
    jmp_rel8 |-> "jmp", jmp_rel16 |-> "jmp", jmp_rel32 |-> "jmp", call_rel32 |-> "call"]

Methods ==
    FromAaaToAddpd \o FromAddpsToAnd \o FromAndnpdToBound \o FromBsfToBts \o FromBtsToCmovnb \o
    FromCmovnbToCmovz \o FromCmpToCmpxchg \o FromCmpxchg8bToCvtpd2ps \o FromCvtpi2pdToCvtsi2ss \o
    FromCvtss2sdToDaa \o FromDasToEnter \o FromExtractpsToFcom \o FromFcomToFfreep \o FromFiaddToFisttp \o
    FromFisubToFndisi \o FromFneniToFscale \o FromFsetpmToFsubr \o FromFsubrpToHaddps \o FromHaddpsToInsertps \o
    FromIntToJnl \o FromJnleToLgs \o FromLidtToMaxsd \o FromMaxsdToMov \o FromMovapdToMovdqu \o
    FromMovdquToMovntpd \o FromMovntpsToMovss \o FromMovssToMulsd \o FromMulsdToOrpd \o FromOrpdToPackssdw \o
    FromPackssdwToPaddq \o FromPaddqToPaddw \o FromPaddwToPavgw \o FromPavgwToPcmpeqw \o FromPcmpeqwToPcmpgtw \o
    FromPcmpgtwToPhaddd \o FromPhaddswToPhsubsw \o FromPhsubwToPmaddwd \o FromPmaxsbToPminsb \o
    FromPminsdToPmovsxbw \o FromPmovsxdqToPmulhuw \o FromPmulhuwToPopcnt \o FromPopcntToPshufb \o
    FromPshufbToPsignw \o FromPsignwToPsrad \o FromPsradToPsrlw \o FromPsrlwToPsubsw \o FromPsubswToPunpckhbw \o
    FromPunpckhbwToPunpcklqdq \o FromPunpcklqdqToRcpss \o FromRcrToRoundps \o FromRoundpsToSar \o
    FromSarToSetnbe \o FromSetnbeToSgdt \o FromSgdtToSmsw \o FromSmswToSub \o FromSubToTest \o FromTestToVerr \o
    FromVerrToXadd \o FromXaddToXsave \o FromXsaveToIretq \o FromPushfqToRdseed \o FromVzeroallToFwait \o
    FromWaitToVdivpsZ \o FromVdivpdZToVshufi64x2
=============================================================================

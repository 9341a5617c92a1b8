------------------------------ MODULE OpcodeTable ------------------------------
(***************************************************************************)
(* The instruction table (src/lib/core/table.cpp, g_instr_table) and the   *)
(* map from opcodes to its rows.                                           *)
(*                                                                         *)
(* A row is a record: the opcode map and byte it is filed under, the name  *)
(* n, the mandatory prefix p (0 if none), the opcode extension x and the   *)
(* second opcode s (Free if the row has none), f = 1 for memory only and    *)
(* f = -1 for registers only, the bit W it asks for (w = -1, 1, or 0), m   *)
(* for a ModRM byte, and its operands o.  Kept of an operand is what the   *)
(* decoder reads from the code, in the letters of the opcode maps: E and M *)
(* from ModRM.rm, G from ModRM.reg, V, W and U for vector, P, Q and N for  *)
(* MMX registers, Z from the opcode, B and H from VEX.vvvv, O an absolute  *)
(* address, I and J an immediate and a displacement with their size.       *)
(* Implied operands (a fixed register, a constant) and widths are left     *)
(* out, and so is the order of rows filed under different opcodes.         *)
(***************************************************************************)
EXTENDS Integers, Sequences

Free == -1
NoPrefix == 0

\* The opcode maps: one byte, 0F, 0F 38, 0F 3A.
One == 0
Two == 1
T38 == 2
T3A == 3

\* The operand lists of the rows.
Shape == [
    Nil |-> <<>>, C |-> <<"C">>, D |-> <<"D">>, E |-> <<"E">>, Ib |-> <<"Ib">>, Iw |-> <<"Iw">>,
    Iz |-> <<"Iz">>, Jb |-> <<"Jb">>, Jd |-> <<"Jd">>, Jz |-> <<"Jz">>, M |-> <<"M">>, O |-> <<"O">>,
    R |-> <<"R">>, V |-> <<"V">>, Z |-> <<"Z">>, BE |-> <<"B", "E">>, CR |-> <<"C", "R">>, DR |-> <<"D", "R">>,
    EG |-> <<"E", "G">>, EIb |-> <<"E", "Ib">>, EIz |-> <<"E", "Iz">>, EP |-> <<"E", "P">>, EV |-> <<"E", "V">>,
    GE |-> <<"G", "E">>, GM |-> <<"G", "M">>, GN |-> <<"G", "N">>, GU |-> <<"G", "U">>, GW |-> <<"G", "W">>,
    IwIb |-> <<"Iw", "Ib">>, MG |-> <<"M", "G">>, MP |-> <<"M", "P">>, MV |-> <<"M", "V">>,
    NIb |-> <<"N", "Ib">>, PE |-> <<"P", "E">>, PN |-> <<"P", "N">>, PQ |-> <<"P", "Q">>, PU |-> <<"P", "U">>,
    PW |-> <<"P", "W">>, QP |-> <<"Q", "P">>, RC |-> <<"R", "C">>, RD |-> <<"R", "D">>, UIb |-> <<"U", "Ib">>,
    VE |-> <<"V", "E">>, VM |-> <<"V", "M">>, VN |-> <<"V", "N">>, VQ |-> <<"V", "Q">>, VU |-> <<"V", "U">>,
    VW |-> <<"V", "W">>, WV |-> <<"W", "V">>, ZIb |-> <<"Z", "Ib">>, ZIv |-> <<"Z", "Iv">>,
    EGIb |-> <<"E", "G", "Ib">>, EVIb |-> <<"E", "V", "Ib">>, GBE |-> <<"G", "B", "E">>,
    GEB |-> <<"G", "E", "B">>, GEIb |-> <<"G", "E", "Ib">>, GEIz |-> <<"G", "E", "Iz">>,
    GNIb |-> <<"G", "N", "Ib">>, GUIb |-> <<"G", "U", "Ib">>, HWIb |-> <<"H", "W", "Ib">>,
    MHV |-> <<"M", "H", "V">>, MVIb |-> <<"M", "V", "Ib">>, PQIb |-> <<"P", "Q", "Ib">>,
    PRIb |-> <<"P", "R", "Ib">>, VEIb |-> <<"V", "E", "Ib">>, VHE |-> <<"V", "H", "E">>,
    VHM |-> <<"V", "H", "M">>, VHW |-> <<"V", "H", "W">>, VMH |-> <<"V", "M", "H">>,
    VMIb |-> <<"V", "M", "Ib">>, VRIb |-> <<"V", "R", "Ib">>, VUIb |-> <<"V", "U", "Ib">>,
    VWIb |-> <<"V", "W", "Ib">>, WVIb |-> <<"W", "V", "Ib">>, VHWIb |-> <<"V", "H", "W", "Ib">>]

\* The operands that need no ModRM byte.
Unmodified == {"Z", "O", "Ib", "Iw", "Iz", "Iv", "Jb", "Jz", "Jd"}

Row(map, o, n, p, b, x, s) ==
    [map |-> map, b |-> b, n |-> n, p |-> p, x |-> x, s |-> s, f |-> 0, w |-> 0,
     m |-> o = <<>> \/ \E i \in DOMAIN o : o[i] \notin Unmodified, o |-> o]

\* Rows of one map and operand list: name, prefix, opcode; with an extension; with a second opcode.
Rows(map, o, es) ==
    [i \in DOMAIN es |-> Row(map, Shape[o], es[i][1], es[i][2], es[i][3], Free, Free)]
RowsX(map, o, es) ==
    [i \in DOMAIN es |-> Row(map, Shape[o], es[i][1], es[i][2], es[i][3], es[i][4], Free)]
RowsS(map, o, es) ==
    [i \in DOMAIN es |-> Row(map, Shape[o], es[i][1], es[i][2], es[i][3], Free, es[i][4])]
RowsXS(map, o, es) ==
    [i \in DOMAIN es |-> Row(map, Shape[o], es[i][1], es[i][2], es[i][3], es[i][4], es[i][5])]

Bare(rows) == [i \in DOMAIN rows |-> [rows[i] EXCEPT !.m = FALSE]]
WithModRM(rows) == [i \in DOMAIN rows |-> [rows[i] EXCEPT !.m = TRUE]]
OnlyMem(rows) == [i \in DOMAIN rows |-> [rows[i] EXCEPT !.f = 1]]
OnlyReg(rows) == [i \in DOMAIN rows |-> [rows[i] EXCEPT !.f = -1]]
W0(rows) == [i \in DOMAIN rows |-> [rows[i] EXCEPT !.w = -1]]
W1(rows) == [i \in DOMAIN rows |-> [rows[i] EXCEPT !.w = 1]]

----------------------------------------------------------------------------
(* The rows, in the order of the table *)

\* Opcodes 00 to 81: arithmetic, the segment and decimal opcodes, push, pop, the short jumps and the immediate group.
OneByteArithmetic ==
     Rows(One, "EG", <<<<"add", 0, \h00>>, <<"add", 0, \h01>>, <<"or", 0, \h08>>, <<"or", 0, \h09>>,
       <<"adc", 0, \h10>>, <<"adc", 0, \h11>>, <<"sbb", 0, \h18>>, <<"sbb", 0, \h19>>, <<"and", 0, \h20>>,
       <<"and", 0, \h21>>, <<"sub", 0, \h28>>, <<"sub", 0, \h29>>, <<"xor", 0, \h30>>, <<"xor", 0, \h31>>,
       <<"cmp", 0, \h38>>, <<"cmp", 0, \h39>>>>)
  \o Rows(One, "GE", <<<<"add", 0, \h02>>, <<"add", 0, \h03>>, <<"or", 0, \h0A>>, <<"or", 0, \h0B>>,
       <<"adc", 0, \h12>>, <<"adc", 0, \h13>>, <<"sbb", 0, \h1A>>, <<"sbb", 0, \h1B>>, <<"and", 0, \h22>>,
       <<"and", 0, \h23>>, <<"sub", 0, \h2A>>, <<"sub", 0, \h2B>>, <<"xor", 0, \h32>>, <<"xor", 0, \h33>>,
       <<"cmp", 0, \h3A>>, <<"cmp", 0, \h3B>>, <<"movsxd", 0, \h63>>>>)
  \o Rows(One, "Ib", <<<<"add", 0, \h04>>, <<"or", 0, \h0C>>, <<"adc", 0, \h14>>, <<"sbb", 0, \h1C>>,
       <<"and", 0, \h24>>, <<"sub", 0, \h2C>>, <<"xor", 0, \h34>>, <<"cmp", 0, \h3C>>, <<"push", 0, \h6A>>>>)
  \o Rows(One, "Iz", <<<<"add", 0, \h05>>, <<"or", 0, \h0D>>, <<"adc", 0, \h15>>, <<"sbb", 0, \h1D>>,
       <<"and", 0, \h25>>, <<"sub", 0, \h2D>>, <<"xor", 0, \h35>>, <<"cmp", 0, \h3D>>, <<"push", 0, \h68>>>>)
  \o Bare(Rows(One, "Nil", <<<<"push", 0, \h06>>, <<"pop", 0, \h07>>, <<"push", 0, \h0E>>, <<"push", 0, \h16>>,
       <<"pop", 0, \h17>>, <<"push", 0, \h1E>>, <<"pop", 0, \h1F>>, <<"daa", 0, \h27>>, <<"das", 0, \h2F>>,
       <<"aaa", 0, \h37>>, <<"aas", 0, \h3F>>, <<"pusha", 0, \h60>>, <<"pushad", 0, \h60>>, <<"popa", 0, \h61>>,
       <<"popad", 0, \h61>>, <<"ins", 0, \h6C>>, <<"ins", 0, \h6D>>, <<"ins", 0, \h6D>>, <<"outs", 0, \h6E>>,
       <<"outs", 0, \h6F>>, <<"outs", 0, \h6F>>>>))
  \o Rows(One, "Z", <<<<"push", 0, \h50>>, <<"push", 0, \h50>>, <<"pop", 0, \h58>>, <<"pop", 0, \h58>>>>)
  \o Rows(One, "GM", <<<<"bound", 0, \h62>>>>)
  \o Rows(One, "GEIz", <<<<"imul", 0, \h69>>>>)
  \o Rows(One, "GEIb", <<<<"imul", 0, \h6B>>>>)
  \o Rows(One, "Jb", <<<<"jo", 0, \h70>>, <<"jno", 0, \h71>>, <<"jb", 0, \h72>>, <<"jnb", 0, \h73>>,
       <<"jz", 0, \h74>>, <<"jnz", 0, \h75>>, <<"jbe", 0, \h76>>, <<"jnbe", 0, \h77>>, <<"js", 0, \h78>>,
       <<"jns", 0, \h79>>, <<"jp", 0, \h7A>>, <<"jnp", 0, \h7B>>, <<"jl", 0, \h7C>>, <<"jnl", 0, \h7D>>,
       <<"jle", 0, \h7E>>, <<"jnle", 0, \h7F>>>>)
  \o RowsX(One, "EIb", <<<<"add", 0, \h80, 0>>, <<"or", 0, \h80, 1>>, <<"adc", 0, \h80, 2>>,
       <<"sbb", 0, \h80, 3>>, <<"and", 0, \h80, 4>>>>)

\* Opcodes 82 to C1: tests, exchanges, moves, strings, and the first shift group.
OneByteMoves ==
     RowsX(One, "EIb", <<<<"sub", 0, \h80, 5>>, <<"xor", 0, \h80, 6>>, <<"cmp", 0, \h80, 7>>,
       <<"add", 0, \h82, 0>>, <<"or", 0, \h82, 1>>, <<"adc", 0, \h82, 2>>, <<"sbb", 0, \h82, 3>>,
       <<"and", 0, \h82, 4>>, <<"sub", 0, \h82, 5>>, <<"xor", 0, \h82, 6>>, <<"cmp", 0, \h82, 7>>,
       <<"add", 0, \h83, 0>>, <<"or", 0, \h83, 1>>, <<"adc", 0, \h83, 2>>, <<"sbb", 0, \h83, 3>>,
       <<"and", 0, \h83, 4>>, <<"sub", 0, \h83, 5>>, <<"xor", 0, \h83, 6>>, <<"cmp", 0, \h83, 7>>,
       <<"rol", 0, \hC0, 0>>, <<"ror", 0, \hC0, 1>>, <<"rcl", 0, \hC0, 2>>, <<"rcr", 0, \hC0, 3>>,
       <<"shl", 0, \hC0, 4>>, <<"shr", 0, \hC0, 5>>, <<"sal", 0, \hC0, 6>>, <<"sar", 0, \hC0, 7>>,
       <<"rol", 0, \hC1, 0>>, <<"ror", 0, \hC1, 1>>, <<"rcl", 0, \hC1, 2>>, <<"rcr", 0, \hC1, 3>>,
       <<"shl", 0, \hC1, 4>>, <<"shr", 0, \hC1, 5>>, <<"sal", 0, \hC1, 6>>, <<"sar", 0, \hC1, 7>>>>)
  \o RowsX(One, "EIz", <<<<"add", 0, \h81, 0>>, <<"or", 0, \h81, 1>>, <<"adc", 0, \h81, 2>>,
       <<"sbb", 0, \h81, 3>>, <<"and", 0, \h81, 4>>, <<"sub", 0, \h81, 5>>, <<"xor", 0, \h81, 6>>,
       <<"cmp", 0, \h81, 7>>>>)
  \o Rows(One, "EG", <<<<"test", 0, \h84>>, <<"test", 0, \h85>>, <<"xchg", 0, \h86>>, <<"xchg", 0, \h87>>,
       <<"mov", 0, \h88>>, <<"mov", 0, \h89>>>>)
  \o Rows(One, "GE", <<<<"mov", 0, \h8A>>, <<"mov", 0, \h8B>>>>)
  \o OnlyMem(Rows(One, "M", <<<<"mov", 0, \h8C>>>>))
  \o Rows(One, "GM", <<<<"lea", 0, \h8D>>, <<"les", 0, \hC4>>, <<"lds", 0, \hC5>>>>)
  \o Rows(One, "E", <<<<"mov", 0, \h8E>>>>)
  \o RowsX(One, "E", <<<<"pop", 0, \h8F, 0>>, <<"pop", 0, \h8F, 0>>>>)
  \o Rows(One, "Z", <<<<"xchg", 0, \h90>>>>)
  \o Bare(Rows(One, "Nil", <<<<"nop", 0, \h90>>, <<"pause", \hF3, \h90>>, <<"cbw", 0, \h98>>, <<"cwde", 0, \h98>>,
       <<"cbw", 0, \h98>>, <<"cwd", 0, \h99>>, <<"cdq", 0, \h99>>, <<"cwd", 0, \h99>>, <<"callf", 0, \h9A>>,
       <<"fwait", 0, \h9B>>, <<"pushf", 0, \h9C>>, <<"pushfd", 0, \h9C>>, <<"pushf", 0, \h9C>>,
       <<"popf", 0, \h9D>>, <<"popfd", 0, \h9D>>, <<"popf", 0, \h9D>>, <<"sahf", 0, \h9E>>, <<"lahf", 0, \h9F>>,
       <<"movs", 0, \hA4>>, <<"movs", 0, \hA5>>, <<"movs", 0, \hA5>>, <<"movs", 0, \hA5>>, <<"cmps", 0, \hA6>>,
       <<"cmps", 0, \hA7>>, <<"cmps", 0, \hA7>>, <<"cmps", 0, \hA7>>, <<"stos", 0, \hAA>>, <<"stos", 0, \hAB>>,
       <<"stos", 0, \hAB>>, <<"stos", 0, \hAB>>, <<"lods", 0, \hAC>>, <<"lods", 0, \hAD>>, <<"lods", 0, \hAD>>,
       <<"lods", 0, \hAD>>, <<"scas", 0, \hAE>>, <<"scas", 0, \hAF>>, <<"scas", 0, \hAF>>, <<"scas", 0, \hAF>>,
       <<"retn", 0, \hC3>>>>))
  \o Rows(One, "O", <<<<"mov", 0, \hA0>>, <<"mov", 0, \hA1>>, <<"mov", 0, \hA2>>, <<"mov", 0, \hA3>>>>)
  \o Rows(One, "Ib", <<<<"test", 0, \hA8>>>>)
  \o Rows(One, "Iz", <<<<"test", 0, \hA9>>>>)
  \o Rows(One, "ZIb", <<<<"mov", 0, \hB0>>>>)
  \o Rows(One, "ZIv", <<<<"mov", 0, \hB8>>>>)
  \o Rows(One, "Iw", <<<<"retn", 0, \hC2>>>>)

\* Opcodes C1 to D9: shifts, returns, and the first two x87 opcodes.
OneByteShiftsAndX87Loads ==
     RowsX(One, "EIb", <<<<"mov", 0, \hC6, 0>>>>)
  \o RowsX(One, "EIz", <<<<"mov", 0, \hC7, 0>>>>)
  \o Rows(One, "IwIb", <<<<"enter", 0, \hC8>>, <<"enter", 0, \hC8>>>>)
  \o Bare(Rows(One, "Nil", <<<<"leave", 0, \hC9>>, <<"leave", 0, \hC9>>, <<"retf", 0, \hCB>>, <<"int", 0, \hCC>>,
       <<"into", 0, \hCE>>, <<"iret", 0, \hCF>>, <<"iretd", 0, \hCF>>, <<"iret", 0, \hCF>>, <<"salc", 0, \hD6>>,
       <<"xlat", 0, \hD7>>>>))
  \o Rows(One, "Iw", <<<<"retf", 0, \hCA>>>>)
  \o Rows(One, "Ib", <<<<"int", 0, \hCD>>>>)
  \o RowsX(One, "E", <<<<"rol", 0, \hD0, 0>>, <<"ror", 0, \hD0, 1>>, <<"rcl", 0, \hD0, 2>>, <<"rcr", 0, \hD0, 3>>,
       <<"shl", 0, \hD0, 4>>, <<"shr", 0, \hD0, 5>>, <<"sal", 0, \hD0, 6>>, <<"sar", 0, \hD0, 7>>,
       <<"rol", 0, \hD1, 0>>, <<"ror", 0, \hD1, 1>>, <<"rcl", 0, \hD1, 2>>, <<"rcr", 0, \hD1, 3>>,
       <<"shl", 0, \hD1, 4>>, <<"shr", 0, \hD1, 5>>, <<"sal", 0, \hD1, 6>>, <<"sar", 0, \hD1, 7>>,
       <<"rol", 0, \hD2, 0>>, <<"ror", 0, \hD2, 1>>, <<"rcl", 0, \hD2, 2>>, <<"rcr", 0, \hD2, 3>>,
       <<"shl", 0, \hD2, 4>>, <<"shr", 0, \hD2, 5>>, <<"sal", 0, \hD2, 6>>, <<"sar", 0, \hD2, 7>>,
       <<"rol", 0, \hD3, 0>>, <<"ror", 0, \hD3, 1>>, <<"rcl", 0, \hD3, 2>>, <<"rcr", 0, \hD3, 3>>,
       <<"shl", 0, \hD3, 4>>, <<"shr", 0, \hD3, 5>>, <<"sal", 0, \hD3, 6>>, <<"sar", 0, \hD3, 7>>>>)
  \o Bare(RowsS(One, "Nil", <<<<"aam", 0, \hD4, \h0A>>, <<"aad", 0, \hD5, \h0A>>>>))
  \o Rows(One, "Ib", <<<<"amx", 0, \hD4>>, <<"adx", 0, \hD5>>>>)
  \o OnlyMem(RowsX(One, "M", <<<<"fadd", 0, \hD8, 0>>, <<"fmul", 0, \hD8, 1>>>>))
  \o RowsX(One, "Nil", <<<<"fcom", 0, \hD8, 2>>, <<"fld", 0, \hD9, 0>>, <<"fxch", 0, \hD9, 1>>>>)
  \o RowsXS(One, "Nil", <<<<"fcom", 0, \hD8, 2, \hD1>>, <<"fxch", 0, \hD9, 1, \hC9>>>>)
  \o RowsX(One, "Nil", <<<<"fcomp", 0, \hD8, 3>>>>)
  \o RowsXS(One, "Nil", <<<<"fcomp", 0, \hD8, 3, \hD9>>>>)
  \o OnlyMem(RowsX(One, "M", <<<<"fsub", 0, \hD8, 4>>, <<"fsubr", 0, \hD8, 5>>, <<"fdiv", 0, \hD8, 6>>,
       <<"fdivr", 0, \hD8, 7>>>>))
  \o RowsX(One, "M", <<<<"fst", 0, \hD9, 2>>>>)
  \o RowsXS(One, "Nil", <<<<"fnop", 0, \hD9, 2, \hD0>>>>)
  \o OnlyMem(RowsX(One, "M", <<<<"fstp", 0, \hD9, 3>>>>))
  \o OnlyReg(RowsX(One, "Nil", <<<<"fstp1", 0, \hD9, 3>>, <<"fstp1", 0, \hD9, 3>>>>))
  \o RowsX(One, "M", <<<<"fldenv", 0, \hD9, 4>>>>)
  \o RowsXS(One, "Nil", <<<<"fchs", 0, \hD9, 4, \hE0>>, <<"fabs", 0, \hD9, 4, \hE1>>,
       <<"ftst", 0, \hD9, 4, \hE4>>, <<"fxam", 0, \hD9, 4, \hE5>>>>)
  \o RowsX(One, "M", <<<<"fldcw", 0, \hD9, 5>>>>)
  \o RowsXS(One, "Nil", <<<<"fld1", 0, \hD9, 5, \hE8>>, <<"fldl2t", 0, \hD9, 5, \hE9>>,
       <<"fldl2e", 0, \hD9, 5, \hEA>>, <<"fldpi", 0, \hD9, 5, \hEB>>, <<"fldlg2", 0, \hD9, 5, \hEC>>,
       <<"fldln2", 0, \hD9, 5, \hED>>, <<"fldz", 0, \hD9, 5, \hEE>>>>)
  \o RowsX(One, "M", <<<<"fnstenv", 0, \hD9, 6>>, <<"fstenv", \h9B, \hD9, 6>>>>)
  \o RowsXS(One, "Nil", <<<<"f2xm1", 0, \hD9, 6, \hF0>>, <<"fyl2x", 0, \hD9, 6, \hF1>>,
       <<"fptan", 0, \hD9, 6, \hF2>>, <<"fpatan", 0, \hD9, 6, \hF3>>, <<"fxtract", 0, \hD9, 6, \hF4>>,
       <<"fprem1", 0, \hD9, 6, \hF5>>, <<"fdecstp", 0, \hD9, 6, \hF6>>, <<"fincstp", 0, \hD9, 6, \hF7>>>>)
  \o RowsX(One, "M", <<<<"fnstcw", 0, \hD9, 7>>, <<"fstcw", \h9B, \hD9, 7>>>>)
  \o RowsXS(One, "Nil", <<<<"fprem", 0, \hD9, 7, \hF8>>, <<"fyl2xp1", 0, \hD9, 7, \hF9>>,
       <<"fsqrt", 0, \hD9, 7, \hFA>>, <<"fsincos", 0, \hD9, 7, \hFB>>, <<"frndint", 0, \hD9, 7, \hFC>>,
       <<"fscale", 0, \hD9, 7, \hFD>>, <<"fsin", 0, \hD9, 7, \hFE>>>>)
  \o RowsX(One, "Nil", <<<<"fcos", 0, \hD9, 7>>>>)

\* Opcodes DA to E2: the rest of the x87 and the loops.
X87Rows ==
     OnlyMem(RowsX(One, "M", <<<<"fiadd", 0, \hDA, 0>>, <<"fild", 0, \hDB, 0>>, <<"fadd", 0, \hDC, 0>>,
       <<"fld", 0, \hDD, 0>>, <<"fiadd", 0, \hDE, 0>>, <<"fild", 0, \hDF, 0>>>>))
  \o OnlyReg(RowsX(One, "Nil", <<<<"fcmovb", 0, \hDA, 0>>, <<"fcmovnb", 0, \hDB, 0>>, <<"fadd", 0, \hDC, 0>>,
       <<"ffree", 0, \hDD, 0>>, <<"faddp", 0, \hDE, 0>>, <<"ffreep", 0, \hDF, 0>>>>))
  \o OnlyMem(RowsX(One, "M", <<<<"fimul", 0, \hDA, 1>>, <<"fisttp", 0, \hDB, 1>>, <<"fmul", 0, \hDC, 1>>,
       <<"fisttp", 0, \hDD, 1>>, <<"fisttp", 0, \hDF, 1>>>>))
  \o OnlyReg(RowsX(One, "Nil", <<<<"fcmove", 0, \hDA, 1>>, <<"fcmovne", 0, \hDB, 1>>, <<"fmul", 0, \hDC, 1>>,
       <<"fxch4", 0, \hDD, 1>>, <<"fxch4", 0, \hDD, 1>>, <<"fxch7", 0, \hDF, 1>>, <<"fxch7", 0, \hDF, 1>>>>))
  \o OnlyMem(RowsX(One, "M", <<<<"ficom", 0, \hDA, 2>>, <<"fist", 0, \hDB, 2>>, <<"fcom", 0, \hDC, 2>>,
       <<"fst", 0, \hDD, 2>>, <<"fist", 0, \hDF, 2>>>>))
  \o OnlyReg(RowsX(One, "Nil", <<<<"fcmovbe", 0, \hDA, 2>>, <<"fcmovnbe", 0, \hDB, 2>>, <<"fcom2", 0, \hDC, 2>>,
       <<"fcom2", 0, \hDC, 2>>, <<"fst", 0, \hDD, 2>>, <<"fstp8", 0, \hDF, 2>>, <<"fstp8", 0, \hDF, 2>>>>))
  \o OnlyMem(RowsX(One, "M", <<<<"ficomp", 0, \hDA, 3>>, <<"fistp", 0, \hDB, 3>>, <<"fcomp", 0, \hDC, 3>>,
       <<"fstp", 0, \hDD, 3>>, <<"fistp", 0, \hDF, 3>>>>))
  \o OnlyReg(RowsX(One, "Nil", <<<<"fcmovu", 0, \hDA, 3>>, <<"fcmovnu", 0, \hDB, 3>>, <<"fcomp3", 0, \hDC, 3>>,
       <<"fcomp3", 0, \hDC, 3>>, <<"fstp", 0, \hDD, 3>>, <<"fstp9", 0, \hDF, 3>>, <<"fstp9", 0, \hDF, 3>>>>))
  \o RowsX(One, "M", <<<<"fisub", 0, \hDA, 4>>, <<"fisubr", 0, \hDA, 5>>, <<"fbld", 0, \hDF, 4>>>>)
  \o RowsXS(One, "Nil", <<<<"fucompp", 0, \hDA, 5, \hE9>>, <<"fneni", 0, \hDB, 4, \hE0>>,
       <<"feni", \h9B, \hDB, 4, \hE0>>, <<"fneni", 0, \hDB, 4, \hE0>>, <<"fndisi", 0, \hDB, 4, \hE1>>,
       <<"fdisi", \h9B, \hDB, 4, \hE1>>, <<"fndisi", 0, \hDB, 4, \hE1>>, <<"fnclex", 0, \hDB, 4, \hE2>>,
       <<"fclex", \h9B, \hDB, 4, \hE2>>, <<"fninit", 0, \hDB, 4, \hE3>>, <<"finit", \h9B, \hDB, 4, \hE3>>,
       <<"fnsetpm", 0, \hDB, 4, \hE4>>, <<"fsetpm", \h9B, \hDB, 4, \hE4>>, <<"fnsetpm", 0, \hDB, 4, \hE4>>,
       <<"faddp", 0, \hDE, 0, \hC1>>, <<"fnstsw", 0, \hDF, 4, \hE0>>, <<"fstsw", \h9B, \hDF, 4, \hE0>>>>)
  \o RowsX(One, "M", <<<<"fidiv", 0, \hDA, 6>>, <<"fidivr", 0, \hDA, 7>>>>)
  \o OnlyMem(RowsX(One, "M", <<<<"fld", 0, \hDB, 5>>, <<"fsub", 0, \hDC, 4>>, <<"fimul", 0, \hDE, 1>>,
       <<"fild", 0, \hDF, 5>>>>))
  \o OnlyReg(RowsX(One, "Nil", <<<<"fucomi", 0, \hDB, 5>>, <<"fsubr", 0, \hDC, 4>>, <<"fmulp", 0, \hDE, 1>>,
       <<"fucomip", 0, \hDF, 5>>>>))
  \o RowsX(One, "Nil", <<<<"fcomi", 0, \hDB, 6>>>>)
  \o RowsX(One, "M", <<<<"fstp", 0, \hDB, 7>>>>)
  \o OnlyMem(RowsX(One, "M", <<<<"fsubr", 0, \hDC, 5>>, <<"fbstp", 0, \hDF, 6>>>>))
  \o OnlyReg(RowsX(One, "Nil", <<<<"fsub", 0, \hDC, 5>>, <<"fcomip", 0, \hDF, 6>>>>))
  \o OnlyMem(RowsX(One, "M", <<<<"fdiv", 0, \hDC, 6>>>>))
  \o OnlyReg(RowsX(One, "Nil", <<<<"fdivr", 0, \hDC, 6>>>>))
  \o OnlyMem(RowsX(One, "M", <<<<"fdivr", 0, \hDC, 7>>>>))
  \o OnlyReg(RowsX(One, "Nil", <<<<"fdiv", 0, \hDC, 7>>>>))
  \o OnlyMem(RowsX(One, "Nil", <<<<"frstor", 0, \hDD, 4>>>>))
  \o OnlyReg(RowsX(One, "Nil", <<<<"fucom", 0, \hDD, 4>>>>))
  \o RowsXS(One, "Nil", <<<<"fucom", 0, \hDD, 4, \hE1>>, <<"fmulp", 0, \hDE, 1, \hC9>>>>)
  \o RowsX(One, "Nil", <<<<"fucomp", 0, \hDD, 5>>>>)
  \o RowsXS(One, "Nil", <<<<"fucomp", 0, \hDD, 5, \hE9>>>>)
  \o RowsX(One, "M", <<<<"fnsave", 0, \hDD, 6>>, <<"fsave", \h9B, \hDD, 6>>, <<"fnstsw", 0, \hDD, 7>>,
       <<"fstsw", \h9B, \hDD, 7>>, <<"fistp", 0, \hDF, 7>>>>)
  \o OnlyMem(RowsX(One, "M", <<<<"ficom", 0, \hDE, 2>>>>))
  \o OnlyReg(RowsX(One, "Nil", <<<<"fcomp5", 0, \hDE, 2>>, <<"fcomp5", 0, \hDE, 2>>>>))
  \o RowsX(One, "M", <<<<"ficomp", 0, \hDE, 3>>>>)
  \o RowsXS(One, "Nil", <<<<"fcompp", 0, \hDE, 3, \hD9>>>>)
  \o OnlyMem(RowsX(One, "M", <<<<"fisub", 0, \hDE, 4>>>>))
  \o OnlyReg(RowsX(One, "Nil", <<<<"fsubrp", 0, \hDE, 4>>>>))
  \o RowsXS(One, "Nil", <<<<"fsubrp", 0, \hDE, 4, \hE1>>>>)
  \o OnlyMem(RowsX(One, "M", <<<<"fisubr", 0, \hDE, 5>>>>))
  \o OnlyReg(RowsX(One, "Nil", <<<<"fsubp", 0, \hDE, 5>>>>))
  \o RowsXS(One, "Nil", <<<<"fsubp", 0, \hDE, 5, \hE9>>>>)
  \o OnlyMem(RowsX(One, "M", <<<<"fidiv", 0, \hDE, 6>>>>))
  \o OnlyReg(RowsX(One, "Nil", <<<<"fdivrp", 0, \hDE, 6>>>>))
  \o RowsXS(One, "Nil", <<<<"fdivrp", 0, \hDE, 6, \hF1>>>>)
  \o OnlyMem(RowsX(One, "M", <<<<"fidivr", 0, \hDE, 7>>>>))
  \o OnlyReg(RowsX(One, "Nil", <<<<"fdivp", 0, \hDE, 7>>>>))
  \o RowsXS(One, "Nil", <<<<"fdivp", 0, \hDE, 7, \hF9>>>>)
  \o Rows(One, "Jb", <<<<"loopnz", 0, \hE0>>>>)

\* Opcodes E3 to FF: ports, calls, jumps, flags and the unary groups.
OneByteGroups ==
     Rows(One, "Jb", <<<<"loopnz", 0, \hE0>>, <<"loopz", 0, \hE1>>, <<"loopz", 0, \hE1>>, <<"loop", 0, \hE2>>,
       <<"loop", 0, \hE2>>, <<"jcxz", 0, \hE3>>, <<"jecxz", 0, \hE3>>, <<"jmp", 0, \hEB>>>>)
  \o Rows(One, "Ib", <<<<"in", 0, \hE4>>, <<"in", 0, \hE5>>, <<"out", 0, \hE6>>, <<"out", 0, \hE7>>>>)
  \o Rows(One, "Jz", <<<<"call", 0, \hE8>>, <<"jmp", 0, \hE9>>>>)
  \o Bare(Rows(One, "Nil", <<<<"jmpf", 0, \hEA>>, <<"in", 0, \hEC>>, <<"in", 0, \hED>>, <<"out", 0, \hEE>>,
       <<"out", 0, \hEF>>, <<"int1", 0, \hF1>>, <<"hlt", 0, \hF4>>, <<"cmc", 0, \hF5>>, <<"clc", 0, \hF8>>,
       <<"stc", 0, \hF9>>, <<"cli", 0, \hFA>>, <<"sti", 0, \hFB>>, <<"cld", 0, \hFC>>, <<"std", 0, \hFD>>>>))
  \o RowsX(One, "EIb", <<<<"test", 0, \hF6, 0>>, <<"test", 0, \hF6, 1>>>>)
  \o RowsX(One, "E", <<<<"not", 0, \hF6, 2>>, <<"neg", 0, \hF6, 3>>, <<"mul", 0, \hF6, 4>>,
       <<"imul", 0, \hF6, 5>>, <<"div", 0, \hF6, 6>>, <<"idiv", 0, \hF6, 7>>, <<"inc", 0, \hFE, 0>>,
       <<"dec", 0, \hFE, 1>>, <<"inc", 0, \hFF, 0>>, <<"dec", 0, \hFF, 1>>, <<"call", 0, \hFF, 2>>,
       <<"call", 0, \hFF, 2>>>>)
  \o RowsX(One, "EIz", <<<<"test", 0, \hF7, 0>>, <<"test", 0, \hF7, 1>>>>)
  \o RowsX(One, "E", <<<<"not", 0, \hF7, 2>>, <<"neg", 0, \hF7, 3>>, <<"mul", 0, \hF7, 4>>,
       <<"imul", 0, \hF7, 5>>, <<"div", 0, \hF7, 6>>, <<"idiv", 0, \hF7, 7>>>>)
  \o RowsX(One, "M", <<<<"callf", 0, \hFF, 3>>>>)
  \o RowsX(One, "E", <<<<"jmp", 0, \hFF, 4>>, <<"jmp", 0, \hFF, 4>>>>)
  \o RowsX(One, "M", <<<<"jmpf", 0, \hFF, 5>>>>)
  \o RowsX(One, "E", <<<<"push", 0, \hFF, 6>>, <<"push", 0, \hFF, 6>>>>)

\* 0F 00 to 0F 37: system instructions, hints, moves to control registers, the first vector moves.
TwoByteSystem ==
     OnlyMem(RowsX(Two, "M", <<<<"sldt", 0, \h00, 0>>, <<"str", 0, \h00, 1>>>>))
  \o RowsX(Two, "E", <<<<"lldt", 0, \h00, 2>>, <<"ltr", 0, \h00, 3>>, <<"verr", 0, \h00, 4>>,
       <<"verw", 0, \h00, 5>>>>)
  \o RowsX(Two, "Nil", <<<<"jmpe", 0, \h00, 6>>>>)
  \o RowsX(Two, "M", <<<<"sgdt", 0, \h01, 0>>>>)
  \o RowsXS(Two, "Nil", <<<<"vmcall", 0, \h01, 0, \hC1>>, <<"vmlaunch", 0, \h01, 0, \hC2>>,
       <<"vmresume", 0, \h01, 0, \hC3>>, <<"vmxoff", 0, \h01, 0, \hC4>>>>)
  \o RowsX(Two, "M", <<<<"sidt", 0, \h01, 1>>>>)
  \o RowsXS(Two, "Nil", <<<<"monitor", 0, \h01, 1, \hC8>>, <<"mwait", 0, \h01, 1, \hC9>>>>)
  \o RowsX(Two, "M", <<<<"lgdt", 0, \h01, 2>>>>)
  \o RowsXS(Two, "Nil", <<<<"xgetbv", 0, \h01, 2, \hD0>>, <<"xsetbv", 0, \h01, 2, \hD1>>>>)
  \o RowsX(Two, "M", <<<<"lidt", 0, \h01, 3>>>>)
  \o OnlyMem(RowsX(Two, "M", <<<<"smsw", 0, \h01, 4>>>>))
  \o RowsX(Two, "E", <<<<"lmsw", 0, \h01, 6>>>>)
  \o RowsX(Two, "M", <<<<"invlpg", 0, \h01, 7>>>>)
  \o RowsXS(Two, "Nil", <<<<"swapgs", 0, \h01, 7, \hF8>>, <<"rdtscp", 0, \h01, 7, \hF9>>>>)
  \o OnlyMem(Rows(Two, "GM", <<<<"lar", 0, \h02>>, <<"lsl", 0, \h03>>>>))
  \o Bare(Rows(Two, "Nil", <<<<"syscall", 0, \h05>>, <<"clts", 0, \h06>>, <<"sysret", 0, \h07>>,
       <<"invd", 0, \h08>>, <<"wbinvd", 0, \h09>>, <<"ud2", 0, \h0B>>, <<"wrmsr", 0, \h30>>,
       <<"rdtsc", 0, \h31>>, <<"rdmsr", 0, \h32>>, <<"rdpmc", 0, \h33>>, <<"sysenter", 0, \h34>>,
       <<"sysenter", 0, \h34>>, <<"sysexit", 0, \h35>>, <<"getsec", 0, \h37>>>>))
  \o Rows(Two, "E", <<<<"nop", 0, \h0D>>, <<"hint_nop", 0, \h18>>, <<"hint_nop", 0, \h19>>,
       <<"hint_nop", 0, \h1A>>, <<"hint_nop", 0, \h1B>>, <<"hint_nop", 0, \h1C>>, <<"hint_nop", 0, \h1D>>,
       <<"hint_nop", 0, \h1E>>, <<"hint_nop", 0, \h1F>>>>)
  \o Rows(Two, "VW", <<<<"movups", 0, \h10>>, <<"movss", \hF3, \h10>>, <<"movupd", \h66, \h10>>,
       <<"movsd", \hF2, \h10>>, <<"unpcklps", 0, \h14>>, <<"unpcklpd", \h66, \h14>>, <<"unpckhps", 0, \h15>>,
       <<"unpckhpd", \h66, \h15>>, <<"movaps", 0, \h28>>, <<"movapd", \h66, \h28>>, <<"ucomiss", 0, \h2E>>,
       <<"ucomisd", \h66, \h2E>>, <<"comiss", 0, \h2F>>, <<"comisd", \h66, \h2F>>>>)
  \o Rows(Two, "WV", <<<<"movups", 0, \h11>>, <<"movss", \hF3, \h11>>, <<"movupd", \h66, \h11>>,
       <<"movsd", \hF2, \h11>>, <<"movaps", 0, \h29>>, <<"movapd", \h66, \h29>>>>)
  \o OnlyReg(Rows(Two, "VU", <<<<"movhlps", 0, \h12>>, <<"movlhps", 0, \h16>>>>))
  \o OnlyMem(Rows(Two, "VM", <<<<"movlps", 0, \h12>>, <<"movhps", 0, \h16>>>>))
  \o Rows(Two, "VM", <<<<"movlpd", \h66, \h12>>, <<"movhpd", \h66, \h16>>>>)
  \o Rows(Two, "VW", <<<<"movddup", \hF2, \h12>>, <<"movsldup", \hF3, \h12>>, <<"movshdup", \hF3, \h16>>>>)
  \o Rows(Two, "MV", <<<<"movlps", 0, \h13>>, <<"movlpd", \h66, \h13>>, <<"movhps", 0, \h17>>,
       <<"movhpd", \h66, \h17>>, <<"movntps", 0, \h2B>>, <<"movntpd", \h66, \h2B>>>>)
  \o RowsX(Two, "M", <<<<"prefetchnta", 0, \h18, 0>>, <<"prefetcht0", 0, \h18, 1>>, <<"prefetcht1", 0, \h18, 2>>,
       <<"prefetcht2", 0, \h18, 3>>>>)
  \o RowsX(Two, "E", <<<<"hint_nop", 0, \h18, 4>>, <<"hint_nop", 0, \h18, 5>>, <<"hint_nop", 0, \h18, 6>>,
       <<"hint_nop", 0, \h18, 7>>, <<"nop", 0, \h1F, 0>>, <<"hint_nop", 0, \h1F, 1>>,
       <<"hint_nop", 0, \h1F, 2>>, <<"hint_nop", 0, \h1F, 3>>, <<"hint_nop", 0, \h1F, 4>>,
       <<"hint_nop", 0, \h1F, 5>>, <<"hint_nop", 0, \h1F, 6>>, <<"hint_nop", 0, \h1F, 7>>>>)
  \o Rows(Two, "RC", <<<<"mov", 0, \h20>>>>)
  \o Rows(Two, "C", <<<<"mov", 0, \h20>>>>)
  \o Rows(Two, "RC", <<<<"mov", 0, \h20>>>>)
  \o Rows(Two, "C", <<<<"mov", 0, \h20>>>>)
  \o Rows(Two, "RD", <<<<"mov", 0, \h21>>>>)
  \o Rows(Two, "D", <<<<"mov", 0, \h21>>>>)
  \o Rows(Two, "RD", <<<<"mov", 0, \h21>>>>)
  \o Rows(Two, "D", <<<<"mov", 0, \h21>>>>)
  \o Rows(Two, "CR", <<<<"mov", 0, \h22>>>>)
  \o Rows(Two, "C", <<<<"mov", 0, \h22>>>>)
  \o Rows(Two, "CR", <<<<"mov", 0, \h22>>>>)
  \o Rows(Two, "C", <<<<"mov", 0, \h22>>>>)
  \o Rows(Two, "DR", <<<<"mov", 0, \h23>>>>)
  \o Rows(Two, "D", <<<<"mov", 0, \h23>>>>)
  \o Rows(Two, "DR", <<<<"mov", 0, \h23>>>>)
  \o Rows(Two, "D", <<<<"mov", 0, \h23>>>>)
  \o Rows(Two, "R", <<<<"mov", 0, \h24>>, <<"mov", 0, \h26>>>>)
  \o Rows(Two, "Nil", <<<<"mov", 0, \h24>>, <<"mov", 0, \h26>>>>)
  \o Rows(Two, "VQ", <<<<"cvtpi2ps", 0, \h2A>>>>)
  \o Rows(Two, "VE", <<<<"cvtsi2ss", \hF3, \h2A>>>>)
  \o Rows(Two, "VQ", <<<<"cvtpi2pd", \h66, \h2A>>>>)
  \o Rows(Two, "VE", <<<<"cvtsi2sd", \hF2, \h2A>>>>)
  \o Rows(Two, "PW", <<<<"cvttps2pi", 0, \h2C>>, <<"cvtps2pi", 0, \h2D>>>>)
  \o Rows(Two, "GW", <<<<"cvttss2si", \hF3, \h2C>>, <<"cvtss2si", \hF3, \h2D>>>>)
  \o Rows(Two, "PW", <<<<"cvttpd2pi", \h66, \h2C>>, <<"cvtpd2pi", \h66, \h2D>>>>)
  \o Rows(Two, "GW", <<<<"cvttsd2si", \hF2, \h2C>>, <<"cvtsd2si", \hF2, \h2D>>>>)

\* 0F 38 and 0F 3A: the SSSE3 and SSE4 instructions.
ThreeByteRows ==
     Rows(T38, "PQ", <<<<"pshufb", 0, \h00>>, <<"phaddw", 0, \h01>>, <<"phaddd", 0, \h02>>,
       <<"phaddsw", 0, \h03>>, <<"pmaddubsw", 0, \h04>>, <<"phsubw", 0, \h05>>, <<"phsubd", 0, \h06>>,
       <<"phsubsw", 0, \h07>>, <<"psignb", 0, \h08>>, <<"psignw", 0, \h09>>, <<"psignd", 0, \h0A>>,
       <<"pmulhrsw", 0, \h0B>>, <<"pabsb", 0, \h1C>>, <<"pabsw", 0, \h1D>>, <<"pabsd", 0, \h1E>>>>)
  \o Rows(T38, "VW", <<<<"pshufb", \h66, \h00>>, <<"phaddw", \h66, \h01>>, <<"phaddd", \h66, \h02>>,
       <<"phaddsw", \h66, \h03>>, <<"pmaddubsw", \h66, \h04>>, <<"phsubw", \h66, \h05>>,
       <<"phsubd", \h66, \h06>>, <<"phsubsw", \h66, \h07>>, <<"psignb", \h66, \h08>>, <<"psignw", \h66, \h09>>,
       <<"psignd", \h66, \h0A>>, <<"pmulhrsw", \h66, \h0B>>, <<"pblendvb", \h66, \h10>>,
       <<"blendvps", \h66, \h14>>, <<"blendvpd", \h66, \h15>>, <<"ptest", \h66, \h17>>, <<"pabsb", \h66, \h1C>>,
       <<"pabsw", \h66, \h1D>>, <<"pabsd", \h66, \h1E>>, <<"pmuldq", \h66, \h28>>, <<"pcmpeqq", \h66, \h29>>,
       <<"packusdw", \h66, \h2B>>, <<"pcmpgtq", \h66, \h37>>, <<"pminsb", \h66, \h38>>,
       <<"pminsd", \h66, \h39>>, <<"pminuw", \h66, \h3A>>, <<"pminud", \h66, \h3B>>, <<"pmaxsb", \h66, \h3C>>,
       <<"pmaxsd", \h66, \h3D>>, <<"pmaxuw", \h66, \h3E>>, <<"pmaxud", \h66, \h3F>>, <<"pmulld", \h66, \h40>>,
       <<"phminposuw", \h66, \h41>>>>)
  \o OnlyMem(Rows(T38, "VM", <<<<"pmovsxbw", \h66, \h20>>, <<"pmovsxbd", \h66, \h21>>, <<"pmovsxbq", \h66, \h22>>,
       <<"pmovsxwd", \h66, \h23>>, <<"pmovsxwq", \h66, \h24>>, <<"pmovsxdq", \h66, \h25>>,
       <<"pmovzxbw", \h66, \h30>>, <<"pmovzxbd", \h66, \h31>>, <<"pmovzxbq", \h66, \h32>>,
       <<"pmovzxwd", \h66, \h33>>, <<"pmovzxwq", \h66, \h34>>, <<"pmovzxdq", \h66, \h35>>>>))
  \o Rows(T38, "VM", <<<<"movntdqa", \h66, \h2A>>>>)
  \o Rows(T38, "GM", <<<<"invept", \h66, \h80>>, <<"invept", \h66, \h80>>, <<"invvpid", \h66, \h81>>,
       <<"invvpid", \h66, \h81>>, <<"movbe", 0, \hF0>>>>)
  \o Rows(T38, "GE", <<<<"crc32", \hF2, \hF0>>>>)
  \o Rows(T38, "MG", <<<<"movbe", 0, \hF1>>>>)
  \o Rows(T38, "GE", <<<<"crc32", \hF2, \hF1>>>>)
  \o Rows(T3A, "VWIb", <<<<"roundps", \h66, \h08>>, <<"roundpd", \h66, \h09>>, <<"roundss", \h66, \h0A>>,
       <<"roundsd", \h66, \h0B>>, <<"blendps", \h66, \h0C>>, <<"blendpd", \h66, \h0D>>,
       <<"pblendw", \h66, \h0E>>, <<"mpsadbw", \h66, \h42>>, <<"pcmpestrm", \h66, \h60>>,
       <<"pcmpestri", \h66, \h61>>, <<"pcmpistrm", \h66, \h62>>, <<"pcmpistri", \h66, \h63>>>>)
  \o Rows(T3A, "PQ", <<<<"palignr", 0, \h0F>>>>)
  \o Rows(T3A, "VW", <<<<"palignr", \h66, \h0F>>, <<"dpps", \h66, \h40>>, <<"dppd", \h66, \h41>>>>)
  \o OnlyMem(Rows(T3A, "MVIb", <<<<"pextrb", \h66, \h14>>, <<"pextrw", \h66, \h15>>>>))
  \o Rows(T3A, "EVIb", <<<<"pextrd", \h66, \h16>>, <<"extractps", \h66, \h17>>>>)
  \o OnlyReg(Rows(T3A, "VMIb", <<<<"pinsrb", \h66, \h20>>>>))
  \o OnlyMem(Rows(T3A, "VUIb", <<<<"insertps", \h66, \h21>>>>))
  \o Rows(T3A, "VEIb", <<<<"pinsrd", \h66, \h22>>>>)

\* 0F 40 to 0F 7F: conditional moves and vector arithmetic.
TwoByteVectorArithmetic ==
     Rows(Two, "GE", <<<<"cmovo", 0, \h40>>, <<"cmovno", 0, \h41>>, <<"cmovb", 0, \h42>>, <<"cmovnb", 0, \h43>>,
       <<"cmovz", 0, \h44>>, <<"cmovnz", 0, \h45>>, <<"cmovbe", 0, \h46>>, <<"cmovnbe", 0, \h47>>,
       <<"cmovs", 0, \h48>>, <<"cmovns", 0, \h49>>, <<"cmovp", 0, \h4A>>, <<"cmovnp", 0, \h4B>>,
       <<"cmovl", 0, \h4C>>, <<"cmovnl", 0, \h4D>>, <<"cmovle", 0, \h4E>>, <<"cmovnle", 0, \h4F>>,
       <<"vmwrite", 0, \h79>>, <<"vmwrite", 0, \h79>>>>)
  \o Rows(Two, "GU", <<<<"movmskps", 0, \h50>>, <<"movmskpd", \h66, \h50>>>>)
  \o Rows(Two, "VW", <<<<"sqrtps", 0, \h51>>, <<"sqrtss", \hF3, \h51>>, <<"sqrtpd", \h66, \h51>>,
       <<"sqrtsd", \hF2, \h51>>, <<"rsqrtps", 0, \h52>>, <<"rsqrtss", \hF3, \h52>>, <<"rcpps", 0, \h53>>,
       <<"rcpss", \hF3, \h53>>, <<"andps", 0, \h54>>, <<"andpd", \h66, \h54>>, <<"andnps", 0, \h55>>,
       <<"andnpd", \h66, \h55>>, <<"orps", 0, \h56>>, <<"orpd", \h66, \h56>>, <<"xorps", 0, \h57>>,
       <<"xorpd", \h66, \h57>>, <<"addps", 0, \h58>>, <<"addss", \hF3, \h58>>, <<"addpd", \h66, \h58>>,
       <<"addsd", \hF2, \h58>>, <<"mulps", 0, \h59>>, <<"mulss", \hF3, \h59>>, <<"mulpd", \h66, \h59>>,
       <<"mulsd", \hF2, \h59>>, <<"cvtps2pd", 0, \h5A>>, <<"cvtpd2ps", \h66, \h5A>>, <<"cvtss2sd", \hF3, \h5A>>,
       <<"cvtsd2ss", \hF2, \h5A>>, <<"cvtdq2ps", 0, \h5B>>, <<"cvtps2dq", \h66, \h5B>>,
       <<"cvttps2dq", \hF3, \h5B>>, <<"subps", 0, \h5C>>, <<"subss", \hF3, \h5C>>, <<"subpd", \h66, \h5C>>,
       <<"subsd", \hF2, \h5C>>, <<"minps", 0, \h5D>>, <<"minss", \hF3, \h5D>>, <<"minpd", \h66, \h5D>>,
       <<"minsd", \hF2, \h5D>>, <<"divps", 0, \h5E>>, <<"divss", \hF3, \h5E>>, <<"divpd", \h66, \h5E>>,
       <<"divsd", \hF2, \h5E>>, <<"maxps", 0, \h5F>>, <<"maxss", \hF3, \h5F>>, <<"maxpd", \h66, \h5F>>,
       <<"maxsd", \hF2, \h5F>>, <<"punpcklqdq", \h66, \h6C>>, <<"punpckhqdq", \h66, \h6D>>,
       <<"haddpd", \h66, \h7C>>, <<"haddps", \hF2, \h7C>>, <<"hsubpd", \h66, \h7D>>, <<"hsubps", \hF2, \h7D>>>>)
  \o Rows(Two, "PQ", <<<<"punpcklbw", 0, \h60>>, <<"punpcklwd", 0, \h61>>, <<"punpckldq", 0, \h62>>,
       <<"packsswb", 0, \h63>>, <<"pcmpgtb", 0, \h64>>, <<"pcmpgtw", 0, \h65>>, <<"pcmpgtd", 0, \h66>>,
       <<"packuswb", 0, \h67>>, <<"punpckhbw", 0, \h68>>, <<"punpckhwd", 0, \h69>>, <<"punpckhdq", 0, \h6A>>,
       <<"packssdw", 0, \h6B>>, <<"movq", 0, \h6F>>, <<"pcmpeqb", 0, \h74>>, <<"pcmpeqw", 0, \h75>>,
       <<"pcmpeqd", 0, \h76>>>>)
  \o Rows(Two, "VW", <<<<"punpcklbw", \h66, \h60>>, <<"punpcklwd", \h66, \h61>>, <<"punpckldq", \h66, \h62>>,
       <<"packsswb", \h66, \h63>>, <<"pcmpgtb", \h66, \h64>>, <<"pcmpgtw", \h66, \h65>>,
       <<"pcmpgtd", \h66, \h66>>, <<"packuswb", \h66, \h67>>, <<"punpckhbw", \h66, \h68>>,
       <<"punpckhwd", \h66, \h69>>, <<"punpckhdq", \h66, \h6A>>, <<"packssdw", \h66, \h6B>>,
       <<"movdqa", \h66, \h6F>>, <<"movdqu", \hF3, \h6F>>, <<"pcmpeqb", \h66, \h74>>, <<"pcmpeqw", \h66, \h75>>,
       <<"pcmpeqd", \h66, \h76>>>>)
  \o Rows(Two, "PE", <<<<"movd", 0, \h6E>>, <<"movd", 0, \h6E>>>>)
  \o Rows(Two, "VE", <<<<"movd", \h66, \h6E>>, <<"movd", \h66, \h6E>>>>)
  \o Rows(Two, "PQIb", <<<<"pshufw", 0, \h70>>>>)
  \o Rows(Two, "VWIb", <<<<"pshuflw", \hF2, \h70>>, <<"pshufhw", \hF3, \h70>>, <<"pshufd", \h66, \h70>>>>)
  \o RowsX(Two, "NIb", <<<<"psrlw", 0, \h71, 2>>, <<"psrld", 0, \h72, 2>>, <<"psrlq", 0, \h73, 2>>>>)
  \o RowsX(Two, "UIb", <<<<"psrlw", \h66, \h71, 2>>, <<"psrld", \h66, \h72, 2>>, <<"psrlq", \h66, \h73, 2>>,
       <<"psrldq", \h66, \h73, 3>>>>)
  \o RowsX(Two, "NIb", <<<<"psraw", 0, \h71, 4>>, <<"psrad", 0, \h72, 4>>, <<"psllq", 0, \h73, 6>>>>)
  \o RowsX(Two, "UIb", <<<<"psraw", \h66, \h71, 4>>, <<"psrad", \h66, \h72, 4>>, <<"psllq", \h66, \h73, 6>>,
       <<"pslldq", \h66, \h73, 7>>>>)
  \o RowsX(Two, "NIb", <<<<"psllw", 0, \h71, 6>>, <<"pslld", 0, \h72, 6>>>>)
  \o RowsX(Two, "UIb", <<<<"psllw", \h66, \h71, 6>>, <<"pslld", \h66, \h72, 6>>>>)
  \o Bare(Rows(Two, "Nil", <<<<"emms", 0, \h77>>>>))
  \o Rows(Two, "EG", <<<<"vmread", 0, \h78>>, <<"vmread", 0, \h78>>>>)
  \o Rows(Two, "EP", <<<<"movd", 0, \h7E>>, <<"movd", 0, \h7E>>>>)
  \o Rows(Two, "EV", <<<<"movd", \h66, \h7E>>, <<"movd", \h66, \h7E>>>>)
  \o Rows(Two, "VW", <<<<"movq", \hF3, \h7E>>>>)
  \o Rows(Two, "QP", <<<<"movq", 0, \h7F>>>>)
  \o Rows(Two, "WV", <<<<"movdqa", \h66, \h7F>>, <<"movdqu", \hF3, \h7F>>>>)

\* 0F 80 to 0F CF: conditional jumps and sets, bit tests, double shifts, exchanges.
TwoByteConditions ==
     Rows(Two, "Jz", <<<<"jo", 0, \h80>>, <<"jno", 0, \h81>>, <<"jb", 0, \h82>>, <<"jnb", 0, \h83>>,
       <<"jz", 0, \h84>>, <<"jnz", 0, \h85>>, <<"jbe", 0, \h86>>, <<"jnbe", 0, \h87>>, <<"js", 0, \h88>>,
       <<"jns", 0, \h89>>, <<"jp", 0, \h8A>>, <<"jnp", 0, \h8B>>, <<"jl", 0, \h8C>>, <<"jnl", 0, \h8D>>,
       <<"jle", 0, \h8E>>, <<"jnle", 0, \h8F>>>>)
  \o Rows(Two, "E", <<<<"seto", 0, \h90>>, <<"setno", 0, \h91>>, <<"setb", 0, \h92>>, <<"setnb", 0, \h93>>,
       <<"setz", 0, \h94>>, <<"setnz", 0, \h95>>, <<"setbe", 0, \h96>>, <<"setnbe", 0, \h97>>,
       <<"sets", 0, \h98>>, <<"setns", 0, \h99>>, <<"setp", 0, \h9A>>, <<"setnp", 0, \h9B>>,
       <<"setl", 0, \h9C>>, <<"setnl", 0, \h9D>>, <<"setle", 0, \h9E>>, <<"setnle", 0, \h9F>>>>)
  \o Bare(Rows(Two, "Nil", <<<<"push", 0, \hA0>>, <<"pop", 0, \hA1>>, <<"cpuid", 0, \hA2>>, <<"push", 0, \hA8>>,
       <<"pop", 0, \hA9>>, <<"rsm", 0, \hAA>>, <<"jmpe", 0, \hB8>>>>))
  \o Rows(Two, "EG", <<<<"bt", 0, \hA3>>, <<"shld", 0, \hA5>>, <<"bts", 0, \hAB>>, <<"shrd", 0, \hAD>>,
       <<"cmpxchg", 0, \hB0>>, <<"cmpxchg", 0, \hB1>>, <<"btr", 0, \hB3>>, <<"btc", 0, \hBB>>,
       <<"xadd", 0, \hC0>>, <<"xadd", 0, \hC1>>>>)
  \o Rows(Two, "EGIb", <<<<"shld", 0, \hA4>>, <<"shrd", 0, \hAC>>>>)
  \o RowsX(Two, "M", <<<<"fxsave", 0, \hAE, 0>>, <<"fxsave", 0, \hAE, 0>>, <<"cmpxchg8b", 0, \hC7, 1>>,
       <<"cmpxchg8b", 0, \hC7, 1>>, <<"vmptrld", 0, \hC7, 6>>, <<"vmclear", \h66, \hC7, 6>>,
       <<"vmxon", \hF3, \hC7, 6>>, <<"vmptrst", 0, \hC7, 7>>>>)
  \o RowsX(Two, "Nil", <<<<"fxrstor", 0, \hAE, 1>>, <<"fxrstor", 0, \hAE, 1>>>>)
  \o RowsX(Two, "M", <<<<"ldmxcsr", 0, \hAE, 2>>, <<"stmxcsr", 0, \hAE, 3>>, <<"xsave", 0, \hAE, 4>>,
       <<"xsave", 0, \hAE, 4>>>>)
  \o OnlyReg(RowsX(Two, "Nil", <<<<"lfence", 0, \hAE, 5>>>>))
  \o OnlyMem(RowsX(Two, "Nil", <<<<"xrstor", 0, \hAE, 5>>, <<"xrstor", 0, \hAE, 5>>>>))
  \o RowsX(Two, "Nil", <<<<"mfence", 0, \hAE, 6>>>>)
  \o OnlyReg(RowsX(Two, "Nil", <<<<"sfence", 0, \hAE, 7>>>>))
  \o OnlyMem(RowsX(Two, "M", <<<<"clflush", 0, \hAE, 7>>>>))
  \o Rows(Two, "GE", <<<<"imul", 0, \hAF>>, <<"movzx", 0, \hB6>>, <<"movzx", 0, \hB7>>, <<"popcnt", \hF3, \hB8>>,
       <<"ud", 0, \hB9>>, <<"bsf", 0, \hBC>>, <<"bsr", 0, \hBD>>, <<"movsx", 0, \hBE>>, <<"movsx", 0, \hBF>>>>)
  \o Rows(Two, "GM", <<<<"lss", 0, \hB2>>, <<"lfs", 0, \hB4>>, <<"lgs", 0, \hB5>>>>)
  \o RowsX(Two, "EIb", <<<<"bt", 0, \hBA, 4>>, <<"bts", 0, \hBA, 5>>, <<"btr", 0, \hBA, 6>>,
       <<"btc", 0, \hBA, 7>>>>)
  \o Rows(Two, "VWIb", <<<<"cmpps", 0, \hC2>>, <<"cmpss", \hF3, \hC2>>, <<"cmppd", \h66, \hC2>>,
       <<"cmpsd", \hF2, \hC2>>, <<"shufps", 0, \hC6>>, <<"shufpd", \h66, \hC6>>>>)
  \o Rows(Two, "MG", <<<<"movnti", 0, \hC3>>>>)
  \o OnlyReg(Rows(Two, "PRIb", <<<<"pinsrw", 0, \hC4>>>>))
  \o OnlyReg(Rows(Two, "VRIb", <<<<"pinsrw", \h66, \hC4>>>>))
  \o Rows(Two, "GNIb", <<<<"pextrw", 0, \hC5>>>>)
  \o Rows(Two, "GUIb", <<<<"pextrw", \h66, \hC5>>>>)
  \o Rows(Two, "Z", <<<<"bswap", 0, \hC8>>>>)

\* 0F D0 to 0F FE: the integer vector instructions.
TwoByteIntegerVectors ==
     Rows(Two, "VW", <<<<"addsubpd", \h66, \hD0>>, <<"addsubps", \hF2, \hD0>>, <<"cvtpd2dq", \hF2, \hE6>>,
       <<"cvttpd2dq", \h66, \hE6>>, <<"cvtdq2pd", \hF3, \hE6>>>>)
  \o Rows(Two, "PQ", <<<<"psrlw", 0, \hD1>>, <<"psrld", 0, \hD2>>, <<"psrlq", 0, \hD3>>, <<"paddq", 0, \hD4>>,
       <<"pmullw", 0, \hD5>>, <<"psubusb", 0, \hD8>>, <<"psubusw", 0, \hD9>>, <<"pminub", 0, \hDA>>,
       <<"pand", 0, \hDB>>, <<"paddusb", 0, \hDC>>, <<"paddusw", 0, \hDD>>, <<"pmaxub", 0, \hDE>>,
       <<"pandn", 0, \hDF>>, <<"pavgb", 0, \hE0>>, <<"psraw", 0, \hE1>>, <<"psrad", 0, \hE2>>,
       <<"pavgw", 0, \hE3>>, <<"pmulhuw", 0, \hE4>>, <<"pmulhw", 0, \hE5>>, <<"psubsb", 0, \hE8>>,
       <<"psubsw", 0, \hE9>>, <<"pminsw", 0, \hEA>>, <<"por", 0, \hEB>>, <<"paddsb", 0, \hEC>>,
       <<"paddsw", 0, \hED>>, <<"pmaxsw", 0, \hEE>>, <<"pxor", 0, \hEF>>, <<"psllw", 0, \hF1>>,
       <<"pslld", 0, \hF2>>, <<"psllq", 0, \hF3>>, <<"pmuludq", 0, \hF4>>, <<"pmaddwd", 0, \hF5>>,
       <<"psadbw", 0, \hF6>>, <<"psubb", 0, \hF8>>, <<"psubw", 0, \hF9>>, <<"psubd", 0, \hFA>>,
       <<"psubq", 0, \hFB>>, <<"paddb", 0, \hFC>>, <<"paddw", 0, \hFD>>, <<"paddd", 0, \hFE>>>>)
  \o Rows(Two, "VW", <<<<"psrlw", \h66, \hD1>>, <<"psrld", \h66, \hD2>>, <<"psrlq", \h66, \hD3>>,
       <<"paddq", \h66, \hD4>>, <<"pmullw", \h66, \hD5>>, <<"psubusb", \h66, \hD8>>, <<"psubusw", \h66, \hD9>>,
       <<"pminub", \h66, \hDA>>, <<"pand", \h66, \hDB>>, <<"paddusb", \h66, \hDC>>, <<"paddusw", \h66, \hDD>>,
       <<"pmaxub", \h66, \hDE>>, <<"pandn", \h66, \hDF>>, <<"pavgb", \h66, \hE0>>, <<"psraw", \h66, \hE1>>,
       <<"psrad", \h66, \hE2>>, <<"pavgw", \h66, \hE3>>, <<"pmulhuw", \h66, \hE4>>, <<"pmulhw", \h66, \hE5>>,
       <<"psubsb", \h66, \hE8>>, <<"psubsw", \h66, \hE9>>, <<"pminsw", \h66, \hEA>>, <<"por", \h66, \hEB>>,
       <<"paddsb", \h66, \hEC>>, <<"paddsw", \h66, \hED>>, <<"pmaxsw", \h66, \hEE>>, <<"pxor", \h66, \hEF>>,
       <<"psllw", \h66, \hF1>>, <<"pslld", \h66, \hF2>>, <<"psllq", \h66, \hF3>>, <<"pmuludq", \h66, \hF4>>,
       <<"pmaddwd", \h66, \hF5>>, <<"psadbw", \h66, \hF6>>, <<"psubb", \h66, \hF8>>, <<"psubw", \h66, \hF9>>,
       <<"psubd", \h66, \hFA>>, <<"psubq", \h66, \hFB>>, <<"paddb", \h66, \hFC>>, <<"paddw", \h66, \hFD>>,
       <<"paddd", \h66, \hFE>>>>)
  \o Rows(Two, "WV", <<<<"movq", \h66, \hD6>>>>)
  \o Rows(Two, "VN", <<<<"movq2dq", \hF3, \hD6>>>>)
  \o Rows(Two, "PU", <<<<"movdq2q", \hF2, \hD6>>>>)
  \o Rows(Two, "GN", <<<<"pmovmskb", 0, \hD7>>>>)
  \o Rows(Two, "GU", <<<<"pmovmskb", \h66, \hD7>>>>)
  \o Rows(Two, "MP", <<<<"movntq", 0, \hE7>>>>)
  \o Rows(Two, "MV", <<<<"movntdq", \h66, \hE7>>>>)
  \o Rows(Two, "VM", <<<<"lddqu", \hF2, \hF0>>>>)
  \o Rows(Two, "PN", <<<<"maskmovq", 0, \hF7>>>>)
  \o Rows(Two, "VU", <<<<"maskmovdqu", \h66, \hF7>>>>)

\* The FMA, BMI, SHA, AVX2 and control-flow extensions, appended to the table.
FmaAndBmiRows ==
     Rows(T38, "VHW", <<<<"vfmadd132ps", \h66, \h98>>, <<"vfmadd213ps", \h66, \hA8>>,
       <<"vfmadd231ps", \h66, \hB8>>, <<"vfmadd132ss", \h66, \h99>>, <<"vfmadd213ss", \h66, \hA9>>,
       <<"vfmadd231ss", \h66, \hB9>>, <<"vfmsub132ps", \h66, \h9A>>, <<"vfmsub213ps", \h66, \hAA>>,
       <<"vfmsub231ps", \h66, \hBA>>, <<"vfmsub132ss", \h66, \h9B>>, <<"vfmsub213ss", \h66, \hAB>>,
       <<"vfmsub231ss", \h66, \hBB>>, <<"vfnmadd132ps", \h66, \h9C>>, <<"vfnmadd213ps", \h66, \hAC>>,
       <<"vfnmadd231ps", \h66, \hBC>>, <<"vfnmadd132ss", \h66, \h9D>>, <<"vfnmadd213ss", \h66, \hAD>>,
       <<"vfnmadd231ss", \h66, \hBD>>, <<"vfnmsub132ps", \h66, \h9E>>, <<"vfnmsub213ps", \h66, \hAE>>,
       <<"vfnmsub231ps", \h66, \hBE>>, <<"vfnmsub132ss", \h66, \h9F>>, <<"vfnmsub213ss", \h66, \hAF>>,
       <<"vfnmsub231ss", \h66, \hBF>>, <<"vfmaddsub132ps", \h66, \h96>>, <<"vfmaddsub213ps", \h66, \hA6>>,
       <<"vfmaddsub231ps", \h66, \hB6>>, <<"vfmsubadd132ps", \h66, \h97>>, <<"vfmsubadd213ps", \h66, \hA7>>,
       <<"vfmsubadd231ps", \h66, \hB7>>, <<"vpermilps", \h66, \h0C>>, <<"vpermilpd", \h66, \h0D>>,
       <<"vpermd", \h66, \h36>>>>)
  \o Rows(T38, "VW", <<<<"vbroadcastss", \h66, \h18>>, <<"vbroadcastsd", \h66, \h19>>,
       <<"vbroadcastf128", \h66, \h1A>>, <<"vpbroadcastd", \h66, \h58>>, <<"vpbroadcastq", \h66, \h59>>,
       <<"vpbroadcastb", \h66, \h78>>, <<"vpbroadcastw", \h66, \h79>>, <<"aesdec", \h66, \hDE>>,
       <<"aesdeclast", \h66, \hDF>>, <<"aesenc", \h66, \hDC>>, <<"aesenclast", \h66, \hDD>>,
       <<"aesimc", \h66, \hDB>>, <<"sha1msg1", 0, \hC9>>, <<"sha1msg2", 0, \hCA>>, <<"sha1nexte", 0, \hC8>>,
       <<"sha256msg1", 0, \hCC>>, <<"sha256msg2", 0, \hCD>>, <<"sha256rnds2", 0, \hCB>>,
       <<"gf2p8mulb", \h66, \hCF>>>>)
  \o Rows(T3A, "VHWIb", <<<<"vperm2f128", \h66, \h06>>, <<"vperm2i128", \h66, \h46>>,
       <<"vinsertf128", \h66, \h18>>, <<"vinserti128", \h66, \h38>>>>)
  \o Rows(T3A, "VWIb", <<<<"vpermq", \h66, \h00>>, <<"aeskeygenassist", \h66, \hDF>>, <<"pclmulqdq", \h66, \h44>>,
       <<"sha1rnds4", 0, \hCC>>, <<"gf2p8affineinvqb", \h66, \hCF>>, <<"gf2p8affineqb", \h66, \hCE>>>>)
  \o Rows(T3A, "WVIb", <<<<"vextractf128", \h66, \h19>>, <<"vextracti128", \h66, \h39>>>>)
  \o Rows(T38, "GBE", <<<<"andn", 0, \hF2>>, <<"mulx", \hF2, \hF6>>>>)
  \o Rows(T38, "GEB", <<<<"bextr", 0, \hF7>>, <<"bzhi", 0, \hF5>>, <<"sarx", \hF3, \hF7>>, <<"shlx", \h66, \hF7>>,
       <<"shrx", \hF2, \hF7>>>>)
  \o RowsX(T38, "BE", <<<<"blsi", 0, \hF3, 3>>, <<"blsmsk", 0, \hF3, 2>>, <<"blsr", 0, \hF3, 1>>>>)
  \o Rows(Two, "GE", <<<<"tzcnt", \hF3, \hBC>>, <<"lzcnt", \hF3, \hBD>>>>)
  \o Rows(T38, "GBE", <<<<"pdep", \hF2, \hF5>>, <<"pext", \hF3, \hF5>>>>)
  \o Rows(T3A, "GEIb", <<<<"rorx", \hF2, \hF0>>>>)
  \o Rows(T38, "GE", <<<<"adcx", \h66, \hF6>>, <<"adox", \hF3, \hF6>>>>)
  \o OnlyReg(RowsX(Two, "E", <<<<"rdrand", 0, \hC7, 6>>, <<"rdseed", 0, \hC7, 7>>, <<"rdfsbase", \hF3, \hAE, 0>>,
       <<"rdgsbase", \hF3, \hAE, 1>>, <<"wrfsbase", \hF3, \hAE, 2>>, <<"wrgsbase", \hF3, \hAE, 3>>>>))
  \o Bare(RowsS(Two, "Nil", <<<<"xend", 0, \h01, \hD5>>, <<"xtest", 0, \h01, \hD6>>,
       <<"endbr32", \hF3, \h1E, \hFB>>, <<"endbr64", \hF3, \h1E, \hFA>>, <<"serialize", 0, \h01, \hE8>>,
       <<"wrpkru", 0, \h01, \hEF>>, <<"rdpkru", 0, \h01, \hEE>>, <<"stac", 0, \h01, \hCB>>,
       <<"clac", 0, \h01, \hCA>>, <<"vmfunc", 0, \h01, \hD4>>>>))
  \o RowsS(One, "Ib", <<<<"xabort", 0, \hC6, \hF8>>>>)
  \o OnlyMem(RowsX(Two, "M", <<<<"xsavec", 0, \hC7, 4>>, <<"xsaveopt", 0, \hAE, 6>>, <<"xsaves", 0, \hC7, 5>>,
       <<"xrstors", 0, \hC7, 3>>, <<"clflushopt", \h66, \hAE, 7>>, <<"clwb", \h66, \hAE, 6>>,
       <<"prefetchw", 0, \h0D, 1>>, <<"rstorssp", \hF3, \h01, 5>>>>))
  \o Rows(T38, "GM", <<<<"invpcid", \h66, \h82>>, <<"movdir64b", \h66, \hF8>>>>)
  \o Bare(Rows(Two, "Nil", <<<<"wbnoinvd", \hF3, \h09>>>>))
  \o OnlyReg(RowsX(Two, "E", <<<<"rdpid", \hF3, \hC7, 7>>, <<"tpause", \h66, \hAE, 6>>,
       <<"umonitor", \hF3, \hAE, 6>>, <<"umwait", \hF2, \hAE, 6>>, <<"rdsspd", \hF3, \h1E, 1>>,
       <<"rdsspq", \hF3, \h1E, 1>>, <<"senduipi", \hF3, \hC7, 6>>>>))
  \o OnlyMem(Rows(T38, "MG", <<<<"movdiri", 0, \hF9>>, <<"wrssd", 0, \hF6>>, <<"wrssq", 0, \hF6>>,
       <<"wrussd", \h66, \hF5>>, <<"wrussq", \h66, \hF5>>>>))
  \o RowsS(One, "Jd", <<<<"xbegin", 0, \hC7, \hF8>>>>)
  \o RowsX(Two, "E", <<<<"ptwrite", \hF3, \hAE, 4>>>>)
  \o OnlyReg(RowsX(Two, "E", <<<<"incsspd", \hF3, \hAE, 5>>, <<"incsspq", \hF3, \hAE, 5>>>>))
  \o OnlyMem(RowsX(Two, "M", <<<<"clrssbsy", \hF3, \hAE, 6>>>>))
  \o Bare(RowsS(Two, "Nil", <<<<"saveprevssp", \hF3, \h01, \hEA>>, <<"setssbsy", \hF3, \h01, \hE8>>,
       <<"clui", \hF3, \h01, \hEE>>, <<"stui", \hF3, \h01, \hEF>>, <<"testui", \hF3, \h01, \hED>>,
       <<"uiret", \hF3, \h01, \hEC>>>>))
  \o OnlyMem(Rows(Two, "GM", <<<<"bndldx", 0, \h1A>>>>))
  \o OnlyMem(Rows(Two, "MG", <<<<"bndstx", 0, \h1B>>>>))
  \o OnlyMem(Rows(Two, "GM", <<<<"bndmk", \hF3, \h1B>>>>))
  \o Rows(Two, "GE", <<<<"bndcl", \hF3, \h1A>>, <<"bndcu", \hF2, \h1A>>, <<"bndcn", \hF2, \h1B>>,
       <<"bndmov", \h66, \h1A>>>>)
  \o Rows(T38, "VM", <<<<"aesenc128kl", \hF3, \hDC>>, <<"aesdec128kl", \hF3, \hDD>>,
       <<"aesenc256kl", \hF3, \hDE>>, <<"aesdec256kl", \hF3, \hDF>>>>)
  \o OnlyMem(RowsX(T38, "M", <<<<"aesencwide128kl", \hF3, \hD8, 0>>, <<"aesdecwide128kl", \hF3, \hD8, 1>>,
       <<"aesencwide256kl", \hF3, \hD8, 2>>, <<"aesdecwide256kl", \hF3, \hD8, 3>>>>))

\* The AVX-512 extensions and the mask instructions.
Avx512Rows ==
     OnlyReg(Rows(T38, "GE", <<<<"encodekey128", \hF3, \hFA>>, <<"encodekey256", \hF3, \hFB>>>>))
  \o Rows(T38, "GM", <<<<"enqcmd", \hF2, \hF8>>, <<"enqcmds", \hF3, \hF8>>>>)
  \o OnlyReg(WithModRM(RowsX(T3A, "Ib", <<<<"hreset", \hF3, \hF0, 0>>>>)))
  \o Rows(T38, "VHW", <<<<"vpdpbusd", \h66, \h50>>, <<"vpdpbusds", \h66, \h51>>, <<"vpdpwssd", \h66, \h52>>,
       <<"vpdpwssds", \h66, \h53>>, <<"vpmadd52luq", \h66, \hB4>>, <<"vpmadd52huq", \h66, \hB5>>,
       <<"vgetexpps", \h66, \h42>>, <<"vgetexppd", \h66, \h42>>, <<"vgetexpss", \h66, \h43>>,
       <<"vgetexpsd", \h66, \h43>>, <<"vscalefps", \h66, \h2C>>, <<"vscalefpd", \h66, \h2C>>,
       <<"vscalefss", \h66, \h2D>>, <<"vscalefsd", \h66, \h2D>>>>)
  \o Bare(RowsS(Two, "Nil", <<<<"pconfig", 0, \h01, \hC5>>>>))
  \o W0(Rows(Two, "VHW", <<<<"vpandd", \h66, \hDB>>, <<"vpandnd", \h66, \hDF>>, <<"vpord", \h66, \hEB>>,
       <<"vpxord", \h66, \hEF>>>>))
  \o W1(Rows(Two, "VHW", <<<<"vpandq", \h66, \hDB>>, <<"vpandnq", \h66, \hDF>>, <<"vporq", \h66, \hEB>>,
       <<"vpxorq", \h66, \hEF>>>>))
  \o W0(Rows(T38, "VHW", <<<<"vprolvd", \h66, \h15>>, <<"vprorvd", \h66, \h14>>, <<"vblendmps", \h66, \h65>>,
       <<"vpblendmd", \h66, \h64>>, <<"vpblendmb", \h66, \h66>>, <<"vpermi2d", \h66, \h76>>,
       <<"vpermi2ps", \h66, \h77>>, <<"vpermt2d", \h66, \h7E>>, <<"vpermt2ps", \h66, \h7F>>,
       <<"vpermb", \h66, \h8D>>, <<"vptestmd", \h66, \h27>>, <<"vptestmb", \h66, \h26>>>>))
  \o W1(Rows(T38, "VHW", <<<<"vprolvq", \h66, \h15>>, <<"vprorvq", \h66, \h14>>, <<"vblendmpd", \h66, \h65>>,
       <<"vpblendmq", \h66, \h64>>, <<"vpblendmw", \h66, \h66>>, <<"vpermi2q", \h66, \h76>>,
       <<"vpermi2pd", \h66, \h77>>, <<"vpermt2q", \h66, \h7E>>, <<"vpermt2pd", \h66, \h7F>>,
       <<"vpermw", \h66, \h8D>>, <<"vptestmq", \h66, \h27>>, <<"vptestmw", \h66, \h26>>>>))
  \o W0(Rows(T3A, "HWIb", <<<<"vprold", \h66, \h72>>>>))
  \o W1(Rows(T3A, "HWIb", <<<<"vprolq", \h66, \h72>>>>))
  \o W0(Rows(T3A, "HWIb", <<<<"vprord", \h66, \h72>>>>))
  \o W1(Rows(T3A, "HWIb", <<<<"vprorq", \h66, \h72>>>>))
  \o Rows(T3A, "VHWIb", <<<<"vpternlogd", \h66, \h25>>, <<"vpternlogq", \h66, \h25>>,
       <<"vfixupimmps", \h66, \h54>>, <<"vfixupimmpd", \h66, \h54>>, <<"vfixupimmss", \h66, \h55>>,
       <<"vfixupimmsd", \h66, \h55>>, <<"vrangeps", \h66, \h50>>, <<"vrangepd", \h66, \h50>>,
       <<"vrangess", \h66, \h51>>, <<"vrangesd", \h66, \h51>>, <<"vreduceps", \h66, \h56>>,
       <<"vreducepd", \h66, \h56>>, <<"vreducess", \h66, \h57>>, <<"vreducesd", \h66, \h57>>,
       <<"vdbpsadbw", \h66, \h42>>>>)
  \o W0(Rows(T38, "VHW", <<<<"vptestnmd", \h66, \h27>>, <<"vptestnmb", \h66, \h26>>>>))
  \o W1(Rows(T38, "VHW", <<<<"vptestnmq", \h66, \h27>>, <<"vptestnmw", \h66, \h26>>>>))
  \o Rows(T38, "WV", <<<<"vcompressps", \h66, \h8A>>, <<"vcompresspd", \h66, \h8A>>,
       <<"vpcompressd", \h66, \h8B>>, <<"vpcompressq", \h66, \h8B>>, <<"vexpandps", \h66, \h88>>,
       <<"vexpandpd", \h66, \h88>>, <<"vpexpandd", \h66, \h89>>, <<"vpexpandq", \h66, \h89>>>>)
  \o Rows(T3A, "VWIb", <<<<"vgetmantps", \h66, \h26>>, <<"vgetmantpd", \h66, \h26>>, <<"vgetmantss", \h66, \h27>>,
       <<"vgetmantsd", \h66, \h27>>, <<"vrndscaleps", \h66, \h08>>, <<"vrndscalepd", \h66, \h09>>,
       <<"vrndscaless", \h66, \h0A>>, <<"vrndscalesd", \h66, \h0B>>, <<"vfpclassps", \h66, \h66>>,
       <<"vfpclasspd", \h66, \h66>>, <<"vfpclassss", \h66, \h67>>, <<"vfpclasssd", \h66, \h67>>>>)
  \o W0(Rows(T38, "VW", <<<<"vpconflictd", \h66, \hC4>>, <<"vplzcntd", \h66, \h44>>>>))
  \o W1(Rows(T38, "VW", <<<<"vpconflictq", \h66, \hC4>>, <<"vplzcntq", \h66, \h44>>>>))
  \o OnlyReg(Rows(Two, "VW", <<<<"kaddb", \h66, \h4A>>, <<"kaddd", \h66, \h4A>>, <<"kaddq", 0, \h4A>>,
       <<"kaddw", 0, \h4A>>, <<"kandb", \h66, \h41>>, <<"kandnb", \h66, \h42>>, <<"kandnd", \h66, \h42>>,
       <<"kandnq", 0, \h42>>, <<"korb", \h66, \h45>>, <<"kxorb", \h66, \h47>>, <<"kxnorb", \h66, \h46>>,
       <<"kxnorw", 0, \h46>>, <<"kxnord", \h66, \h46>>, <<"kxnorq", 0, \h46>>, <<"knotb", \h66, \h44>>,
       <<"kortestb", \h66, \h98>>, <<"ktestb", \h66, \h99>>, <<"ktestw", 0, \h99>>, <<"ktestd", \h66, \h99>>,
       <<"ktestq", 0, \h99>>>>))
  \o OnlyReg(Rows(T3A, "VWIb", <<<<"kshiftlb", \h66, \h32>>, <<"kshiftld", \h66, \h33>>,
       <<"kshiftlq", \h66, \h33>>, <<"kshiftrb", \h66, \h30>>, <<"kshiftrd", \h66, \h31>>,
       <<"kshiftrq", \h66, \h31>>>>))
  \o OnlyMem(RowsX(T38, "M", <<<<"ldtilecfg", 0, \h49, 0>>>>))

\* The tile, mask-move, conversion, broadcast and gather instructions.
LateRows ==
     OnlyMem(RowsX(T38, "M", <<<<"sttilecfg", \h66, \h49, 0>>>>))
  \o OnlyMem(Rows(T38, "VM", <<<<"tileloadd", \hF2, \h4B>>, <<"tileloaddt1", \h66, \h4B>>,
       <<"vbroadcastf32x2", \h66, \h19>>, <<"vbroadcastf32x4", \h66, \h1A>>, <<"vbroadcastf32x8", \h66, \h1B>>,
       <<"vbroadcastf64x2", \h66, \h1A>>, <<"vbroadcastf64x4", \h66, \h1B>>, <<"vbroadcasti32x2", \h66, \h59>>,
       <<"vbroadcasti32x4", \h66, \h5A>>, <<"vbroadcasti32x8", \h66, \h5B>>, <<"vbroadcasti64x2", \h66, \h5A>>,
       <<"vbroadcasti64x4", \h66, \h5B>>, <<"vcvtneebf162ps", 0, \hB0>>, <<"vcvtneobf162ps", \hF3, \hB0>>,
       <<"vcvtneeph2ps", \h66, \hB0>>, <<"vcvtneoph2ps", \hF2, \hB0>>>>))
  \o OnlyMem(Rows(T38, "MV", <<<<"tilestored", \hF3, \h4B>>>>))
  \o OnlyReg(Rows(T38, "V", <<<<"tilezero", \hF2, \h49>>>>))
  \o OnlyReg(RowsX(T38, "Nil", <<<<"tilerelease", 0, \h49, 0>>>>))
  \o OnlyReg(Rows(T38, "VHW", <<<<"tdpbf16ps", \hF3, \h5C>>, <<"tdpbssd", \hF2, \h5E>>, <<"tdpbsud", \hF3, \h5E>>,
       <<"tdpbusd", \h66, \h5E>>, <<"tdpbuud", 0, \h5E>>, <<"tdpfp16ps", \hF2, \h5C>>>>))
  \o Rows(Two, "VW", <<<<"vmovdqa32", \h66, \h6F>>, <<"vmovdqa64", \h66, \h6F>>, <<"vmovdqu8", \hF3, \h6F>>,
       <<"vmovdqu16", \hF3, \h6F>>, <<"vmovdqu32", \hF3, \h6F>>, <<"vmovdqu64", \hF3, \h6F>>,
       <<"vcvtps2udq", 0, \h79>>, <<"vcvtpd2udq", 0, \h79>>, <<"vcvttps2udq", 0, \h78>>,
       <<"vcvttpd2udq", 0, \h78>>, <<"vcvtudq2ps", \hF2, \h7A>>, <<"vcvtudq2pd", \hF3, \h7A>>,
       <<"vcvtqq2ps", 0, \h5B>>, <<"vcvtqq2pd", \hF3, \hE6>>, <<"vcvtuqq2ps", \hF2, \h7A>>,
       <<"vcvtuqq2pd", \hF3, \h7A>>, <<"vcvttps2qq", \h66, \h7A>>, <<"vcvttpd2qq", \h66, \h7A>>>>)
  \o Rows(Two, "VHE", <<<<"vcvtusi2ss", \hF3, \h7B>>, <<"vcvtusi2sd", \hF2, \h7B>>>>)
  \o Rows(Two, "GW", <<<<"vcvtss2usi", \hF3, \h79>>, <<"vcvtsd2usi", \hF2, \h79>>, <<"vcvttss2usi", \hF3, \h78>>,
       <<"vcvttsd2usi", \hF2, \h78>>>>)
  \o Rows(T3A, "VHWIb", <<<<"vinsertf32x4", \h66, \h18>>, <<"vinsertf64x2", \h66, \h18>>,
       <<"vinserti32x4", \h66, \h38>>, <<"vinserti64x2", \h66, \h38>>, <<"vinsertf32x8", \h66, \h1A>>,
       <<"vinsertf64x4", \h66, \h1A>>, <<"vinserti32x8", \h66, \h3A>>, <<"vinserti64x4", \h66, \h3A>>>>)
  \o Rows(T3A, "WVIb", <<<<"vextractf32x4", \h66, \h19>>, <<"vextractf64x2", \h66, \h19>>,
       <<"vextracti32x4", \h66, \h39>>, <<"vextracti64x2", \h66, \h39>>, <<"vextractf32x8", \h66, \h1B>>,
       <<"vextractf64x4", \h66, \h1B>>, <<"vextracti32x8", \h66, \h3B>>, <<"vextracti64x4", \h66, \h3B>>>>)
  \o Rows(Two, "VW", <<<<"vcvtps2qq", \h66, \h7B>>, <<"vcvtpd2qq", \h66, \h7B>>, <<"vcvtps2uqq", \h66, \h79>>,
       <<"vcvtpd2uqq", \h66, \h79>>, <<"vcvttps2uqq", \h66, \h78>>, <<"vcvttpd2uqq", \h66, \h78>>>>)
  \o Rows(T38, "VW", <<<<"vcvtneps2bf16", \hF3, \h72>>>>)
  \o OnlyMem(Rows(T38, "VHM", <<<<"vmaskmovps", \h66, \h2C>>, <<"vmaskmovpd", \h66, \h2D>>>>))
  \o OnlyMem(Rows(T38, "MHV", <<<<"vmaskmovps", \h66, \h2E>>, <<"vmaskmovpd", \h66, \h2F>>>>))
  \o OnlyReg(Rows(Two, "VW", <<<<"insertq", \hF2, \h79>>, <<"extrq", \h66, \h79>>>>))
  \o W0(OnlyMem(Rows(T38, "VMH", <<<<"vgatherdps", \h66, \h92>>, <<"vgatherqps", \h66, \h93>>,
       <<"vpgatherdd", \h66, \h90>>, <<"vpgatherqd", \h66, \h91>>>>)))
  \o W1(OnlyMem(Rows(T38, "VMH", <<<<"vgatherdpd", \h66, \h92>>, <<"vgatherqpd", \h66, \h93>>,
       <<"vpgatherdq", \h66, \h90>>, <<"vpgatherqq", \h66, \h91>>>>)))

----------------------------------------------------------------------------
(* The opcode map *)

Table ==
    OneByteArithmetic \o OneByteMoves \o OneByteShiftsAndX87Loads \o X87Rows
    \o OneByteGroups \o TwoByteSystem \o ThreeByteRows \o TwoByteVectorArithmetic
    \o TwoByteConditions \o TwoByteIntegerVectors \o FmaAndBmiRows \o Avx512Rows \o LateRows

\* The rows filed under an opcode, in the order the chain of the slot visits them.
OpcodeMap == [map \in {One, Two, T38, T3A} |-> [b \in 0..255 |->
                 SelectSeq(Table, LAMBDA r : r.map = map /\ r.b = b)]]
=============================================================================

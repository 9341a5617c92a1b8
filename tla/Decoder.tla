-------------------------------- MODULE Decoder --------------------------------
(***************************************************************************)
(* The decoder (src/lib/core/decode.cpp), the operands of a decoded        *)
(* instruction (src/lib/core/instruction.cpp) and the encoder that turns   *)
(* it back into bytes (src/lib/core/encode.cpp).                           *)
(*                                                                         *)
(* Code is a sequence of bytes.  Registers are numbers in a class; the     *)
(* widths of operands and their implied members are left out.  Of an       *)
(* eight-byte immediate or address the low four bytes are kept: the        *)
(* programs checked here use no larger values.                             *)
(***************************************************************************)
EXTENDS OpcodeTable, FiniteSets

Bit(b, k) == (b \div 2^k) % 2
Bits(b, k, n) == (b \div 2^k) % 2^n
Flip(bit) == 1 - bit

\* The byte at an offset of the code; what lies past the end is caught by the length.
At(c, i) == IF i < Len(c) THEN c[i + 1] ELSE 0

Signed8(b) == IF b >= 128 THEN b - 256 ELSE b

\* The little-endian value of n bytes, sign-extended, and the bytes of a value.
Value(c, i, n) ==
    CASE n = 0 -> 0
      [] n = 1 -> Signed8(At(c, i))
      [] n = 2 -> At(c, i) + 256 * Signed8(At(c, i + 1))
      [] OTHER -> At(c, i) + 256 * At(c, i + 1) + 65536 * At(c, i + 2)
                  + 16777216 * Signed8(At(c, i + 3))

Little(v, n) ==
    [k \in 1..n |-> IF k > 4 THEN (IF v < 0 THEN 255 ELSE 0) ELSE (v \div 256^(k - 1)) % 256]

----------------------------------------------------------------------------
(* Prefixes *)

LegacyPrefixes == {\hF0, \hF2, \hF3, \h2E, \h36, \h3E, \h26, \h64, \h65, \h66, \h67}

\* How many legacy prefixes the code starts with, and the four that are kept.
PrefixCount(c) ==
    CHOOSE k \in 0..Len(c) : /\ k = Len(c) \/ c[k + 1] \notin LegacyPrefixes
                             /\ \A j \in 1..k : c[j] \in LegacyPrefixes
Kept(c) == SubSeq(c, 1, IF PrefixCount(c) > 4 THEN 4 ELSE PrefixCount(c))
HasPrefix(c, p) == \E j \in 1..PrefixCount(c) : c[j] = p

NoOpcode == \hFF
MapOf(mmm) == IF mmm = 1 THEN Two ELSE IF mmm = 2 THEN T38 ELSE T3A
PrefixOf(pp) == CASE pp = 0 -> NoPrefix [] pp = 1 -> \h66 [] pp = 2 -> \hF3 [] pp = 3 -> \hF2

(* What precedes the ModRM byte: the kind of encoding, the opcode map and
   byte, the third opcode byte if there is one, the REX bits (of a REX
   prefix, or assembled from a VEX one), and where the header ends.         *)
PlainHeader(c, i) ==
    LET rex == IF Bits(At(c, i), 4, 4) = 4 THEN 1 ELSE 0
        two == At(c, i + rex) = \h0F
        second == At(c, i + rex + 1)
        third == two /\ second \in {\h38, \h3A}
    IN  [kind |-> "plain", rex |-> IF rex = 1 THEN At(c, i) ELSE 0,
         map |-> IF ~two THEN One ELSE IF ~third THEN Two ELSE IF second = \h38 THEN T38 ELSE T3A,
         b |-> IF two THEN second ELSE At(c, i + rex),
         third |-> IF third THEN At(c, i + rex + 2) ELSE NoOpcode,
         pp |-> NoPrefix, vvvv |-> 0, L |-> 0, W |-> 0, mask |-> 0, high |-> 0, ok |-> TRUE,
         end |-> i + rex + (IF third THEN 3 ELSE IF two THEN 2 ELSE 1)]

VectorHeader(kind, map, b, rex, vbyte, i) ==
    [kind |-> kind, rex |-> 64 + rex + 8 * (IF kind = "vex2" THEN 0 ELSE Bit(vbyte, 7)),
     map |-> map, b |-> b, third |-> IF map \in {T38, T3A} THEN b ELSE NoOpcode,
     pp |-> PrefixOf(vbyte % 4), vvvv |-> 15 - Bits(vbyte, 3, 4), L |-> Bit(vbyte, 2),
     W |-> IF kind = "vex2" THEN 0 ELSE Bit(vbyte, 7), mask |-> 0, high |-> 0, ok |-> TRUE, end |-> i]

RXB(b) == 4 * Flip(Bit(b, 7)) + 2 * Flip(Bit(b, 6)) + Flip(Bit(b, 5))

Vex2Header(c, i) ==
    LET h == VectorHeader("vex2", Two, At(c, i + 2), 4 * Flip(Bit(At(c, i + 1), 7)), At(c, i + 1), i + 3)
    IN  [h EXCEPT !.rex = IF Bit(At(c, i + 1), 7) = 1 THEN 0 ELSE @]

Vex3Header(c, i) ==
    LET mmmmm == Bits(At(c, i + 1), 0, 5)
        h == VectorHeader("vex", MapOf(mmmmm), At(c, i + 3), RXB(At(c, i + 1)), At(c, i + 2), i + 4)
    IN  [h EXCEPT !.ok = mmmmm \in 1..3]

EvexHeader(c, i) ==
    LET mmm == Bits(At(c, i + 1), 0, 3)
        p2 == At(c, i + 3)
        h == VectorHeader("evex", MapOf(mmm), At(c, i + 4), RXB(At(c, i + 1)), At(c, i + 2), i + 5)
    IN  [h EXCEPT !.ok = mmm \in 1..3, !.vvvv = @ + 16 * Flip(Bit(p2, 3)),
                  !.L = Bits(p2, 5, 2), !.mask = p2 - 8 * Bit(p2, 3) - 32 * Bits(p2, 5, 2)]

\* high holds the bits B4, X4 and R4 of a REX2 prefix.
Rex2Header(c, i) ==
    LET payload == At(c, i + 1)
    IN  [PlainHeader(<<>>, 0) EXCEPT
            !.kind = "rex2", !.rex = 64 + (payload % 16), !.high = Bits(payload, 4, 3),
            !.map = IF Bit(payload, 7) = 1 THEN Two ELSE One, !.b = At(c, i + 2), !.end = i + 3]

Header(c) ==
    LET i == PrefixCount(c)
        first == At(c, i)
    IN  CASE first = \h62 -> EvexHeader(c, i)
          [] first = \hC5 -> Vex2Header(c, i)
          [] first = \hC4 -> Vex3Header(c, i)
          [] first = \hD5 -> Rex2Header(c, i)
          [] OTHER -> PlainHeader(c, i)

IsVector(h) == h.kind \in {"vex2", "vex", "evex"}

MandatoryPrefix(c, h) ==
    IF IsVector(h) THEN h.pp
    ELSE IF HasPrefix(c, \hF2) THEN \hF2
    ELSE IF HasPrefix(c, \hF3) THEN \hF3
    ELSE IF HasPrefix(c, \h66) THEN \h66 ELSE NoPrefix

----------------------------------------------------------------------------
(* The table lookup *)

Operands(r) == {r.o[i] : i \in DOMAIN r.o}
HasOpcodeReg(r) == "Z" \in Operands(r)
HasVexOperand(r) == Operands(r) \cap {"B", "H"} # {}

ModCompatible(r, mod) ==
    IF mod = 3 THEN r.f # 1 /\ "M" \notin Operands(r)
    ELSE r.f # -1 /\ Operands(r) \cap {"R", "U", "N"} = {}

\* Names that start with k, and the conversions to and from unsigned numbers.
MaskRows == {"kaddb", "kaddd", "kaddq", "kaddw", "kandb", "kandnb", "kandnd", "kandnq", "knotb",
    "korb", "kortestb", "kshiftlb", "kshiftld", "kshiftlq", "kshiftrb", "kshiftrd", "kshiftrq",
    "ktestb", "ktestd", "ktestq", "ktestw", "kxnorb", "kxnord", "kxnorq", "kxnorw", "kxorb"}
UnsignedRows == {"vcvtps2uqq", "vcvtpd2uqq", "vcvtsd2usi", "vcvtss2usi", "vcvttsd2usi", "vcvttss2usi",
    "vcvtps2udq", "vcvtpd2udq", "vcvtusi2sd", "vcvtusi2ss", "vcvtudq2pd", "vcvtudq2ps", "vcvtuqq2pd",
    "vcvtuqq2ps", "vcvttps2uqq", "vcvttpd2uqq", "vcvttps2udq", "vcvttpd2udq"}
ScaleRows == {"vscalefps", "vscalefpd", "vscalefss", "vscalefsd",
              "vgetexpps", "vgetexppd", "vgetexpss", "vgetexpsd"}

EncodingFits(r, h) ==
    /\ r.w # 0 /\ IsVector(h) => r.w = (IF h.W = 1 THEN 1 ELSE -1)
    /\ ~IsVector(h) => ~HasVexOperand(r) /\ r.n \notin MaskRows \cup UnsignedRows
    /\ h.kind \in {"vex2", "vex"} => r.n \notin UnsignedRows \cup ScaleRows

(* The rows one call of lookup considers, the preferred one first: under
   EVEX a row with the prefix and a VEX operand, a row with the prefix, a
   row without one, and failing these the rows of the base opcode whose low
   bits name a register.                                                    *)
Candidates(chains, h, p, reg, sec, mod) ==
    LET slot == chains[IF h.map \in {T38, T3A} THEN sec ELSE h.b]
        base == chains[8 * (h.b \div 8)]
        fits == SelectSeq(slot, LAMBDA r : /\ r.x \in {Free, reg} /\ r.s \in {Free, sec}
                                           /\ ModCompatible(r, mod) /\ EncodingFits(r, h))
        With(rows, q) == SelectSeq(rows, LAMBDA r : r.p = q)
        named == SelectSeq(base, HasOpcodeReg)
    IN  (IF h.kind = "evex" THEN SelectSeq(With(fits, p), HasVexOperand) ELSE <<>>)
        \o With(fits, p) \o With(fits, NoPrefix)
        \o (IF h.map \in {One, Two} THEN With(named, p) \o With(named, NoPrefix) ELSE <<>>)

\* The three tries of decode: as read, without the second opcode, without the prefix.
Tries(chains, h, p, modrm) ==
    LET sec == IF h.third # NoOpcode THEN h.third
               ELSE IF Bits(modrm, 6, 2) = 3 THEN modrm ELSE NoOpcode
        Try(q, s) == Candidates(chains, h, q, Bits(modrm, 3, 3), s, Bits(modrm, 6, 2))
    IN  Try(p, sec) \o Try(p, NoOpcode) \o Try(NoPrefix, NoOpcode)

Lookup(c, h) == Tries(OpcodeMap[h.map], h, MandatoryPrefix(c, h), At(c, h.end))

----------------------------------------------------------------------------
(* Decoding *)

ImmediateLetters == {"Ib", "Iw", "Iz", "Iv", "Jb", "Jz", "Jd"}
ImmSize(o, narrow, wide) ==
    CASE o \in {"Ib", "Jb"} -> 1
      [] o = "Iw" -> 2
      [] o = "Jd" -> 4
      [] o = "Iv" -> IF wide THEN 8 ELSE IF narrow THEN 2 ELSE 4
      [] o \in {"Iz", "Jz"} -> IF narrow THEN 2 ELSE 4

HasSib(modrm) == Bits(modrm, 6, 2) # 3 /\ modrm % 8 = 4
DispSize(modrm, sib) ==
    CASE Bits(modrm, 6, 2) = 0 -> IF modrm % 8 = 5 \/ (modrm % 8 = 4 /\ sib % 8 = 5) THEN 4 ELSE 0
      [] Bits(modrm, 6, 2) = 1 -> 1
      [] Bits(modrm, 6, 2) = 2 -> 4
      [] Bits(modrm, 6, 2) = 3 -> 0

Undecodable == [len |-> 0]

(* The decoded instruction: its row, header and kept prefixes, the bytes and
   values that follow, and its length.  The second immediate of a row goes
   to the displacement, and an instruction of the map 0F 3A takes a trailing
   byte for an immediate even if its row has none.                          *)
DecodeAs(c, h, r) ==
    LET modrm == IF r.m THEN At(c, h.end) ELSE 0
        sibAt == h.end + 1
        sib == IF r.m /\ HasSib(modrm) THEN At(c, sibAt) ELSE 0
        dispAt == IF ~r.m THEN h.end ELSE IF HasSib(modrm) THEN sibAt + 1 ELSE sibAt
        dispSize == IF r.m THEN DispSize(modrm, sib) ELSE 0
        immAt == dispAt + dispSize
        Size(o) == ImmSize(o, HasPrefix(c, \h66) \/ h.pp = \h66, Bit(h.rex, 3) = 1)
        imms == SelectSeq(r.o, LAMBDA o : o \in ImmediateLetters)
        size1 == IF imms = <<>> THEN 0 ELSE Size(imms[1])
        size2 == IF Len(imms) < 2 THEN 0 ELSE Size(imms[2])
        offsetAt == immAt + size1 + size2
        end == offsetAt + (IF "O" \in Operands(r) THEN 8 ELSE 0)
        trailing == h.map = T3A /\ imms = <<>> /\ end < Len(c)
        length == end + (IF trailing THEN 1 ELSE 0)
    IN  IF length > Len(c) THEN Undecodable
        ELSE [len |-> length, row |-> r, h |-> h, kept |-> Kept(c), modrm |-> modrm, sib |-> sib,
              disp |-> IF "O" \in Operands(r) THEN Value(c, offsetAt, 8)
                       ELSE IF size2 # 0 THEN Value(c, immAt + size1, size2) ELSE Value(c, dispAt, dispSize),
              imm |-> IF trailing THEN Value(c, end, 1) ELSE Value(c, immAt, size1)]

DecodeFirst(c, h, found) == IF found = <<>> THEN Undecodable ELSE DecodeAs(c, h, Head(found))
DecodeAfter(c, h) ==
    IF ~h.ok \/ h.end > Len(c) THEN Undecodable ELSE DecodeFirst(c, h, Lookup(c, h))
Decode(c) == DecodeAfter(c, Header(c))

Decoded(d) == d.len # 0

----------------------------------------------------------------------------
(* The operands *)

NoReg == -1
MemOperand(base, index, scale, disp, rip) == <<"mem", base, index, scale, disp, rip>>

\* A memory operand; b and x are the bits that extend base and index (MMX rows pass 0).
MemoryOf(d, b, x) ==
    LET mod == Bits(d.modrm, 6, 2)
        rm == d.modrm % 8
        index == Bits(d.sib, 3, 3) + 8 * x
    IN  IF rm = 4
        THEN MemOperand(IF d.sib % 8 = 5 /\ mod = 0 THEN NoReg ELSE (d.sib % 8) + 8 * b,
                        IF index = 4 THEN NoReg ELSE index, 2^Bits(d.sib, 6, 2), d.disp, FALSE)
        ELSE IF rm = 5 /\ mod = 0 THEN MemOperand(NoReg, NoReg, 1, d.disp, TRUE)
        ELSE MemOperand(rm + 8 * b, NoReg, 1, d.disp, FALSE)

RmOf(d, class, b, x) ==
    IF Bits(d.modrm, 6, 2) = 3 THEN <<class, (d.modrm % 8) + 8 * b>> ELSE MemoryOf(d, b, x)

OperandOf(d, o) ==
    LET reg == Bits(d.modrm, 3, 3)
        B == Bit(d.h.rex, 0)
        X == Bit(d.h.rex, 1)
        R == Bit(d.h.rex, 2)
    IN  CASE o \in {"E", "M", "R"} -> RmOf(d, "gpr", B, X)
          [] o \in {"W", "U"} -> RmOf(d, "xmm", B, X)
          [] o = "Q" -> RmOf(d, "mmx", 0, 0)
          [] o = "G" -> <<"gpr", reg + 8 * R>>
          [] o = "V" -> <<"xmm", reg + 8 * R>>
          [] o = "C" -> <<"control", reg + 8 * R>>
          [] o = "D" -> <<"debug", reg + 8 * R>>
          [] o \in {"P", "N"} -> <<"mmx", reg>>
          [] o = "Z" -> <<"gpr", (d.h.b % 8) + 8 * B>>
          [] o = "B" -> <<"gpr", d.h.vvvv % 16>>
          [] o = "H" -> <<"xmm", d.h.vvvv % 16>>
          [] o \in {"Ib", "Iw", "Iz", "Iv"} -> <<"imm", d.imm>>
          [] o \in {"Jb", "Jz", "Jd"} -> <<"rel", d.imm>>
          [] o = "O" -> MemOperand(NoReg, NoReg, 1, d.imm, FALSE)

OperandsOf(d) == [i \in DOMAIN d.row.o |-> OperandOf(d, d.row.o[i])]

----------------------------------------------------------------------------
(* Encoding a decoded instruction *)

PPOf(p) == CASE p = NoPrefix -> 0 [] p = \h66 -> 1 [] p = \hF3 -> 2 [] p = \hF2 -> 3
UnRXB(rex) == 128 * Flip(Bit(rex, 2)) + 64 * Flip(Bit(rex, 1)) + 32 * Flip(Bit(rex, 0))

\* Slip: without them.
OpcodeOf_Row(d) == d.row.b
\* The opcode of the row; the low bits of the decoded one where they name a register.
OpcodeOf(d) == d.row.b + (IF HasOpcodeReg(d.row) THEN d.h.b % 8 ELSE 0)

EncodeVector(d) ==
    LET h == d.h
        mmm == d.row.map
        low == 8 * (15 - (h.vvvv % 16)) + PPOf(d.row.p)
    IN  SelectSeq(d.kept, LAMBDA p : p \notin {\h66, \hF2, \hF3})
        \o (IF h.kind = "evex"
            THEN <<\h62, UnRXB(h.rex) + 16 + mmm, 128 * h.W + low + 4,
                   h.mask + 32 * h.L + (IF h.vvvv >= 16 THEN 0 ELSE 8)>>
            ELSE IF mmm = Two /\ Bits(h.rex, 0, 2) = 0 /\ h.W = 0
            THEN <<\hC5, 128 * Flip(Bit(h.rex, 2)) + low + 4 * h.L>>
            ELSE <<\hC4, UnRXB(h.rex) + mmm, 128 * h.W + low + 4 * h.L>>)
        \o <<OpcodeOf(d)>>

EncodePlain(d) ==
    LET h == d.h
        kept == {d.kept[i] : i \in DOMAIN d.kept}
    IN  d.kept
        \o (IF d.row.p # NoPrefix /\ d.row.p \notin kept THEN <<d.row.p>> ELSE <<>>)
        \o (IF h.kind = "rex2"
            THEN <<\hD5, 16 * h.high + (h.rex % 16) + (IF d.row.map = One THEN 0 ELSE 128)>>
            ELSE IF h.rex # 0 THEN <<h.rex>> ELSE <<>>)
        \o (CASE d.row.map = One -> <<>>
              [] d.row.map = Two -> <<\h0F>>
              [] d.row.map = T38 -> <<\h0F, \h38>>
              [] d.row.map = T3A -> <<\h0F, \h3A>>)
        \o <<OpcodeOf(d)>>

\* Only the first immediate is written, and the trailing byte of 0F 3A only if it is not zero.
Encode(d) ==
    LET kept == {d.kept[i] : i \in DOMAIN d.kept}
        values == SelectSeq(d.row.o, LAMBDA o : o \in ImmediateLetters \cup {"O"})
        Size(o) == ImmSize(o, \h66 \in kept, Bit(d.h.rex, 3) = 1)
    IN  (IF IsVector(d.h) THEN EncodeVector(d) ELSE EncodePlain(d))
        \o (IF d.row.m
            THEN <<d.modrm>> \o (IF HasSib(d.modrm) THEN <<d.sib>> ELSE <<>>)
                 \o Little(d.disp, DispSize(d.modrm, d.sib))
            ELSE <<>>)
        \o (IF values = <<>> THEN <<>>
            ELSE IF values[1] = "O" THEN Little(d.disp, 8) ELSE Little(d.imm, Size(values[1])))
        \o (IF d.row.map = T3A /\ d.imm # 0 /\ ~(Operands(d.row) \cap {"Ib", "Iw", "Iz", "Iv"} # {})
            THEN Little(d.imm, 1) ELSE <<>>)
=============================================================================

------------------------------- MODULE Assembler -------------------------------
(***************************************************************************)
(* The text assembler (src/lib/assembler/assembler.cpp): what it makes of  *)
(* one line, by way of the code generator's methods, and of a block of     *)
(* lines with labels in two passes.                                        *)
(*                                                                         *)
(* Text is taken as read.  A statement is a label, an align, or a line     *)
(* with a prefix, a count of times (Once without one), a mnemonic and its  *)
(* operands.  An operand is an argument of the code generator or, where    *)
(* parse_operand finds none, a name.  Equates, comments, strings, opmasks  *)
(* and zmm registers are left out.                                         *)
(***************************************************************************)
EXTENDS CodeGen, TLC
LOCAL INSTANCE SequencesExt

Once == -1
LabelLine(name) == [is |-> "label", name |-> name]
AlignLine(to) == [is |-> "align", to |-> to]
Line(m, ops) == [is |-> "line", prefix |-> "", times |-> Once, m |-> m, ops |-> ops]

Failed == [ok |-> FALSE]
Bytes(b) == [ok |-> TRUE, bytes |-> b]

----------------------------------------------------------------------------
(* One instruction *)

Kinds(args) == [k \in DOMAIN args |-> args[k][1]]
ClassesOf(f) == [k \in DOMAIN f.l.a |-> ClassOf[f.l.a[k]]]

\* The generated methods of the header come first, up to ret; a few of the others have arms as well.
Generated(forms) == 1 .. (CHOOSE i \in DOMAIN forms : forms[i].m = "ret" /\ \A j \in 1 .. i - 1 : forms[j].m # "ret") - 1
ByHand == {"movsx", "movzx", "xsave"}
NoOperands == {"ret", "int3", "nop", "cqo", "cdqe", "pushfq", "popfq", "leave", "xlat",
    "movsb", "movsw", "movsq", "stosb", "stosw", "stosd", "stosq", "lodsb", "lodsw", "lodsd", "lodsq",
    "cmpsb", "cmpsw", "cmpsq", "scasb", "scasw", "scasd", "scasq"}
HasArm(f, generated) ==
    \/ generated /\ f.l # MXIb /\ ~(f.l = XMIb /\ f.m \in {"pinsrb", "pinsrd", "pinsrw"})
    \/ f.m \in ByHand
    \/ f.m \in NoOperands /\ f.l.a = <<>>
\* The arms of asm_a, asm_b, ...: the methods by their names and the kinds of their operands.
ArmsAmong(forms, generated) ==
    LET arms == {i \in DOMAIN forms : HasArm(forms[i], i \in generated)}
    IN  [s \in {<<forms[i].m, ClassesOf(forms[i])>> : i \in arms} |->
            forms[CHOOSE i \in arms : s = <<forms[i].m, ClassesOf(forms[i])>>]]
ArmsOf(forms) == ArmsAmong(forms, Generated(forms))
Arms == ArmsOf(Methods)
ByArm(arms, m, ops) == IF <<m, Kinds(ops)>> \in DOMAIN arms THEN Bytes(BytesOf(arms[<<m, Kinds(ops)>>], ops)) ELSE Failed

\* The other names of conditions that are known here: all but those of the parity.
Spelled(m) ==
    IF m \in DOMAIN Aliases \ {"jpe", "jpo", "cmovpe", "cmovpo", "setpe", "setpo", "icebp", "jrcxz",
                               "jmp_rel8", "jmp_rel16", "jmp_rel32", "call_rel32"}
    THEN Aliases[m] ELSE m

Branches == ("jmp" :> <<\hE9>>) @@ ("call" :> <<\hE8>>)
            @@ [m \in ToSet(JccNames) |-> <<\h0F, 127 + (CHOOSE cc \in 1..16 : JccNames[cc] = m)>>]
Extensions == [rol |-> 0, ror |-> 1, rcl |-> 2, rcr |-> 3, shl |-> 4, shr |-> 5, sar |-> 7]

TwoRegisters(ops) == Kinds(ops) = <<"gpr", "gpr">>
REX(w, r, b) == 64 + 8 * w + 4 * r + b
Is64(reg) == IF BitsOf(reg) = 64 THEN 1 ELSE 0

\* xchg with the accumulator.
ExchangeBytes(a, b) ==
    LET other == IF RegId(a) = 0 THEN RegId(b) ELSE RegId(a)
        wide == IF 64 \in {BitsOf(a), BitsOf(b)} THEN 1 ELSE 0
    IN  (IF wide = 1 \/ other >= 8 THEN <<REX(wide, 0, High(other))>> ELSE <<>>) \o <<\h90 + Low3(other)>>
ShiftBytes(ext, r) ==
    (IF BitsOf(r) = 16 THEN P66 ELSE <<>>)
    \o (IF BitsOf(r) = 64 \/ RegId(r) >= 8 THEN <<REX(Is64(r), 0, High(RegId(r)))>> ELSE <<>>)
    \o <<IF BitsOf(r) = 8 THEN \hD2 ELSE \hD3, ModRMByte(3, ext, RegId(r))>>

\* Nothing but a branch takes one number: no arm does.
Distance(m, v) == IF m \in DOMAIN Branches THEN Bytes(Branches[m] \o Little(v, 4)) ELSE Failed

CL == <<"gpr", 1, 8>>
Instruction(m, ops) ==
    IF Kinds(ops) = <<"imm">> THEN Distance(m, ops[1][2])
    ELSE IF m = "xchg" /\ TwoRegisters(ops) /\ (\A k \in 1..2 : BitsOf(ops[k]) >= 32) /\ 0 \in {RegId(ops[1]), RegId(ops[2])}
    THEN Bytes(ExchangeBytes(ops[1], ops[2]))
    ELSE IF m \in {"movsxd", "movsx"} /\ TwoRegisters(ops) /\ BitsOf(ops[1]) = 64 /\ BitsOf(ops[2]) = 32
    THEN Bytes(<<REX(1, High(RegId(ops[1])), High(RegId(ops[2]))), \h63, ModRMByte(3, RegId(ops[1]), RegId(ops[2]))>>)
    ELSE IF m \in DOMAIN Extensions /\ TwoRegisters(ops) /\ ops[2] = CL
    THEN Bytes(ShiftBytes(Extensions[m], ops[1]))
    ELSE ByArm(Arms, m, ops)

Directives == [db |-> 1, dw |-> 2, dd |-> 4, dq |-> 8]
PrefixBytes == [lock |-> \hF0, rep |-> \hF3, repe |-> \hF3, repz |-> \hF3, repne |-> \hF2, repnz |-> \hF2]

\* A directive writes its values; a count repeats what its line gives.
Values(m, ops) ==
    IF ops = <<>> \/ (\E k \in DOMAIN ops : ops[k][1] # "imm") THEN Failed
    ELSE Bytes(FlattenSeq([k \in DOMAIN ops |-> Little(ops[k][2], Directives[m])]))
Prefixed(prefix, code) ==
    IF prefix = "" \/ ~code.ok THEN code ELSE Bytes(<<PrefixBytes[prefix]>> \o code.bytes)
Repeated(times, code) ==
    IF times = Once \/ ~code.ok THEN code ELSE Bytes(FlattenSeq([k \in 1..times |-> code.bytes]))

Single(line) ==
    IF \E k \in DOMAIN line.ops : line.ops[k][1] = "name" THEN Failed
    ELSE IF line.m \in DOMAIN Directives /\ line.prefix = "" THEN Values(line.m, line.ops)
    ELSE Prefixed(line.prefix, Instruction(Spelled(line.m), line.ops))
Assemble(line) == Repeated(line.times, Single(line))

----------------------------------------------------------------------------
(* A block *)

Padding(at, to) == [k \in 1 .. (-at) % to |-> \h90]

\* What is left of a line when its operands are replaced by one number.
With(line, v) ==
    IF line.prefix # "" \/ line.times # Once THEN Failed
    ELSE IF line.m \in DOMAIN Directives THEN Values(line.m, <<<<"imm", v>>>>)
    ELSE Distance(Spelled(line.m), v)

(* The first pass: where the labels are, taking each line that does not
   assemble for one that refers to a label, as long as it has operands.     *)
Placed(pass, bytes, line, open) ==
    [pass EXCEPT !.at = @ + Len(bytes), !.pieces = Append(@, [bytes |-> bytes, line |-> line, open |-> open])]
PlacedLine(pass, line, code, hole) ==
    IF code.ok THEN Placed(pass, code.bytes, line, FALSE)
    ELSE IF line.ops # <<>> /\ hole.ok THEN Placed(pass, hole.bytes, line, TRUE)
    ELSE [pass EXCEPT !.ok = FALSE]
Measure(pass, s) ==
    IF ~pass.ok THEN pass
    ELSE CASE s.is = "label" -> [pass EXCEPT !.labels = (s.name :> pass.at) @@ @]
           [] s.is = "align" -> Placed(pass, Padding(pass.at, s.to), s, FALSE)
           [] s.is = "line" -> PlacedLine(pass, s, Assemble(s), With(s, 0))
FirstPass(block) == FoldLeft(Measure, [ok |-> TRUE, at |-> 0, labels |-> <<>>, pieces |-> <<>>], block)

(* The second pass writes the distances to the labels that there are, from
   the end of what stood in for the line.                                   *)
Refers(p, places) == p.open /\ Len(p.line.ops) = 1 /\ p.line.ops[1] \in {<<"name", l>> : l \in DOMAIN places}
\* Slip: the distance is counted from the start of the line.
Fill_FromStart(places, at, p) ==
    IF Refers(p, places) THEN With(p.line, places[p.line.ops[1][2]] - at).bytes ELSE p.bytes
Fill(places, at, p) ==
    IF Refers(p, places) THEN With(p.line, places[p.line.ops[1][2]] - (at + Len(p.bytes))).bytes ELSE p.bytes
SecondPass(first) == FoldLeft(LAMBDA code, p : code \o Fill(first.labels, Len(code), p), <<>>, first.pieces)

HasLabels(block) == \E k \in DOMAIN block : block[k].is = "label"
Finished(first, labelled) ==
    IF ~first.ok \/ (~labelled /\ \E k \in DOMAIN first.pieces : first.pieces[k].open)
    THEN Failed ELSE Bytes(SecondPass(first))
AssembleBlock(block) == Finished(FirstPass(block), HasLabels(block))

----------------------------------------------------------------------------
(* The text of what the code generator's client asked for *)

TextOf(e) ==
    CASE e.kind = "data" -> Line(CHOOSE d \in DOMAIN Directives : Directives[d] = e.len, <<<<"imm", -1>>>>)
      [] e.kind = "hole" -> Line("dd", <<<<"imm", 0>>>>)
      [] e.kind = "nops" -> IF (e.at + e.len) % 128 = 0 THEN AlignLine(128)
                            ELSE [Line("nop", <<>>) EXCEPT !.times = e.len]
      [] e.kind = "jump" -> Line(e.what, <<<<"name", RegId(e.args[1])>>>>)
      [] OTHER ->
           Line(e.what, [k \in DOMAIN e.args |-> IF e.args[k][1] = "rel" THEN <<"imm", e.args[k][2]>> ELSE e.args[k]]
                        \o (IF e.what \in {"shl", "shr", "sar"} /\ Len(e.args) = 1 THEN <<CL>> ELSE <<>>))

LabelsAt(at) ==
    LET here == SelectSeq([k \in DOMAIN labels |-> k], LAMBDA k : labels[k].bound /\ labels[k].offset = at)
    IN  [j \in DOMAIN here |-> LabelLine(here[j])]
Text == FlattenSeq([k \in DOMAIN log |-> LabelsAt(log[k].at) \o <<TextOf(log[k])>>]) \o LabelsAt(Len(buf))

\* A branch is near in a text, one to a label needs a text that has one; xchg and movsx may have a shorter or another code.
HasText(e) ==
    /\ Kinds(e.args) \in {<<"rel">>, <<"label">>} => e.len >= 5
    /\ IF e.kind = "jump" THEN \E k \in DOMAIN labels : labels[k].bound
       ELSE e.what \notin {"xchg", "movsx"} /\ (e.kind = "nops" \/ Single(TextOf(e)).ok)

(* A program of instructions and labels, written down as text line by line,
   assembles to the bytes that the calls of the code generator gave: the two
   passes put every label where bind does, every jump reaches it, also over
   alignment and repeated lines, and one to a label that is nowhere is left
   with no distance, as the generator leaves it.                             *)
TextMeansCalls ==
    (\A k \in DOMAIN log : HasText(log[k])) => AssembleBlock(Text) = Bytes(buf)
=============================================================================

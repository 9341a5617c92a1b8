------------------------------- MODULE Analysis -------------------------------
(***************************************************************************)
(* What the library says about an instruction without running it: the      *)
(* rows of the semantics table (src/lib/semantics/semantics.cpp), the      *)
(* queries on them (src/include/vedx64/semantics.hpp) and the queries of   *)
(* src/include/vedx64/analysis.hpp.  Flag masks are sets of flag names.    *)
(* Instructions are those of EmuInt; what is said of operands is said of   *)
(* the operands the table's form gives, in their order.                    *)
(***************************************************************************)
EXTENDS EmuInt, SequencesExt

(* The flags read and written, and those the row calls undefined or forced. *)
Row(read, written, other) == [read |-> read, written |-> written, other |-> other]
NoFlags == Row({}, {}, {})

(* The flags a condition code tests, the same for a code and its negation. *)
ConditionFlags(cc) ==
    CASE cc \div 2 = 0 -> {"OF"}
      [] cc \div 2 = 1 -> {"CF"}
      [] cc \div 2 = 2 -> {"ZF"}
      [] cc \div 2 = 3 -> {"CF", "ZF"}
      [] cc \div 2 = 4 -> {"SF"}
      [] cc \div 2 = 5 -> {"PF"}
      [] cc \div 2 = 6 -> {"SF", "OF"}
      [] cc \div 2 = 7 -> {"ZF", "SF", "OF"}

----------------------------------------------------------------------------
(* The rows.  A mask 3B leaves out the auxiliary carry, 3E the carry, 1F the overflow. *)

ButAF == StatusFlags \ {"AF"}

\* Slip: one digit of the mask is wrong.
ButCF_1E == StatusFlags \ {"CF", "OF"}

ButCF == StatusFlags \ {"CF"}

one_byte_rows(i) ==
    CASE i.op \in {"ADD", "SUB", "CMP"} -> Row({}, StatusFlags, {})
      [] i.op \in {"ADC", "SBB"} -> Row({"CF"}, StatusFlags, {})
      [] i.op \in {"AND", "OR", "XOR", "TEST"} -> Row({}, ButAF, {"AF", "CF", "OF"})
      [] i.op = "IMUL3" -> Row({}, {"CF", "OF"}, StatusFlags \ {"CF", "OF"})
      [] i.op = "JCC" -> Row(ConditionFlags(i.cc), {}, {})
      [] OTHER -> NoFlags

shift_rows(i) ==
    CASE i.op \in {"ROL", "ROR"} -> Row({}, StatusFlags, {"OF"})
      [] i.op \in {"RCL", "RCR"} -> Row({"CF"}, StatusFlags, {"OF"})
      [] i.op \in {"SHL", "SHR"} -> Row({}, ButAF, {"CF", "AF", "OF"})
      [] i.op = "SAR" -> Row({}, ButAF, {"AF", "OF"})
      [] OTHER -> NoFlags

group_rows(i) ==
    CASE i.op \in {"LOOPE", "LOOPNE"} -> Row({"ZF"}, {}, {})
      [] i.op = "CMC" -> Row({"CF"}, {"CF"}, {})
      [] i.op = "NEG" -> Row({}, StatusFlags, {})
      [] i.op = "MUL" -> Row({}, {"CF", "OF"}, StatusFlags \ {"CF", "OF"})
      [] i.op \in {"DIV", "IDIV"} -> Row({}, {}, StatusFlags)
      [] i.op \in {"CLC", "STC"} -> Row({}, {"CF"}, {"CF"})
      [] i.op \in {"CLD", "STD"} -> Row({}, {"DF"}, {"DF"})
      [] i.op \in {"INC", "DEC"} -> Row({}, ButCF, {})
      [] OTHER -> NoFlags

cmov_rows(i) == IF i.op = "CMOV" THEN Row(ConditionFlags(i.cc), {}, {}) ELSE NoFlags
setcc_rows(i) == IF i.op = "SET" THEN Row(ConditionFlags(i.cc), {}, {}) ELSE NoFlags

(* POPCNT's row lists the flags it clears and not the one it computes. *)
two_byte_rows(i) ==
    CASE i.op \in {"BT", "BTS", "BTR", "BTC"} -> Row({}, {"CF"}, ButCF)
      [] i.op \in {"SHLD", "SHRD"} -> Row({}, ButAF, {"CF", "AF", "OF"})
      [] i.op = "IMUL2" -> Row({}, {"CF", "OF"}, StatusFlags \ {"CF", "OF"})
      [] i.op \in {"CMPXCHG", "XADD"} -> Row({}, StatusFlags, {})
      [] i.op = "POPCNT" -> Row({}, {}, StatusFlags \ {"ZF"})
      [] i.op \in {"BSF", "BSR"} -> Row({}, {"ZF"}, StatusFlags \ {"ZF"})
      [] i.op = "CMPXCHG8B" -> Row({}, {"ZF"}, {})
      [] OTHER -> NoFlags

(* An instruction has its row in one of them; the others say nothing of it. *)
get_semantics(i) ==
    LET rows == {one_byte_rows(i), shift_rows(i), group_rows(i), cmov_rows(i), setcc_rows(i), two_byte_rows(i)}
    IN  Row(UNION {r.read : r \in rows}, UNION {r.written : r \in rows}, UNION {r.other : r \in rows})

----------------------------------------------------------------------------
(* Queries of semantics.hpp *)

(* The one-operand test of MUL and IMUL never holds: their forms have three. *)
implicit_gpr_reads(i) ==
    CASE i.op \in {"DIV", "IDIV"} -> {RAX, RDX}
      [] i.op \in {"CWD", "CBW"} -> {RAX}
      [] OTHER -> {}

implicit_gpr_writes(i) ==
    CASE i.op \in {"DIV", "IDIV"} -> {RAX, RDX}
      [] i.op = "CWD" -> {RDX}
      [] i.op = "CBW" -> {RAX}
      [] OTHER -> {}

dead_flags(curr, next) ==
    /\ get_semantics(curr).written # {}
    /\ get_semantics(next).read \cap get_semantics(curr).written = {}
    /\ get_semantics(curr).written \subseteq get_semantics(next).written

----------------------------------------------------------------------------
(* Queries of analysis.hpp *)

(* The flags given here include the ones the manual leaves undefined.  {} is "no information". *)
sets_eflags(i) ==
    CASE i.op \in {"INC", "DEC"} -> ButCF
      [] i.op \in {"RCL", "RCR"} -> {"CF", "OF"}
      [] i.op \in {"BT", "BTS", "BTR", "BTC"} -> StatusFlags \ {"ZF"}
      [] i.op \in {"CLC", "STC", "CMC", "ADCX"} -> {"CF"}
      [] i.op = "ADOX" -> {"OF"}
      [] i.op \in {"CLD", "STD"} -> {"DF"}
      [] i.op \in {"ADD", "SUB", "ADC", "SBB", "CMP", "NEG", "MUL", "IMUL2", "IMUL3", "DIV", "IDIV", "AND",
                   "OR", "XOR", "TEST", "SHL", "SHR", "SAR", "ROL", "ROR", "SHLD", "SHRD", "BSF", "BSR",
                   "TZCNT", "LZCNT", "POPCNT", "ANDN", "BLSI", "BLSMSK", "BLSR"} -> StatusFlags
      [] OTHER -> {}

reads_eflags(i) ==
    CASE i.op \in {"JCC", "CMOV"} -> ConditionFlags(i.cc)
      [] i.op \in {"ADC", "SBB", "ADCX", "RCL", "RCR"} -> {"CF"}
      [] i.op = "ADOX" -> {"OF"}
      [] OTHER -> {}

(* Operands in the table's order; an operand the form leaves empty is dropped. *)
operands(i) ==
    CASE i.op \in {"PUSH", "JMP", "CALL"} -> <<i.src>>
      [] i.op \in {"POP", "INC", "DEC", "NEG", "NOT", "BSWAP", "SET"} -> <<i.dst>>
      [] i.op \in {"ADD", "ADC", "SUB", "SBB", "CMP", "AND", "OR", "XOR", "TEST", "MOV", "MOVZX", "MOVSX",
                   "LEA", "XCHG", "MOVBE", "XADD", "IMUL2", "IMUL3", "BT", "BTS", "BTR", "BTC", "BSF", "BSR",
                   "POPCNT", "TZCNT", "LZCNT", "BLSI", "BLSMSK", "BLSR", "RORX", "ADCX", "ADOX", "CMOV",
                   "SHLD", "SHRD"} -> <<i.dst, i.src>>
      [] i.op \in {"SHL", "SHR", "SAR", "ROL", "ROR", "RCL", "RCR", "CMPXCHG8B"} -> <<i.dst>>
      [] i.op = "CMPXCHG" -> <<i.dst, [k |-> "reg", v |-> RAX], i.third>>
      [] i.op \in {"ANDN", "SARX", "SHLX", "SHRX", "PDEP", "PEXT", "MUL", "DIV", "IDIV"} -> <<i.dst, i.src, i.third>>
      [] OTHER -> <<>>

modifies_reg(i, r) ==
    /\ operands(i) # <<>>
    /\ operands(i)[1].k = "reg" /\ operands(i)[1].v = r
    /\ i.op \notin {"CMP", "TEST"}

reads_reg(i, r) ==
    \E k \in DOMAIN operands(i) :
        /\ operands(i)[k].v = r
        /\ \/ operands(i)[k].k = "mem"
           \/ operands(i)[k].k = "reg" /\ ~(k = 1 /\ i.op \in {"MOV", "LEA", "MOVSX", "MOVZX", "POP"})

(* Back from the k-th instruction of a sequence: where the register got its value, and *)
(* which register held it there.  0 when nothing in the sequence defines it.           *)

\* Slip: a move is followed wherever it reads from.
Forwards_AnySource(i) == i.op \in {"MOV", "MOVZX", "MOVSX", "XCHG"}

Forwards(i) == /\ i.op \in {"MOV", "MOVZX", "MOVSX", "XCHG"}
               /\ operands(i)[2].k = "reg"
backward_chain(insns, last, reg) ==
    LET from[k \in 0..last] ==
            \* what is left to look at, after the instructions above k
            IF k = last THEN [at |-> last, reg |-> reg, found |-> FALSE]
            ELSE LET s == from[k + 1]  i == insns[s.at]
                 IN  IF s.found THEN s
                     ELSE IF ~modifies_reg(i, s.reg) THEN [s EXCEPT !.at = @ - 1]
                     ELSE IF Forwards(i) THEN [s EXCEPT !.at = @ - 1, !.reg = operands(i)[2].v]
                     ELSE [s EXCEPT !.found = TRUE]
    IN  [at |-> from[0].at, reg |-> from[0].reg]
===============================================================================

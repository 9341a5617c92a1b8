---------------------------- MODULE BranchResolve ----------------------------
(***************************************************************************)
(* Recognizing control transfers and following chains of jumps             *)
(* (src/lib/branch_resolve/branch_resolve.cpp): recognize looks at one to  *)
(* six instructions from an address, resolve_target follows from there the *)
(* jumps that only forward, recognize_all lists the transfers of a         *)
(* straight run of code.                                                   *)
(*                                                                         *)
(* Code and memory are discovered as they are read: a read of an address   *)
(* that was not read before finds anything, and the same from then on.  So *)
(* every program is covered, overlapping instructions included.            *)
(*                                                                         *)
(* An instruction is what the decoder and the tests on its row make of it: *)
(*   movi   r <- imm             size 1, 4 or 8    (MOV with an immediate) *)
(*   lea    r <- imm             size 4 or 8       (LEA relative to RIP)   *)
(*   load   r <- memory          size 4 or 8       (MOV from memory)       *)
(*   alu    r <- f(r, imm)       size 4 or 8       (ADD, SUB, ... SAR)     *)
(*   pushi, pushr, movsp4, ret   the parts of the push-and-return idioms   *)
(*   jmpr, callr                 through a register                        *)
(*   jmpm, callm                 through memory, near or far               *)
(*   jmp, jcc, loop, call        to a constant                             *)
(*   leave                       other transfers: returns, interrupts, ... *)
(*   other                       anything else                             *)
(* A word has two halves, as eight bytes have two times four.  A size of 1 *)
(* stands for two bytes as well; leave for RETF, IRET, direct far jumps,   *)
(* interrupts and system calls, which are never followed.                  *)
(***************************************************************************)
EXTENDS Integers, Sequences, FiniteSets

CONSTANTS
    HalfBits,         \* the bits of half a word
    Reg,              \* the registers
    Instr,            \* the instructions the code may consist of
    Pointers,         \* what memory may hold
    Entry,            \* the address that is asked about
    Options,          \* the Options a call may have
    max_transfers,    \* the argument of recognize_all
    MaxCode           \* bound: addresses with code

WordBits == 2 * HalfBits
PowerOfTwo[n \in 0 .. WordBits] == IF n = 0 THEN 1 ELSE 2 * PowerOfTwo[n - 1]
Half == PowerOfTwo[HalfBits]
Words == PowerOfTwo[WordBits]
Word == 0 .. Words - 1
NoInstr == [op |-> "none"]
Unknown == -1

Arith == {"add", "sub", "or", "xor", "and", "shl", "shr", "sar"}
Slots == [static : BOOLEAN, addr : Word, seg : BOOLEAN, far : BOOLEAN]
Instruction ==
    [op : {"movi", "lea"}, r : Reg, size : {1, 4, 8}, imm : Word, len : Nat]
    \cup [op : {"load"}, r : Reg, size : {4, 8}, slot : Slots, len : Nat]
    \cup [op : {"alu"}, f : Arith, r : Reg, size : {4, 8}, imm : Word, len : Nat]
    \cup [op : {"pushi", "movsp4", "jmp", "jcc", "loop", "call"}, imm : Word, len : Nat]
    \cup [op : {"pushr", "jmpr", "callr"}, r : Reg, len : Nat]
    \cup [op : {"jmpm", "callm"}, slot : Slots, len : Nat]
    \cup [op : {"leave"}, back : BOOLEAN, len : Nat]
    \cup [op : {"ret", "other"}, len : Nat]

ASSUME BranchResolveAssumption ==
    /\ HalfBits \in Nat \ {0} /\ Entry \in Word /\ Pointers \subseteq Word
    /\ Instr \subseteq Instruction
    /\ Options \subseteq [follow_memory : BOOLEAN, follow_chains : BOOLEAN, fold_arith : BOOLEAN,
                          max_chain_depth : Nat, max_idiom_insns : Nat]
    /\ max_transfers \in Nat \ {0}  \* with 0 nothing is looked at
    /\ MaxCode \in Nat

VARIABLE opt  \* the options of the call

Low(w) == w % Half
High(w) == w \div Half
Plus(a, b) == (a + b) % Words
BitAt(w, k) == (w \div PowerOfTwo[k]) % 2
Bit(f, a, b) ==
    CASE f = "or" -> a + b - a * b
      [] f = "xor" -> (a + b) % 2
      [] f = "and" -> a * b
BitByBit(f, a, b) ==
    LET Below[k \in 0 .. WordBits] ==
            IF k = 0 THEN 0
            ELSE Below[k - 1] + PowerOfTwo[k - 1] * Bit(f, BitAt(a, k - 1), BitAt(b, k - 1))
    IN  Below[WordBits]
SignedWord(w) == IF BitAt(w, WordBits - 1) = 1 THEN w - Words ELSE w

----------------------------------------------------------------------------
(* What is recognized *)

\* apply_arith: eight bytes wide, whatever the size of the instruction.
ApplyArith(f, v, imm) ==
    LET p == PowerOfTwo[imm % WordBits]
    IN  CASE f = "add" -> Plus(v, imm)
          [] f = "sub" -> (v - imm) % Words
          [] f \in {"or", "xor", "and"} -> BitByBit(f, v, imm)
          [] f = "shl" -> (v * p) % Words
          [] f = "shr" -> v \div p
          [] f = "sar" -> (SignedWord(v) \div p) % Words

More == [more |-> TRUE]

\* A BranchPattern: count instructions and length bytes; the address or the slot it leads to.
Pattern(effect, resolution, target, slot, size, count) ==
    [more |-> FALSE, valid |-> TRUE, effect |-> effect, resolution |-> resolution,
     target |-> target, slot |-> slot, size |-> size, count |-> count]
NoSlot == [static |-> FALSE, addr |-> 0]
Concrete(effect, target, count) == Pattern(effect, "Concrete", target, NoSlot, 8, count)
ByMemory(effect, slot, size, count) == Pattern(effect, "MemoryPointer", 0, slot, size, count)
ByRegister(effect, count) == Pattern(effect, "RegisterDynamic", 0, NoSlot, 8, count)
Invalid == [Pattern("None", "Unknown", 0, NoSlot, 8, 1) EXCEPT !.valid = FALSE]

CallOps == {"call", "callr", "callm"}
EffectOf(i) == IF i.op \in CallOps THEN "Call" ELSE IF i.op \in {"jcc", "loop"} THEN "ConditionalJump" ELSE "Jump"
Fallthrough(p) == p.effect \in {"Call", "ConditionalJump"} \/ p.resolution = "Passes"

\* The forms of one instruction.
Single(i) ==
    CASE i.op \in {"jmp", "jcc", "loop", "call"} -> Concrete(EffectOf(i), i.imm, 1)
      [] i.op \in {"jmpm", "callm"} -> ByMemory(EffectOf(i), i.slot, 8, 1)
      [] i.op \in {"jmpr", "callr"} -> ByRegister(EffectOf(i), 1)
      [] i.op = "leave" -> Pattern("Leaves", IF i.back THEN "Passes" ELSE "Unknown", 0, NoSlot, 8, 1)
      [] i.op = "ret" -> Pattern("Return", "StackDynamic", 0, NoSlot, 8, 1)
      [] OTHER -> Invalid

\* push imm; ret    and    push imm; mov [rsp+4], imm; ret
PushImm(s) ==
    CASE Len(s) = 1 \/ (Len(s) = 2 /\ s[2].op = "movsp4") -> More
      [] Len(s) = 2 /\ s[2].op = "ret" -> Concrete("Jump", s[1].imm, 2)
      [] Len(s) = 3 /\ s[3].op = "ret" -> Concrete("Jump", Low(s[1].imm) + Half * Low(s[2].imm), 3)
      [] OTHER -> Single(s[1])

PushReg(s) ==
    CASE Len(s) = 1 -> More
      [] Len(s) = 2 /\ s[2].op = "ret" -> ByRegister("Jump", 2)
      [] OTHER -> Single(s[1])

\* mov, lea or load of a register; arithmetic on it; a jump or call through it, or push and ret.
Loaded(i) == IF i.op = "movi" /\ i.size # 8 THEN Low(i.imm) ELSE i.imm
\* Slip: arithmetic on another register.
Folds_AnyRegister(o, i, r) == o.fold_arith /\ i.op = "alu"
Folds(o, i, r) == o.fold_arith /\ i.op = "alu" /\ i.r = r
Computed(s) ==
    LET Upto[k \in 1 .. Len(s)] ==
            IF k = 1 THEN Loaded(s[1])
            ELSE IF s[k].op = "alu" THEN ApplyArith(s[k].f, Upto[k - 1], s[k].imm) ELSE Upto[k - 1]
    IN  Upto[Len(s)]
Through(effect, s) ==
    IF s[1].op = "load" THEN ByMemory(effect, s[1].slot, s[1].size, Len(s))
    ELSE Concrete(effect, Computed(s), Len(s))
Scan(o, s) ==
    LET last == s[Len(s)]
        more == Len(s) < o.max_idiom_insns /\ Len(s) < 6
    IN  IF Len(s) = 1 THEN IF more THEN More ELSE Single(s[1])
        ELSE IF s[Len(s) - 1].op = "pushr"
        THEN IF last.op = "ret" THEN Through("Jump", s) ELSE Single(s[1])
        ELSE IF last.op \in {"jmpr", "callr"} /\ last.r = s[1].r THEN Through(EffectOf(last), s)
        ELSE IF \/ last.op = "pushr" /\ last.r = s[1].r
                \/ last.op = "alu" /\ s[1].op = "movi" /\ Folds(o, last, s[1].r) /\ more
             THEN More
        ELSE Single(s[1])

(* What recognize makes of the instructions s read so far: a pattern, or
   More if it reads another one.                                            *)
Recognize(o, s) ==
    CASE s[1].op = "pushi" -> PushImm(s)
      [] s[1].op = "pushr" -> PushReg(s)
      [] s[1].op \in {"movi", "lea", "load"} -> Scan(o, s)
      [] OTHER -> Single(s[1])

Length(s) ==
    LET Sum[k \in 0 .. Len(s)] == IF k = 0 THEN 0 ELSE Sum[k - 1] + s[k].len
    IN  Sum[Len(s)]

----------------------------------------------------------------------------
(* What the processor does (external): registers and the words pushed since
   the entry, Unknown where the past decides.                               *)

Known(v) == v # Unknown
Read(memory, slot) == IF slot.seg \/ ~slot.static THEN Unknown ELSE memory[slot.addr]
Popped(c) == IF c.stack = <<>> THEN [c EXCEPT !.pc = Unknown]
             ELSE [c EXCEPT !.pc = Head(c.stack), !.stack = Tail(c.stack)]
Pushed(c, v) == [c EXCEPT !.stack = <<v>> \o @]
Narrowed(size, v) == IF Known(v) /\ size = 4 THEN Low(v) ELSE v
Set(c, i, v) == [c EXCEPT !.regs[i.r] = IF i.size = 1 THEN Unknown ELSE Narrowed(i.size, v)]

\* A conditional branch is taken; a far pointer has an offset of half a word.
Execute(memory, c, i) ==
    LET on == [c EXCEPT !.pc = Plus(@, i.len)]
        back == IF i.op \in CallOps THEN Pushed(on, on.pc) ELSE on
    IN  CASE i.op \in {"movi", "lea"} -> Set(on, i, i.imm)
          [] i.op = "load" -> Set(on, i, Read(memory, i.slot))
          [] i.op = "alu" ->
                Set(on, i, IF Known(c.regs[i.r]) THEN ApplyArith(i.f, c.regs[i.r], i.imm) ELSE Unknown)
          [] i.op = "pushi" -> Pushed(on, i.imm)
          [] i.op = "pushr" -> Pushed(on, c.regs[i.r])
          [] i.op = "movsp4" ->
                [on EXCEPT !.stack = IF @ = <<>> THEN @
                    ELSE IF ~Known(Head(@)) THEN @
                    ELSE <<Low(Head(@)) + Half * Low(i.imm)>> \o Tail(@)]
          [] i.op = "ret" -> Popped(on)
          [] i.op \in {"jmp", "jcc", "loop", "call"} -> [back EXCEPT !.pc = i.imm]
          [] i.op \in {"jmpr", "callr"} -> [back EXCEPT !.pc = c.regs[i.r]]
          [] i.op \in {"jmpm", "callm"} ->
                [back EXCEPT !.pc = IF i.slot.far THEN Narrowed(4, Read(memory, i.slot)) ELSE Read(memory, i.slot)]

Run(memory, c, s) ==
    LET After[k \in 0 .. Len(s)] == IF k = 0 THEN c ELSE Execute(memory, After[k - 1], s[k])
    IN  After[Len(s)]

----------------------------------------------------------------------------
(* The calls *)

VARIABLES
    code,      \* the instructions read, by address; NoInstr where there is none
    mem,       \* the words read; Unknown where there is none
    pc,        \* "fetch": an instruction is read; "act": a pattern is known; "done"
    asked,     \* "one": recognize and resolve_target; "all": recognize_all
    at,        \* the address recognize was called with
    seen,      \* the instructions it has read
    final,     \* final_target, Unknown while it is not resolved
    depth,     \* chain_depth
    found,     \* the patterns of recognize_all: their addresses and numbers of instructions
    turns,     \* the turns of the loop of recognize_all
    cpu        \* history: the processor at final_target, having run from Entry

vars == <<opt, code, mem, pc, asked, at, seen, final, depth, found, turns, cpu>>

Init ==
    /\ opt \in Options /\ code = <<>> /\ mem = <<>> /\ pc = "fetch" /\ asked \in {"one", "all"}
    /\ at = Entry /\ seen = <<>> /\ final = Unknown /\ depth = 0 /\ found = <<>> /\ turns = 0
    /\ cpu = [pc |-> Entry, regs |-> [r \in Reg |-> Unknown], stack |-> <<>>]

\* What is known is v at a, and otherwise as it was.
Learn(known, a, v) == [x \in DOMAIN known \cup {a} |-> IF x = a THEN v ELSE known[x]]

\* fill_decode.
Readable(a) ==
    IF a \in DOMAIN code THEN {code[a]}
    ELSE {NoInstr} \cup (IF Cardinality({b \in DOMAIN code : code[b] # NoInstr}) < MaxCode THEN Instr ELSE {})
Fetch ==
    /\ pc = "fetch"
    /\ LET a == Plus(at, Length(seen))
       IN  \E i \in Readable(a) :
              /\ code' = Learn(code, a, i)
              /\ seen' = Append(seen, i)
              /\ pc' = IF Recognize(opt, Append(seen, i)) = More THEN "fetch" ELSE "act"
    /\ UNCHANGED <<opt, mem, asked, at, final, depth, found, turns, cpu>>

Again(a) == at' = a /\ seen' = <<>> /\ pc' = "fetch"
Stop == pc' = "done" /\ UNCHANGED <<at, seen>>
Quit == Stop /\ UNCHANGED <<final, depth, cpu>>

\* Slip: the hop is not counted.
Arrive_Uncounted(p, dst) ==
    /\ final' = dst /\ depth' = 0
    /\ cpu' = Run(mem', cpu, SubSeq(seen, 1, p.count))
    /\ IF opt.follow_chains /\ opt.max_chain_depth > 0 THEN Again(dst) ELSE Stop

(* A destination is known.  The first pattern is resolved whatever it is;
   from then on only jumps are followed, and not to where they are.         *)
Arrive(p, dst) ==
    /\ final' = dst
    /\ depth' = IF final = Unknown THEN 0 ELSE depth + 1
    /\ cpu' = Run(mem', cpu, SubSeq(seen, 1, p.count))
    /\ IF opt.follow_chains /\ depth' < opt.max_chain_depth THEN Again(dst) ELSE Stop
Hop(p, dst) == IF final = Unknown \/ (p.effect = "Jump" /\ dst # final) THEN Arrive(p, dst) ELSE Quit

HasTarget(p) == opt.follow_memory /\ p.resolution = "Concrete"
HasSlot(p) == opt.follow_memory /\ p.resolution = "MemoryPointer" /\ p.slot.static

ResolveConcrete(p) ==
    /\ HasTarget(p)
    /\ UNCHANGED mem
    /\ Hop(p, p.target)

\* read_mem; a pointer of four bytes leaves the upper half of the destination as it was.
Contents(slot) == IF slot.addr \in DOMAIN mem THEN {mem[slot.addr]} ELSE Pointers \cup {Unknown}
Destinations(size, w) == IF size = 8 THEN {w} ELSE {Low(w) + Half * garbage : garbage \in 0 .. Half - 1}
ResolveMemory(p) ==
    /\ HasSlot(p)
    /\ \E w \in Contents(p.slot) :
          /\ mem' = Learn(mem, p.slot.addr, w)
          /\ IF w = Unknown THEN Quit ELSE \E dst \in Destinations(p.size, w) : Hop(p, dst)

Unresolved(p) ==
    /\ ~HasTarget(p) /\ ~HasSlot(p)
    /\ UNCHANGED mem
    /\ Quit

\* One turn of recognize_all; max_transfers bounds the turns as well as the patterns.
ListTo(p, next) ==
    /\ found' = IF p.valid THEN Append(found, [at |-> at, count |-> p.count]) ELSE found
    /\ turns' = turns + 1
    /\ IF (p.valid /\ ~Fallthrough(p)) \/ turns' >= max_transfers THEN Stop ELSE Again(next)
    /\ UNCHANGED <<opt, code, mem, asked, final, depth, cpu>>

\* Slip: what was read ahead is skipped even if it is no idiom.
List_SkipsAhead(p) == ListTo(p, Plus(at, Length(SelectSeq(seen, LAMBDA i : i # NoInstr))))
List(p) == ListTo(p, Plus(at, IF p.valid THEN Length(SubSeq(seen, 1, p.count)) ELSE seen[1].len))
EndList == Stop /\ UNCHANGED <<opt, code, mem, asked, final, depth, found, turns, cpu>>

Act ==
    /\ pc = "act"
    /\ IF asked = "all" THEN IF seen[1] = NoInstr THEN EndList ELSE List(Recognize(opt, seen))
       ELSE /\ \/ ResolveConcrete(Recognize(opt, seen))
               \/ ResolveMemory(Recognize(opt, seen))
               \/ Unresolved(Recognize(opt, seen))
            /\ UNCHANGED <<opt, code, asked, found, turns>>

Next == Fetch \/ Act
Spec == Init /\ [][Next]_vars
FairSpec == Spec /\ WF_vars(Next)

----------------------------------------------------------------------------
(* What is promised *)

(* The instructions the recognizer takes for wider ones: registers and
   pointers of less than eight bytes, far pointers, segments.               *)
IsNarrow(i) == i.op \in {"movi", "lea", "load", "alu"} /\ i.size # 8 /\ ~(i.op = "movi" /\ i.size = 4)
IsElsewhere(i) == i.op \in {"load", "jmpm", "callm"} /\ (i.slot.seg \/ i.slot.far)
Plain(c) == \A a \in DOMAIN c : ~IsNarrow(c[a]) /\ ~IsElsewhere(c[a])

(* The final target is where the processor gets: running from the address
   asked about, through the first pattern and every jump that was followed,
   it arrives there, whatever its registers held; and after fewer hops than
   allowed there is no direct jump left at the end of the chain.            *)
FollowsExecution ==
    asked = "one" /\ final # Unknown /\ Plain(code) =>
        /\ cpu.pc = final
        /\ pc = "done" /\ opt.follow_chains /\ depth < opt.max_chain_depth /\ code[final].op = "jmp" =>
              code[final].imm = final

Transfers == {"jmp", "jcc", "loop", "call", "jmpr", "callr", "jmpm", "callm", "ret", "leave"}
\* The addresses of the instructions from one address up to another.
Line(from, to) ==
    LET After[k \in 0 .. MaxCode] == IF k = 0 THEN <<from>>
                                    ELSE LET l == After[k - 1]
                                             a == l[Len(l)]
                                         IN  IF a = to \/ code[a] = NoInstr THEN l ELSE Append(l, Plus(a, code[a].len))
    IN  After[MaxCode]

(* recognize_all misses no transfer and invents none: a transfer on the run
   from the entry is the last instruction of one of the patterns, and the
   patterns begin at instructions of the run and end with a transfer.        *)
TransfersListed ==
    pc = "done" /\ asked = "all" =>
        LET line == Line(Entry, at)
            Ends(k) == {n + found[k].count - 1 : n \in {m \in DOMAIN line : line[m] = found[k].at}}
        IN  /\ \A j \in DOMAIN line : code[line[j]].op \in Transfers => \E k \in DOMAIN found : j \in Ends(k)
            /\ \A k \in DOMAIN found :
                  /\ Ends(k) # {}
                  /\ \A j \in Ends(k) \cap DOMAIN line : code[line[j]].op \in Transfers

(* Every question is answered, cycles of jumps included.                    *)
ResolutionEnds == <>(pc = "done")
=============================================================================

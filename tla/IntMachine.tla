------------------------------ MODULE IntMachine ------------------------------
(***************************************************************************)
(* The emulator running straight-line programs of the integer              *)
(* instructions of EmuInt (emu_step, src/lib/emu/emu.cpp), and what such   *)
(* programs must do whatever the values in the registers.  The k-th        *)
(* instruction fetched is the k-th of the program; a jump shows in the     *)
(* instruction pointer.                                                    *)
(*                                                                         *)
(* A property is about the programs of its shape, whatever other programs  *)
(* a run holds.                                                            *)
(***************************************************************************)
EXTENDS Analysis

CONSTANT Tasks  \* programs and the states they start from

ASSUME TasksAssumption ==
    \A t \in Tasks : DOMAIN t = {"code", "starts"} /\ Len(t.code) > 0 /\ t.starts # {}

VARIABLES code,  \* the program
          cpu,   \* the emulator's CpuState and memory
          past   \* the states before the instructions executed so far
vars == <<code, cpu, past>>

Registers == 0..7

TypeOK ==
    /\ cpu.gpr \in [Registers -> 0..(Qword - 1)]
    /\ cpu.f \in Flags
    /\ cpu.rip \in 0..(Qword - 1)
    /\ cpu.mem \in [0..(MemSize - 1) -> 0..(Byte - 1)]
    /\ cpu.status \in {"OK", "DivByZero", "HostTrap", "MemFault"}

Init ==
    /\ \E t \in Tasks : code = t.code /\ cpu \in t.starts
    /\ past = <<>>

Fetched == code[Len(past) + 1]
Step ==
    /\ Len(past) < Len(code)
    /\ cpu.status = "OK"
    /\ \E ub \in BOOLEAN : cpu' = emu_step(cpu, Fetched, ub)
    /\ past' = Append(past, cpu)
    /\ UNCHANGED code

Next == Step
Spec == Init /\ [][Next]_vars

----------------------------------------------------------------------------
(* Shapes of programs *)

Size == Len(code)
Done == Len(past) = Size /\ cpu.status = "OK"
Lead == code[1]
Final == code[Size]
Start == past[1]
Middle == {code[k] : k \in 2..(Size - 1)}
After(k) == IF k = Size THEN cpu ELSE past[k + 1]

----------------------------------------------------------------------------
(* Flags *)

(* What the condition codes mean of two numbers compared. *)
Holds(cc, a, b, m) ==
    LET d == Signed(a, m) - Signed(b, m)
        yes == CASE cc \div 2 = 0 -> d < -(m \div 2) \/ d >= m \div 2
                 [] cc \div 2 = 1 -> a < b
                 [] cc \div 2 = 2 -> a = b
                 [] cc \div 2 = 3 -> a <= b
                 [] cc \div 2 = 4 -> SignBit((a - b) % m, m)
                 [] cc \div 2 = 5 -> Cardinality(SetBits((a - b) % Byte, 1)) % 2 = 0
                 [] cc \div 2 = 6 -> d < 0
                 [] cc \div 2 = 7 -> d <= 0
    IN  yes = (cc % 2 = 0)

(* A branch after a comparison or a subtraction is taken exactly when its condition holds *)
(* of the two operands as numbers, unsigned or signed: the flags and the sixteen          *)
(* conditions have to fit each other (update_flags_sub and eval_cc).                      *)
ConditionsOrderOperands ==
    Done /\ Size = 2 /\ Lead.op \in {"CMP", "SUB"} /\ Final.op = "JCC"
        => (cpu.rip = (Next_rip(After(1)) + Final.disp) % Qword)
             = Holds(Final.cc, Dst(Start, Lead), Src(Start, Lead), Mod(Lead.sz))

(* A number as wide as two registers, added or subtracted half by half with instructions  *)
(* between the halves that keep the carry: the sum, its carry and its overflow are those   *)
(* of the wide numbers.  Left out: a carry that takes the source over to the other sign,   *)
(* since the flags are computed of source and carry as one operand.                        *)
WideSums ==
    LET m == Mod(Lead.sz)
        Wide(c, o) == read_operand(c, Final, Final[o], Final.sz) * m + read_operand(c, Lead, Lead[o], Lead.sz)
        x == Wide(Start, "dst")
        y == Wide(Start, "src")
        sx == Signed(x, m * m)
        sy == Signed(y, m * m)
        r == IF Lead.op = "ADD" THEN sx + sy ELSE sx - sy
    IN  /\ Done /\ <<Lead.op, Final.op>> \in {<<"ADD", "ADC">>, <<"SUB", "SBB">>}
        /\ past[Size].f["CF"] => Src(Start, Final) \notin {m \div 2 - 1, m - 1}
        => /\ Wide(cpu, "dst") = r % (m * m)
           /\ cpu.f["CF"] = (IF Lead.op = "ADD" THEN x + y >= m * m ELSE y > x)
           /\ cpu.f["OF"] = (r >= (m * m) \div 2 \/ r < -((m * m) \div 2))

----------------------------------------------------------------------------
(* Values *)

(* The second operand is the register the address of the first is made of. *)
PointsWithSource(i) == i.dst.k = "mem" /\ i.src = [k |-> "reg", v |-> i.dst.v]

Undoes(i, j) ==
    \/ i = j /\ i.op \in {"NOT", "NEG", "BSWAP", "XCHG", "BTC", "XOR", "CMC"} /\ ~PointsWithSource(i)
    \/ /\ <<i.op, j.op>> \in {<<"ROL", "ROR">>, <<"RCL", "RCR">>, <<"INC", "DEC">>, <<"ADD", "SUB">>,
                              <<"RCR", "RCL">>, <<"ROR", "ROL">>, <<"DEC", "INC">>, <<"SUB", "ADD">>}
       /\ [j EXCEPT !.op = i.op] = i
    \/ <<i.op, j.op>> = <<"MOVBE", "MOVBE">> /\ i.dst = j.src /\ i.src = j.dst
    \/ <<i.op, j.op>> = <<"PUSH", "POP">> /\ i.src = j.dst
    \/ /\ i.op = "XCHG" /\ PointsWithSource(i) /\ [j EXCEPT !.dst = i.dst] = i
       /\ j.dst.k = "mem" /\ j.dst # i.dst /\ Start.gpr[j.dst.v] = Start.gpr[i.dst.v]

(* An instruction and the one that undoes it leave registers and memory as they were,      *)
(* whatever carry-keeping increments of other registers come between: no bit is lost on    *)
(* the way through the carry, a swapped address or a memory operand written twice, also    *)
(* when a register is exchanged with the memory it points at (and back, by another).  The  *)
(* upper half of a register written as a doubleword is not asked for: it is cleared.       *)
InversePairsRestore ==
    LET touched == {i.dst.v : i \in Middle}
        scratch == IF Lead.op = "PUSH" THEN (cpu.gpr[RSP] - 8)..(cpu.gpr[RSP] - 1)
                   ELSE IF Lead.op = "MOVBE" /\ Lead.dst.k = "mem"
                   THEN cpu.gpr[Lead.dst.v]..(cpu.gpr[Lead.dst.v] + Lead.sz - 1) ELSE {}
    IN  Done /\ Size > 1 /\ Undoes(Lead, Final) /\ (\A i \in Middle : i.op \in {"INC", "DEC"})
        => /\ \A r \in Registers \ touched :
                 LET m == IF Lead.sz = 4 /\ Lead.dst = [k |-> "reg", v |-> r] THEN Mod(4) ELSE Qword
                 IN  cpu.gpr[r] % m = Start.gpr[r] % m
           /\ \A a \in 0..(MemSize - 1) \ scratch : cpu.mem[a] = Start.mem[a]
           /\ Lead.op \in {"RCL", "RCR", "XCHG", "MOVBE"} => cpu.f["CF"] = Start.f["CF"]

(* Two instructions that are to give one value, and how their counts relate. *)
SameValue(i, j) ==
    LET w == Bits(i.sz)
    IN  \/ i.op = "SHLD" /\ j.op = "SHRD" /\ i.n + j.n = w
        \/ i.op \in {"ROL", "SHLD"} /\ j.op \in {"ROR", "RORX"} /\ i.n + j.n = w
           /\ (i.op = "SHLD" => i.dst = i.src)
        \/ <<i.op, j.op>> \in {<<"SHLX", "SHL">>, <<"SHRX", "SHR">>, <<"RORX", "ROR">>, <<"TZCNT", "BSF">>,
                               <<"XADD", "ADD">>, <<"ADOX", "ADC">>}
        \/ i.op = "SARX" /\ j.op = "SAR" /\ i.sz = 8

(* Two ways to compute one value from two copies of the operands agree: a bit scan of zero *)
(* has no value.  ADOX and ADC start with both carries alike.                              *)
SameByTwoWays ==
    /\ Done /\ Size = 2 /\ SameValue(Lead, Final)
    /\ Lead.op = "TZCNT" => Src(Start, Lead) # 0
    /\ Lead.op = "ADOX" => Start.f["OF"] = Start.f["CF"]
    => Dst(cpu, Lead) = Dst(cpu, Final)

(* Bits deposited under a mask come back when extracted under it, and nothing else is set. *)
DepositExtract ==
    LET S == SetBits(Src(Start, Lead), Lead.sz)
    IN  Done /\ Size = 2 /\ Lead.op = "PDEP" /\ Final.op = "PEXT"
        => /\ SetBits(Dst(cpu, Lead), Lead.sz) \subseteq S
           /\ Dst(cpu, Final) = read_operand(Start, Lead, Lead.third, Lead.sz) % 2^Cardinality(S)

(* A compare-and-exchange that failed has loaded the value it found, so trying once more   *)
(* stores: nobody else writes.  Both forms, in memory and in a register.                   *)
CmpxchgRetrySucceeds ==
    Done /\ Size = 2 /\ Lead = Final /\ Lead.op \in {"CMPXCHG", "CMPXCHG8B"} /\ ~past[2].f["ZF"]
        => /\ cpu.f["ZF"]
           /\ IF Lead.op = "CMPXCHG"
              THEN Dst(cpu, Lead) = read_operand(Start, Lead, Lead.third, Lead.sz)
              ELSE /\ mem_read(cpu, compute_ea(cpu, Lead.dst), 4) = Start.gpr[RBX] % Mod(4)
                   /\ mem_read(cpu, compute_ea(cpu, Lead.dst) + 4, 4) = Start.gpr[RCX] % Mod(4)

(* What two handlers, each right on its own in a test, must give together: one undoes the  *)
(* other, both compute one value, one finishes what the other began.                       *)
PairsFit == TypeOK /\ InversePairsRestore /\ SameByTwoWays /\ DepositExtract /\ CmpxchgRetrySucceeds

----------------------------------------------------------------------------
(* The stack *)

(* What is open after each instruction: return addresses, pushed registers, frames.  LEAVE *)
(* closes the innermost frame.                                                            *)
Closes(opener, i) ==
    \/ opener.op = "CALL" /\ i.op = "RET"
    \/ opener.op = "ENTER" /\ i.op = "LEAVE"
    \/ opener.op = "PUSH" /\ i.op = "POP" /\ opener.src = i.dst
Open(stack, i) ==
    IF stack # <<>> /\ Closes(Last(stack), i) THEN Front(stack) ELSE Append(stack, i)
StackOps == {"PUSH", "POP", "CALL", "RET", "ENTER", "LEAVE"}

(* Pushes and pops, calls and returns, frames and their ends, properly nested, give the    *)
(* stack and the frame pointer back, the pushed registers too, and a return goes to the    *)
(* address after its call: whatever the frames nested and reserved in between.             *)
StackDiscipline ==
    Done /\ (\A k \in 1..Size : code[k].op \in StackOps) /\ FoldLeft(Open, <<>>, code) = <<>>
        => /\ \A r \in Registers : cpu.gpr[r] = Start.gpr[r]
           /\ Lead.op = "CALL" => cpu.rip = Next_rip(Start)

----------------------------------------------------------------------------
(* What is said of an instruction without running it *)

(* Rows from about the 1090th on stand one place away from the form they describe. *)
Misplaced == {"ANDN", "BLSI", "BLSMSK", "BLSR", "TZCNT", "LZCNT", "ADCX", "ADOX"}
MayChange(i) == LET s == get_semantics(i) IN s.written \cup s.other

(* A step changes only the flags that the semantics table and sets_eflags say it may: a     *)
(* pass that keeps the others across it keeps the right ones.  The table misses the zero    *)
(* flag of POPCNT.                                                                          *)
FlagsDeclared ==
    [][LET changed == {g \in FlagNames : cpu'.f[g] # cpu.f[g]}
       IN  /\ Fetched.op \notin Misplaced \cup {"POPCNT"} => changed \subseteq MayChange(Fetched)
           /\ sets_eflags(Fetched) # {} => changed \subseteq sets_eflags(Fetched)]_vars

Flip(c, g) == [c EXCEPT !.f[g] = ~@]
SameBut(c, d, g) == [c EXCEPT !.f[g] = FALSE] = [d EXCEPT !.f[g] = FALSE]

(* Only the flags an instruction is said to read make a difference to it, other than to     *)
(* themselves: run again with another flag turned, it does the same.  On single instructions. *)
FlagsReadDeclared ==
    Size = 1 /\ past = <<>> =>
        \A ub \in BOOLEAN, g \in FlagNames :
            \/ /\ Fetched.op \notin Misplaced => g \in get_semantics(Fetched).read
               /\ reads_eflags(Fetched) # {} \/ Fetched.op \in Misplaced => g \in reads_eflags(Fetched)
            \/ SameBut(emu_step(cpu, Fetched, ub), emu_step(Flip(cpu, g), Fetched, ub), g)

(* Shifts and rotations by a count that may be zero, and rows that overstate what is written. *)
MayKeepFlags == {"SHL", "SHR", "SAR", "ROL", "ROR", "RCL", "RCR", "SHLD", "SHRD", "BSF", "BSR"}

(* Flags that dead_flags calls dead after an instruction may be left as they were before it: *)
(* the next instruction ends in the same state.                                              *)
DeadFlagsMayBeDropped ==
    \A k \in 2..Len(past) :
        dead_flags(code[k - 1], code[k]) /\ code[k].op \notin MayKeepFlags
            => \E ub \in BOOLEAN :
                  emu_step([past[k] EXCEPT !.f = past[k - 1].f], code[k], ub)
                    = (IF k = Len(past) THEN cpu ELSE past[k + 1])

(* Registers written that no query names: the stack pointer, the counter of LOOP, the       *)
(* second operand of XCHG and XADD, the accumulator of MUL and the compare-and-exchanges.   *)
Unlisted(i) ==
    CASE i.op \in {"PUSH", "POP", "CALL", "RET"} -> {RSP}
      [] i.op \in {"ENTER", "LEAVE"} -> {RSP, RBP}
      [] i.op \in {"LOOP", "LOOPE", "LOOPNE"} -> {RCX}
      [] i.op \in {"XCHG", "XADD"} ->
           IF i.src.k = "reg" THEN {IF High(i.src.v, i.sz, i.rex) THEN i.src.v - 4 ELSE i.src.v} ELSE {}
      [] i.op \in {"MUL", "CMPXCHG", "CMPXCHG8B"} -> {RAX, RDX}
      [] OTHER -> {}
HighByte(i) == High(i.dst.v, i.sz, i.rex)

(* A register a step changes is one that modifies_reg or implicit_gpr_writes names, or is   *)
(* unlisted for this kind of instruction; a high byte counts as its register.               *)
RegistersDeclared ==
    [][\A r \in Registers : cpu'.gpr[r] # cpu.gpr[r] =>
           \/ modifies_reg(Fetched, IF HighByte(Fetched) THEN r + 4 ELSE r)
           \/ r \in implicit_gpr_writes(Fetched)
           \/ r \in Unlisted(Fetched)]_vars

(* The register backward_chain names held, where it says, the value that the asked register *)
(* holds at the end.  For programs of full-width moves and of writers it can see: not the   *)
(* unlisted and implicit ones, nor one of a high byte, whose number it takes for a register. *)
ChainKeepsValue ==
    Done /\ (\A k \in 1..Size : Unlisted(code[k]) \cup implicit_gpr_writes(code[k]) = {} /\ code[k].rex
                                 /\ (Forwards(code[k]) => code[k].sz = 8 /\ code[k].ssz = 8))
        => \A r \in Registers :
              LET b == backward_chain(code, Size, r)
                  at == IF b.at = 0 THEN Start ELSE After(b.at)
              IN  cpu.gpr[r] = at.gpr[b.reg]

(* What a pass may conclude from the tables without running the code is so: a flag not      *)
(* read makes no difference, a dead flag may be dropped, a value came through a register.   *)
QueriesSound == FlagsReadDeclared /\ DeadFlagsMayBeDropped /\ ChainKeepsValue

(* A step changes only what is declared to change.                                         *)
EffectsDeclared == FlagsDeclared /\ RegistersDeclared
===============================================================================

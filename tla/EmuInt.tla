-------------------------------- MODULE EmuInt --------------------------------
(***************************************************************************)
(* The emulator's integer instructions (src/lib/emu/emu.cpp,               *)
(* emu_exec_switch): what each one does to the registers, the flags, the   *)
(* instruction pointer and the memory, in the order in which the handler   *)
(* reads and writes its operands.                                          *)
(*                                                                         *)
(* Widths are scaled: a byte has Unit bits, so a full register has         *)
(* 8 * Unit.  What the code derives from a size in bytes is derived from   *)
(* it here.  A count is not scaled: it is an input of the instruction.     *)
(*                                                                         *)
(* An instruction is a record: op, sz (the size of operand 0 in bytes),    *)
(* ssz (the size of a narrower source), rex, the operands dst, src and     *)
(* third, n (the count or immediate), cc (the condition of Jcc, SETcc and  *)
(* CMOVcc), disp (the branch displacement).  An operand is [k, v]: a       *)
(* register number, an immediate, a byte immediate to sign-extend, or the  *)
(* memory at the address in a register.                                    *)
(***************************************************************************)
EXTENDS EmuFlags, Bitwise, Sequences

CONSTANTS Unit,     \* bits of a byte
          MemSize,  \* bytes of memory, at the addresses from 0
          InstrLen  \* the length of an instruction

ASSUME IntAssumption ==
    /\ Unit \in {2, 4, 8}
    /\ Byte = 2^Unit /\ Nibble = 2^(Unit \div 2) /\ Qword = 2^(8 * Unit)
    /\ MemSize \in 0..(Qword - 1)
    /\ InstrLen \in 1..15

Sizes == {1, 2, 4, 8}
Bits(sz) == sz * Unit
Mod(sz) == 2^Bits(sz)

RAX == 0  RCX == 1  RDX == 2  RBX == 3  RSP == 4  RBP == 5

----------------------------------------------------------------------------
(* Numbers *)

Signed(x, m) == IF SignBit(x, m) THEN x - m ELSE x
SignExtend(x, from, to) == Signed(x % Mod(from), Mod(from)) % Mod(to)
Complement(x, m) == m - 1 - x
Shl(x, n, sz) == IF n >= Bits(sz) THEN 0 ELSE (x % 2^(Bits(sz) - n)) * 2^n
Shr(x, n) == IF n >= 30 THEN 0 ELSE x \div 2^n
Bit(x, i) == (x \div 2^i) % 2
Quotient(x, y) == IF (x < 0) = (y < 0) THEN (IF x < 0 THEN -x ELSE x) \div (IF y < 0 THEN -y ELSE y)
                  ELSE -((IF x < 0 THEN -x ELSE x) \div (IF y < 0 THEN -y ELSE y))
Remainder(x, y) == x - y * Quotient(x, y)
One(bool) == IF bool THEN 1 ELSE 0

----------------------------------------------------------------------------
(* Operands *)

(* Without a REX prefix the byte registers 4 to 7 are the second bytes of the first four. *)
High(r, sz, rex) == sz = 1 /\ ~rex /\ r \in 4..7

read_gpr(c, r, sz, rex) ==
    IF High(r, sz, rex) THEN (c.gpr[r - 4] \div Byte) % Byte ELSE c.gpr[r] % Mod(sz)

(* Bytes and words leave the rest of the register alone, doublewords clear it. *)
write_gpr(c, r, v, sz, rex) ==
    IF High(r, sz, rex)
    THEN [c EXCEPT !.gpr[r - 4] = (@ - (((@ \div Byte) % Byte) * Byte)) + ((v % Byte) * Byte)]
    ELSE [c EXCEPT !.gpr[r] = (IF sz \in {1, 2} THEN @ - (@ % Mod(sz)) ELSE 0) + (v % Mod(sz))]

mem_check(addr, sz) == addr + sz <= MemSize

(* Little-endian.  Without a fault handler an access outside the memory reads zero and *)
(* drops the store.                                                                    *)
ByteOf(x, k) == (x \div 2^(k * Unit)) % Byte
mem_read(c, addr, sz) ==
    LET low[k \in 0..sz] == IF k = 0 THEN 0 ELSE low[k - 1] + c.mem[addr + k - 1] * 2^((k - 1) * Unit)
    IN  IF mem_check(addr, sz) THEN low[sz] ELSE 0
mem_write(c, addr, v, sz) ==
    IF mem_check(addr, sz)
    THEN [c EXCEPT !.mem = [a \in DOMAIN @ |-> IF a \in addr..(addr + sz - 1)
                                              THEN ByteOf(v, a - addr) ELSE @[a]]]
    ELSE c

(* The address of a memory operand is worked out each time the operand is touched. *)
compute_ea(c, o) == c.gpr[o.v]

read_operand(c, i, o, sz) ==
    CASE o.k = "imm" -> o.v % Mod(sz)
      [] o.k = "imm8" -> SignExtend(o.v, 1, sz)
      [] o.k = "mem" -> mem_read(c, compute_ea(c, o), sz)
      [] o.k = "reg" -> read_gpr(c, o.v, sz, i.rex)

write_operand(c, i, o, v, sz) ==
    IF o.k = "mem" THEN mem_write(c, compute_ea(c, o), v, sz) ELSE write_gpr(c, o.v, v, sz, i.rex)

Dst(c, i) == read_operand(c, i, i.dst, i.sz)
Src(c, i) == read_operand(c, i, i.src, i.sz)
SetDst(c, i, v) == write_operand(c, i, i.dst, v, i.sz)
WithFlags(c, f) == [c EXCEPT !.f = f]

----------------------------------------------------------------------------
(* Arithmetic and logic.  ADC and SBB hand source plus carry to the flags as one operand. *)

Add(c, i, cf) ==
    LET m == Mod(i.sz)  a == Dst(c, i)  b == Src(c, i)  res == (a + b + cf) % m
    IN  WithFlags(SetDst(c, i, res), update_flags_add(c.f, a, b + cf, res, m))

\* Slip: the flags are those of the difference without the borrow.
Sub_ForgetsBorrow(c, i, cf) ==
    LET m == Mod(i.sz)  a == Dst(c, i)  b == Src(c, i)  res == (a - b - cf) % m
    IN  WithFlags(SetDst(c, i, res), update_flags_sub(c.f, a, b, res, m))

Sub(c, i, cf) ==
    LET m == Mod(i.sz)  a == Dst(c, i)  b == Src(c, i)  res == (a - b - cf) % m
    IN  WithFlags(SetDst(c, i, res), update_flags_sub(c.f, a, b + cf, res, m))

Cmp(c, i) ==
    LET m == Mod(i.sz)  a == Dst(c, i)  b == Src(c, i)
    IN  WithFlags(c, update_flags_sub(c.f, a, b, (a - b) % m, m))

ExecAddSub(c, i) ==
    CASE i.op = "ADD" -> Add(c, i, 0)
      [] i.op = "ADC" -> Add(c, i, One(c.f["CF"]))
      [] i.op = "SUB" -> Sub(c, i, 0)
      [] i.op = "SBB" -> Sub(c, i, One(c.f["CF"]))
      [] i.op = "CMP" -> Cmp(c, i)

ExecUnary(c, i) ==
    LET m == Mod(i.sz)  a == Dst(c, i)
        Keeping(f) == [f EXCEPT !["CF"] = c.f["CF"]]
    IN  CASE i.op = "INC" -> LET res == (a + 1) % m
                             IN  WithFlags(SetDst(c, i, res), Keeping(update_flags_add(c.f, a, 1, res, m)))
          [] i.op = "DEC" -> LET res == (a - 1) % m
                             IN  WithFlags(SetDst(c, i, res), Keeping(update_flags_sub(c.f, a, 1, res, m)))
          [] i.op = "NEG" -> LET res == (-a) % m
                             IN  WithFlags(SetDst(c, i, res),
                                           [update_flags_sub(c.f, 0, a, res, m) EXCEPT !["CF"] = a # 0])
          [] i.op = "NOT" -> SetDst(c, i, Complement(a, m))

ExecLogic(c, i) ==
    LET m == Mod(i.sz)  a == Dst(c, i)  b == Src(c, i)
        res == CASE i.op \in {"AND", "TEST"} -> a & b [] i.op = "OR" -> a | b [] i.op = "XOR" -> a ^^ b
    IN  WithFlags(IF i.op = "TEST" THEN c ELSE SetDst(c, i, res), update_flags_logic(c.f, res, m))

----------------------------------------------------------------------------
(* Multiplication and division.  Operand 0 of the table's forms is not the factor or the *)
(* divisor of the instruction but the first fixed register: RDX, or AX, or AL.            *)

Overflowed(c, bool) == [c EXCEPT !.f["CF"] = bool, !.f["OF"] = bool]

ExecMul(c, i) ==
    LET m == Mod(i.sz)  r == (c.gpr[RAX] % m) * Dst(c, i)
        wide == IF i.sz = 1 THEN write_gpr(c, RAX, r, 2, TRUE)
                ELSE write_gpr(write_gpr(c, RAX, r % m, i.sz, TRUE), RDX, r \div m, i.sz, TRUE)
    IN  Overflowed(wide, r >= m)

(* Two operands, or three with n as the factor: the flags are cleared whatever is lost. *)
(* The table gives the one-operand forms three operands, RDX, RAX and no factor.       *)
ExecImul(c, i) ==
    LET m == Mod(i.sz)
        a == Signed(IF i.op = "IMUL2" THEN Dst(c, i) ELSE Src(c, i), m)
        b == IF i.op = "IMUL2" THEN Signed(Src(c, i), m) ELSE i.n
    IN  Overflowed(SetDst(c, i, (a * b) % m), FALSE)

Stop(c, s) == [c EXCEPT !.status = s]

ExecDiv(c, i) ==
    LET m == Mod(i.sz)  d == Dst(c, i)
        dividend == ((c.gpr[RDX] % m) * m) + (c.gpr[RAX] % m)
    IN  IF d = 0 THEN Stop(c, "DivByZero")
        ELSE CASE i.sz = 8 -> [c EXCEPT !.gpr[RAX] = @ \div d, !.gpr[RDX] = (c.gpr[RAX] \div d) % d]
               [] i.sz \in {2, 4} -> write_gpr(write_gpr(c, RAX, (dividend \div d) % m, i.sz, TRUE),
                                               RDX, (dividend % d) % m, i.sz, TRUE)
               [] i.sz = 1 -> LET x == c.gpr[RAX] % Mod(2)
                              IN  write_gpr(c, RAX, ((x \div d) % m) + (((x % d) % m) * m), 2, TRUE)

(* A quotient that does not fit the host's register traps in the emulator's own process. *)
ExecIdiv(c, i) ==
    LET m == Mod(i.sz)  d == Signed(Dst(c, i), m)
        x == IF i.sz = 4
             THEN Signed(((c.gpr[RDX] % m) * m) + (c.gpr[RAX] % m), Qword)
             ELSE Signed(c.gpr[RAX], Qword)
        Keep(v) == IF i.sz = 4 THEN v % m ELSE v % Qword
    IN  IF d = 0 THEN Stop(c, "DivByZero")
        ELSE IF 2 * x = -Qword /\ d = -1 THEN Stop(c, "HostTrap")
        ELSE [c EXCEPT !.gpr[RAX] = Keep(Quotient(x, d)), !.gpr[RDX] = Keep(Remainder(x, d))]

----------------------------------------------------------------------------
(* Shifts and rotations.  A zero count changes nothing.  The carry of a left shift by more *)
(* than the width comes from a host shift the language leaves undefined: ub stands for it. *)

Count(i) == i.n % (IF i.sz = 8 THEN Bits(8) ELSE Bits(4))

Shifted(f, res, m, cf) ==
    [f EXCEPT !["CF"] = cf, !["ZF"] = res = 0, !["SF"] = SignBit(res, m), !["PF"] = compute_pf(res)]

LastOutLeft(a, i, ub) ==
    IF Count(i) <= Bits(i.sz) THEN Bit(a, Bits(i.sz) - Count(i)) = 1 ELSE ub

ExecShift(c, i, ub) ==
    LET m == Mod(i.sz)  n == Count(i)  a == Dst(c, i)  s == Signed(a, m)
        left == Shl(a, n, i.sz)
        lf == Shifted(c.f, left, m, LastOutLeft(a, i, ub))
    IN  IF n = 0 THEN c
        ELSE CASE i.op = "SHL" ->
                    WithFlags(SetDst(c, i, left),
                              IF n = 1 THEN [lf EXCEPT !["OF"] = SignBit(left, m) # lf["CF"]] ELSE lf)
               [] i.op = "SHR" ->
                    WithFlags(SetDst(c, i, Shr(a, n)),
                              [Shifted(c.f, Shr(a, n), m, Bit(a, n - 1) = 1)
                                 EXCEPT !["OF"] = n = 1 /\ SignBit(a, m)])
               [] i.op = "SAR" ->
                    WithFlags(SetDst(c, i, (s \div 2^n) % m),
                              [Shifted(c.f, (s \div 2^n) % m, m, Bit(s, n - 1) = 1)
                                 EXCEPT !["OF"] = FALSE])

ExecRotate(c, i) ==
    LET m == Mod(i.sz)  n == Count(i) % Bits(i.sz)  a == Dst(c, i)
        left == Shl(a, n, i.sz) | Shr(a, Bits(i.sz) - n)
        right == Shr(a, n) | Shl(a, Bits(i.sz) - n, i.sz)
    IN  IF Count(i) = 0 THEN c
        ELSE IF i.op = "ROL" THEN [SetDst(c, i, left) EXCEPT !.f["CF"] = left % 2 = 1]
        ELSE [SetDst(c, i, right) EXCEPT !.f["CF"] = SignBit(right, m)]

(* One bit at a time through the carry. *)
ExecRotateCarry(c, i) ==
    LET m == Mod(i.sz)  n == Count(i) % (Bits(i.sz) + 1)
        state[k \in 0..n] ==
            IF k = 0 THEN [a |-> Dst(c, i), cf |-> One(c.f["CF"])]
            ELSE LET s == state[k - 1]
                 IN  IF i.op = "RCL"
                     THEN [a |-> ((2 * s.a) % m) | s.cf, cf |-> One(SignBit(s.a, m))]
                     ELSE [a |-> (s.a \div 2) | (s.cf * (m \div 2)), cf |-> s.a % 2]
    IN  IF n = 0 THEN c ELSE [SetDst(c, i, state[n].a) EXCEPT !.f["CF"] = state[n].cf = 1]

ExecDoubleShift(c, i, ub) ==
    LET m == Mod(i.sz)  n == Count(i)  w == Bits(i.sz)
        dst == Dst(c, i)  src == Src(c, i)
        res == IF n >= w THEN 0
               ELSE IF i.op = "SHLD" THEN Shl(dst, n, i.sz) | Shr(src, w - n)
               ELSE Shr(dst, n) | Shl(src, w - n, i.sz)
        out == IF i.op = "SHLD" THEN LastOutLeft(dst, i, ub) ELSE Bit(dst, n - 1) = 1
    IN  IF n = 0 THEN c ELSE WithFlags(SetDst(c, i, res), Shifted(c.f, res, m, out))

----------------------------------------------------------------------------
(* Moves and exchanges *)

ExecMove(c, i) ==
    CASE i.op = "MOV" -> SetDst(c, i, read_operand(c, i, i.src, i.sz))
      [] i.op = "MOVZX" -> SetDst(c, i, read_operand(c, i, i.src, i.ssz))
      [] i.op = "LEA" -> SetDst(c, i, compute_ea(c, i.src))
      [] i.op = "MOVSX" -> SetDst(c, i, SignExtend(read_operand(c, i, i.src, i.ssz), i.ssz, i.sz))

\* Slip: the register is written first, and may be what the address is made of.
ExecXchg_RegisterFirst(c, i) ==
    LET a == Dst(c, i)  b == Src(c, i)
    IN  SetDst(write_operand(c, i, i.src, a, i.sz), i, b)

ExecXchg(c, i) ==
    LET a == Dst(c, i)  b == Src(c, i)
    IN  write_operand(SetDst(c, i, b), i, i.src, a, i.sz)

Swapped(x, sz) ==
    LET out[k \in 0..sz] == IF k = 0 THEN 0 ELSE out[k - 1] + ByteOf(x, k - 1) * 2^((sz - k) * Unit)
    IN  out[sz]
(* BSWAP leaves a word as it is; MOVBE swaps it. *)
ExecBswap(c, i) ==
    IF i.op = "MOVBE" THEN SetDst(c, i, Swapped(Src(c, i), i.sz))
    ELSE SetDst(c, i, IF i.sz \in {4, 8} THEN Swapped(Dst(c, i), i.sz) ELSE Dst(c, i))

(* The sum goes to operand 0 after operand 1 was written: an address is taken again there. *)
ExecXadd(c, i) ==
    LET m == Mod(i.sz)  d == Dst(c, i)  s == Src(c, i)  res == (d + s) % m
    IN  WithFlags(SetDst(write_operand(c, i, i.src, d, i.sz), i, res), update_flags_add(c.f, d, s, res, m))

ExecCmpxchg(c, i) ==
    LET m == Mod(i.sz)  d == Dst(c, i)  acc == c.gpr[RAX] % m
        f == update_flags_sub(c.f, acc, d, (acc - d) % m, m)
    IN  IF acc = d THEN WithFlags(SetDst(c, i, read_operand(c, i, i.third, i.sz)), f)
        ELSE WithFlags(write_gpr(c, RAX, d, i.sz, i.rex), f)

(* The accumulator extended within itself, or its sign spread over RDX. *)
ExecExtend(c, i) ==
    IF i.op = "CBW" THEN write_gpr(c, RAX, SignExtend(c.gpr[RAX], i.sz \div 2, i.sz), i.sz, TRUE)
    ELSE write_gpr(c, RDX, IF SignBit(c.gpr[RAX] % Mod(i.sz), Mod(i.sz)) THEN Mod(i.sz) - 1 ELSE 0,
                   i.sz, TRUE)

----------------------------------------------------------------------------
(* Bits *)

(* A register source addresses a bit array in memory, from below the operand to above it; *)
(* an immediate and a register destination wrap at the width.                             *)
bt_locate(c, i) ==
    IF i.dst.k = "mem"
    THEN LET off == IF i.src.k = "reg" THEN Signed(Src(c, i), Mod(i.sz)) ELSE i.src.v % Bits(i.sz)
             addr == (compute_ea(c, i.dst) + off \div Unit) % Qword
         IN  [addr |-> addr, bit |-> off % Unit, val |-> mem_read(c, addr, 1)]
    ELSE [addr |-> 0, bit |-> (IF i.src.k = "reg" THEN Src(c, i) ELSE i.src.v) % Bits(i.sz), val |-> Dst(c, i)]

ExecBitTest(c, i) ==
    LET l == bt_locate(c, i)
        old == Bit(l.val, l.bit)
        new == CASE i.op = "BT" -> old [] i.op = "BTS" -> 1 [] i.op = "BTR" -> 0 [] i.op = "BTC" -> 1 - old
        out == (l.val + new * 2^l.bit) - old * 2^l.bit
        stored == IF i.op = "BT" THEN c
                  ELSE IF i.dst.k = "mem" THEN mem_write(c, l.addr, out, 1) ELSE SetDst(c, i, out)
    IN  [stored EXCEPT !.f["CF"] = old = 1]

SetBits(x, sz) == {k \in 0..(Bits(sz) - 1) : Bit(x, k) = 1}
Lowest(S) == CHOOSE k \in S : \A j \in S : k <= j
Highest(S) == CHOOSE k \in S : \A j \in S : j <= k

ExecBitScan(c, i) ==
    LET S == SetBits(Src(c, i), i.sz)
        k == IF i.op = "BSF" THEN Lowest(S) ELSE Highest(S)
    IN  IF S = {} THEN [c EXCEPT !.f["ZF"] = TRUE]
        ELSE [SetDst(c, i, k) EXCEPT !.f["ZF"] = FALSE]

ExecPopcnt(c, i) ==
    LET x == Src(c, i)
    IN  WithFlags(SetDst(c, i, Cardinality(SetBits(x, i.sz))),
                  [g \in FlagNames |-> IF g = "ZF" THEN x = 0 ELSE IF g = "DF" THEN c.f[g] ELSE FALSE])

ExecCountZeros(c, i) ==
    LET w == Bits(i.sz)  S == SetBits(Src(c, i), i.sz)
        res == IF S = {} THEN w ELSE IF i.op = "TZCNT" THEN Lowest(S) ELSE w - 1 - Highest(S)
    IN  [SetDst(c, i, res) EXCEPT !.f["CF"] = res = w, !.f["ZF"] = res = 0]

ExecBls(c, i) ==
    LET m == Mod(i.sz)  x == Src(c, i)
        res == CASE i.op = "BLSI" -> x & ((-x) % m)
                 [] i.op = "BLSMSK" -> x ^^ ((x - 1) % m)
                 [] i.op = "BLSR" -> x & ((x - 1) % m)
                 [] i.op = "ANDN" -> Complement(x, m) & read_operand(c, i, i.third, i.sz)
    IN  WithFlags(SetDst(c, i, res), update_flags_logic(c.f, res, m))

(* SARX shifts the zero-extended source: only at full width is it arithmetic. *)
ExecShiftX(c, i) ==
    LET m == Mod(i.sz)  x == Src(c, i)
        n == (IF i.op = "RORX" THEN i.n ELSE read_operand(c, i, i.third, i.sz)) % Bits(i.sz)
        res == CASE i.op = "SARX" -> Signed(x, Qword) \div 2^n
                 [] i.op = "SHLX" -> Shl(x, n, i.sz)
                 [] i.op = "SHRX" -> Shr(x, n)
                 [] i.op = "RORX" -> Shr(x, n) | Shl(x, Bits(i.sz) - n, i.sz)
    IN  SetDst(c, i, res % m)

(* Sums that carry through one flag each. *)
ExecAdcx(c, i) ==
    LET m == Mod(i.sz)  g == IF i.op = "ADCX" THEN "CF" ELSE "OF"
        a == Dst(c, i)  sum == a + Src(c, i) + One(c.f[g])
    IN  [SetDst(c, i, sum % m) EXCEPT !.f[g] = IF m < Qword THEN sum >= m ELSE sum % m < a]

(* The j-th set bit of the mask, from below, and the j-th bit of the source. *)
Rank(S, k) == Cardinality({j \in S : j < k})
ExecDeposit(c, i) ==
    LET S == SetBits(Src(c, i), i.sz)
        T == SetBits(read_operand(c, i, i.third, i.sz), i.sz)
        R == IF i.op = "PDEP" THEN {k \in S : Rank(S, k) \in T} ELSE {Rank(S, k) : k \in S \cap T}
        val[k \in 0..Bits(i.sz)] ==
            IF k = 0 THEN 0 ELSE val[k - 1] + (IF (k - 1) \in R THEN 2^(k - 1) ELSE 0)
    IN  SetDst(c, i, val[Bits(i.sz)])

----------------------------------------------------------------------------
(* Flags *)

ExecFlag(c, i) ==
    CASE i.op = "CLC" -> [c EXCEPT !.f["CF"] = FALSE]
      [] i.op = "STC" -> [c EXCEPT !.f["CF"] = TRUE]
      [] i.op = "CMC" -> [c EXCEPT !.f["CF"] = ~@]
      [] i.op = "CLD" -> [c EXCEPT !.f["DF"] = FALSE]
      [] i.op = "STD" -> [c EXCEPT !.f["DF"] = TRUE]

----------------------------------------------------------------------------
(* Conditions and control flow *)

ExecCmov(c, i) == IF eval_cc(c.f, i.cc) THEN SetDst(c, i, Src(c, i)) ELSE c
ExecSet(c, i) == write_operand(c, i, i.dst, One(eval_cc(c.f, i.cc)), 1)

Next_rip(c) == (c.rip + InstrLen) % Qword
Branch(c, i, taken) ==
    [c EXCEPT !.rip = IF taken THEN (Next_rip(c) + i.disp) % Qword ELSE Next_rip(c)]

ExecJcc(c, i) == Branch(c, i, eval_cc(c.f, i.cc))

ExecLoop(c, i) ==
    LET d == [c EXCEPT !.gpr[RCX] = (@ - 1) % Qword]
    IN  Branch(d, i, /\ d.gpr[RCX] # 0
                     /\ i.op = "LOOPE" => c.f["ZF"]
                     /\ i.op = "LOOPNE" => ~c.f["ZF"])

ExecJcxz(c, i) == Branch(c, i, c.gpr[RCX] % Mod(i.sz) = 0)

ExecJmp(c, i) ==
    IF i.src.k = "imm" THEN Branch(c, i, TRUE)
    ELSE [c EXCEPT !.rip = read_operand(c, i, i.src, 8)]

----------------------------------------------------------------------------
(* The stack *)

Down(c) == [c EXCEPT !.gpr[RSP] = (@ - 8) % Qword]
Up(c) == [c EXCEPT !.gpr[RSP] = (@ + 8) % Qword]
Top(c) == mem_read(c, c.gpr[RSP], 8)
Push(c, v) == mem_write(Down(c), Down(c).gpr[RSP], v, 8)

ExecPushPop(c, i) ==
    IF i.op = "PUSH" THEN Push(c, read_operand(c, i, i.src, 8))
    ELSE write_operand(Up(c), i, i.dst, Top(c), 8)

(* The return address is pushed before an indirect target is read. *)
ExecCall(c, i) ==
    LET d == Push(c, Next_rip(c))
    IN  [d EXCEPT !.rip = IF i.src.k = "imm" THEN (Next_rip(c) + i.disp) % Qword
                          ELSE read_operand(d, i, i.src, 8)]

(* The immediate of RET n is never operand 0 of the table's form, so nothing is added for it. *)
ExecRet(c, i) == [Up(c) EXCEPT !.rip = Top(c)]

\* Slip: the stack pointer is not taken from the frame pointer.
ExecLeave_KeepsFrame(c, i) == Up([c EXCEPT !.gpr[RBP] = Top(c)])

ExecLeave(c, i) ==
    LET d == [c EXCEPT !.gpr[RSP] = c.gpr[RBP]]
    IN  Up([d EXCEPT !.gpr[RBP] = Top(d)])

(* n is the nesting level, disp the bytes to allocate.  Each access is checked first, and *)
(* a fault leaves what was done before it.                                               *)
Checked(c, addr) == IF c.status = "OK" /\ ~mem_check(addr, 8) THEN Stop(c, "MemFault") ELSE c
CheckedPush(c, v) ==
    LET d == Checked(Down(c), Down(c).gpr[RSP])
    IN  IF c.status # "OK" THEN c ELSE IF d.status # "OK" THEN d ELSE mem_write(d, d.gpr[RSP], v, 8)
ExecEnter(c, i) ==
    LET d == CheckedPush(c, c.gpr[RBP])
        frame == d.gpr[RSP]
        copy[k \in 1..(i.n + 1)] ==
            IF k = 1 \/ copy[k - 1].status # "OK" THEN (IF k = 1 THEN d ELSE copy[k - 1])
            ELSE LET b == [copy[k - 1] EXCEPT !.gpr[RBP] = (@ - 8) % Qword]
                     e == Checked(b, b.gpr[RBP])
                 IN  CheckedPush(e, mem_read(e, e.gpr[RBP], 8))
        nested == IF i.n = 0 THEN d ELSE CheckedPush(copy[i.n], frame)
    IN  IF nested.status # "OK" THEN nested
        ELSE [nested EXCEPT !.gpr[RBP] = frame, !.gpr[RSP] = (@ - i.disp) % Qword]

(* Both doublewords of memory are compared, and both replaced or both loaded. *)
ExecCmpxchg8b(c, i) ==
    LET addr == compute_ea(c, i.dst)
        lo == mem_read(c, addr, 4)
        hi == mem_read(c, addr + 4, 4)
        equal == c.gpr[RAX] % Mod(4) = lo /\ c.gpr[RDX] % Mod(4) = hi
    IN  IF ~mem_check(addr, 8) THEN Stop(c, "MemFault")
        ELSE IF equal
             THEN [mem_write(mem_write(c, addr, c.gpr[RBX] % Mod(4), 4), addr + 4, c.gpr[RCX] % Mod(4), 4)
                     EXCEPT !.f["ZF"] = TRUE]
             ELSE [c EXCEPT !.gpr[RAX] = lo, !.gpr[RDX] = hi, !.f["ZF"] = FALSE]

----------------------------------------------------------------------------
(* One step *)

ExecPure(c, i, ub) ==
    CASE i.op \in {"ADD", "ADC", "SUB", "SBB", "CMP"} -> ExecAddSub(c, i)
      [] i.op \in {"INC", "DEC", "NEG", "NOT"} -> ExecUnary(c, i)
      [] i.op \in {"AND", "OR", "XOR", "TEST"} -> ExecLogic(c, i)
      [] i.op = "MUL" -> ExecMul(c, i)
      [] i.op \in {"IMUL2", "IMUL3"} -> ExecImul(c, i)
      [] i.op = "DIV" -> ExecDiv(c, i)
      [] i.op = "IDIV" -> ExecIdiv(c, i)
      [] i.op \in {"SHL", "SHR", "SAR"} -> ExecShift(c, i, ub)
      [] i.op \in {"ROL", "ROR"} -> ExecRotate(c, i)
      [] i.op \in {"RCL", "RCR"} -> ExecRotateCarry(c, i)
      [] i.op \in {"SHLD", "SHRD"} -> ExecDoubleShift(c, i, ub)
      [] i.op \in {"MOV", "MOVZX", "MOVSX", "LEA"} -> ExecMove(c, i)
      [] i.op = "XCHG" -> ExecXchg(c, i)
      [] i.op \in {"BSWAP", "MOVBE"} -> ExecBswap(c, i)
      [] i.op = "XADD" -> ExecXadd(c, i)
      [] i.op = "CMPXCHG" -> ExecCmpxchg(c, i)
      [] i.op = "CMPXCHG8B" -> ExecCmpxchg8b(c, i)
      [] i.op \in {"CBW", "CWD"} -> ExecExtend(c, i)
      [] i.op \in {"BT", "BTS", "BTR", "BTC"} -> ExecBitTest(c, i)
      [] i.op \in {"BSF", "BSR"} -> ExecBitScan(c, i)
      [] i.op = "POPCNT" -> ExecPopcnt(c, i)
      [] i.op \in {"TZCNT", "LZCNT"} -> ExecCountZeros(c, i)
      [] i.op \in {"BLSI", "BLSMSK", "BLSR", "ANDN"} -> ExecBls(c, i)
      [] i.op \in {"SARX", "SHLX", "SHRX", "RORX"} -> ExecShiftX(c, i)
      [] i.op \in {"ADCX", "ADOX"} -> ExecAdcx(c, i)
      [] i.op \in {"PDEP", "PEXT"} -> ExecDeposit(c, i)
      [] i.op \in {"CLC", "STC", "CMC", "CLD", "STD"} -> ExecFlag(c, i)
      [] i.op = "CMOV" -> ExecCmov(c, i)
      [] i.op = "SET" -> ExecSet(c, i)
      [] i.op \in {"PUSH", "POP"} -> ExecPushPop(c, i)
      [] i.op = "LEAVE" -> ExecLeave(c, i)
      [] i.op = "ENTER" -> ExecEnter(c, i)

Exec(c, i, ub) ==
    CASE i.op = "JCC" -> ExecJcc(c, i)
      [] i.op \in {"LOOP", "LOOPE", "LOOPNE"} -> ExecLoop(c, i)
      [] i.op = "JCXZ" -> ExecJcxz(c, i)
      [] i.op = "JMP" -> ExecJmp(c, i)
      [] i.op = "CALL" -> ExecCall(c, i)
      [] i.op = "RET" -> ExecRet(c, i)
      [] OTHER -> ExecPure(c, i, ub)

(* An instruction pointer the handler left alone moves past the instruction, also when a *)
(* branch led to where it was.  A handler that fails leaves it.  Decoding is taken to     *)
(* succeed where there is memory.                                                        *)
emu_step(c, i, ub) ==
    LET d == Exec(c, i, ub)
    IN  IF c.rip >= MemSize THEN Stop(c, "MemFault")
        ELSE IF d.status = "OK" /\ d.rip = c.rip THEN [d EXCEPT !.rip = Next_rip(c)] ELSE d
===============================================================================

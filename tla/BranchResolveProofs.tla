------------------------- MODULE BranchResolveProofs -------------------------
(***************************************************************************)
(* Proofs about BranchResolve, for words of any even number of bits, any   *)
(* registers, any instructions of the forms listed there, any memory and   *)
(* any options: the final target of a jump is where the processor gets,    *)
(* and of a run of code that is shorter than the address space every       *)
(* transfer is listed and nothing else.                                    *)
(***************************************************************************)
EXTENDS BranchResolve, FiniteSetTheorems, WellFoundedInduction, TLAPS

-----------------------------------------------------------------------------
(* Induction over a set of naturals *)

LEMMA LeastNat ==
  ASSUME NEW T \in SUBSET Nat, T # {}
  PROVE  \E m \in T : \A n \in T : m <= n
<1> DEFINE R == {p \in Nat \X Nat : p[1] < p[2]}
<1>1. R = OpToRel(<, Nat)
  BY DEF OpToRel
<1>2. IsWellFoundedOn(R, Nat)
  BY <1>1, NatLessThanWellFounded
<1> HIDE DEF R
<1>3. \E m \in T : \A n \in T : ~(<<n, m>> \in R)
  BY <1>2, WFMin
<1>4. PICK m \in T : \A n \in T : ~(n < m)
  BY <1>3 DEF R
<1> QED BY <1>4

LEMMA AllNats ==
  ASSUME NEW T, 0 \in T, \A n \in Nat : n \in T => n + 1 \in T
  PROVE  \A n \in Nat : n \in T
<1> SUFFICES ASSUME Nat \ T # {} PROVE FALSE
  OBVIOUS
<1>1. PICK m \in Nat \ T : \A n \in Nat \ T : m <= n
  <2> DEFINE U == Nat \ T
  <2>1. U \in SUBSET Nat /\ U # {}
    OBVIOUS
  <2> HIDE DEF U
  <2>2. \E m \in U : \A n \in U : m <= n
    BY <2>1, LeastNat
  <2> QED BY <2>2 DEF U
<1>2. m # 0 /\ m - 1 \in Nat /\ ~(m <= m - 1)
  BY <1>1
<1>3. m - 1 \in T
  BY <1>1, <1>2
<1>4. (m - 1) + 1 = m
  BY <1>1
<1> QED BY <1>1, <1>2, <1>3, <1>4

-----------------------------------------------------------------------------
(* Powers of two and bits *)

LEMMA Bits == WordBits \in Nat /\ HalfBits \in Nat /\ HalfBits > 0 /\ WordBits = HalfBits + HalfBits
BY BranchResolveAssumption DEF WordBits

\* The table of powers exists up to any length, and so up to WordBits.
LEMMA PowerFacts ==
  /\ PowerOfTwo[0] = 1
  /\ \A n \in 0 .. WordBits - 1 : PowerOfTwo[n + 1] = 2 * PowerOfTwo[n]
<1> DEFINE T == {l \in Nat : \E f : f = [n \in 0 .. l |-> IF n = 0 THEN 1 ELSE 2 * f[n - 1]]}
<1>1. 0 \in T
  <2> DEFINE f == [n \in 0 .. 0 |-> 1]
  <2>1. f = [n \in 0 .. 0 |-> IF n = 0 THEN 1 ELSE 2 * f[n - 1]]
    OBVIOUS
  <2> QED BY <2>1
<1>2. ASSUME NEW l \in Nat, l \in T PROVE l + 1 \in T
  <2>1. PICK f : f = [n \in 0 .. l |-> IF n = 0 THEN 1 ELSE 2 * f[n - 1]]
    BY <1>2
  <2> DEFINE g == [n \in 0 .. l + 1 |-> IF n = 0 THEN 1 ELSE 2 * f[n - 1]]
  <2>2. \A n \in 0 .. l : f[n] = IF n = 0 THEN 1 ELSE 2 * f[n - 1]
    BY <2>1
  <2>3. \A n \in 0 .. l + 1 : g[n] = IF n = 0 THEN 1 ELSE 2 * f[n - 1]
    OBVIOUS
  <2>4. \A n \in 0 .. l : f[n] = g[n]
    <3> TAKE n \in 0 .. l
    <3>1. n \in 0 .. l + 1
      OBVIOUS
    <3> QED BY <2>2, <2>3, <3>1
  <2> HIDE DEF g
  <2>5. \A n \in 0 .. l + 1 : n # 0 => f[n - 1] = g[n - 1]
    <3> TAKE n \in 0 .. l + 1
    <3> HAVE n # 0
    <3>1. n - 1 \in 0 .. l
      OBVIOUS
    <3> QED BY <2>4, <3>1
  <2>6. g = [n \in 0 .. l + 1 |-> IF n = 0 THEN 1 ELSE 2 * g[n - 1]]
    BY <2>5 DEF g
  <2>7. l + 1 \in Nat
    OBVIOUS
  <2> QED BY <2>6, <2>7
<1>3. WordBits \in T
  <2> HIDE DEF T
  <2>1. \A n \in Nat : n \in T
    BY <1>1, <1>2, AllNats
  <2> QED BY <2>1, Bits
<1>4. PowerOfTwo = [n \in 0 .. WordBits |-> IF n = 0 THEN 1 ELSE 2 * PowerOfTwo[n - 1]]
  BY <1>3 DEF PowerOfTwo
<1>5. \A n \in 0 .. WordBits : PowerOfTwo[n] = IF n = 0 THEN 1 ELSE 2 * PowerOfTwo[n - 1]
  <2> DEFINE h == [n \in 0 .. WordBits |-> IF n = 0 THEN 1 ELSE 2 * PowerOfTwo[n - 1]]
  <2>1. \A n \in 0 .. WordBits : h[n] = IF n = 0 THEN 1 ELSE 2 * PowerOfTwo[n - 1]
    OBVIOUS
  <2>2. PowerOfTwo = h
    BY <1>4
  <2> HIDE DEF h
  <2> QED BY <2>1, <2>2
<1>6. ASSUME NEW n \in 0 .. WordBits - 1 PROVE PowerOfTwo[n + 1] = 2 * PowerOfTwo[n]
  <2>1. n + 1 \in 0 .. WordBits /\ n + 1 # 0 /\ (n + 1) - 1 = n
    BY Bits
  <2> QED BY <1>5, <2>1
<1>7. PowerOfTwo[0] = 1
  BY <1>5, Bits
<1> QED BY <1>6, <1>7

LEMMA PowerNat == \A n \in 0 .. WordBits : PowerOfTwo[n] \in Nat /\ PowerOfTwo[n] >= 1
<1> DEFINE T == {n \in Nat : n <= WordBits => PowerOfTwo[n] \in Nat /\ PowerOfTwo[n] >= 1}
<1>1. 0 \in T
  BY PowerFacts
<1>2. ASSUME NEW n \in Nat, n \in T PROVE n + 1 \in T
  <2> SUFFICES ASSUME n + 1 <= WordBits
               PROVE  PowerOfTwo[n + 1] \in Nat /\ PowerOfTwo[n + 1] >= 1
    OBVIOUS
  <2>1. n <= WordBits /\ n \in 0 .. WordBits - 1
    BY Bits
  <2>2. PowerOfTwo[n] \in Nat /\ PowerOfTwo[n] >= 1
    BY <1>2, <2>1
  <2>3. PowerOfTwo[n + 1] = 2 * PowerOfTwo[n]
    BY <2>1, PowerFacts
  <2> QED BY <2>2, <2>3
<1> HIDE DEF T
<1>3. \A n \in Nat : n \in T
  BY <1>1, <1>2, AllNats
<1> QED BY <1>3, Bits DEF T

\* A word is two halves.
LEMMA HalfWords == Half \in Nat /\ Half >= 1 /\ Words \in Nat /\ Words >= 1 /\ Words = Half * Half
<1> DEFINE T == {n \in Nat : n <= HalfBits => PowerOfTwo[HalfBits + n] = Half * PowerOfTwo[n]}
<1>1. HalfBits \in 0 .. WordBits /\ WordBits \in 0 .. WordBits
  BY Bits
<1>2. Half \in Nat /\ Half >= 1 /\ Words \in Nat /\ Words >= 1
  BY <1>1, PowerNat DEF Half, Words
<1>3. 0 \in T
  <2>1. HalfBits + 0 = HalfBits /\ Half * 1 = Half
    BY <1>2, Bits
  <2> QED BY <2>1, PowerFacts DEF Half
<1>4. ASSUME NEW n \in Nat, n \in T PROVE n + 1 \in T
  <2> SUFFICES ASSUME n + 1 <= HalfBits
               PROVE  PowerOfTwo[HalfBits + (n + 1)] = Half * PowerOfTwo[n + 1]
    OBVIOUS
  <2>1. /\ n <= HalfBits /\ n \in 0 .. WordBits - 1 /\ n \in 0 .. WordBits
        /\ HalfBits + n \in 0 .. WordBits - 1
        /\ HalfBits + (n + 1) = (HalfBits + n) + 1
    BY Bits
  <2>2. PowerOfTwo[HalfBits + n] = Half * PowerOfTwo[n]
    BY <1>4, <2>1
  <2>3. PowerOfTwo[(HalfBits + n) + 1] = 2 * PowerOfTwo[HalfBits + n]
    BY <2>1, PowerFacts
  <2>4. PowerOfTwo[n + 1] = 2 * PowerOfTwo[n]
    BY <2>1, PowerFacts
  <2>5. PowerOfTwo[n] \in Nat
    BY <2>1, PowerNat
  <2> DEFINE x == PowerOfTwo[n]
             h == Half
  <2>6. 2 * (h * x) = h * (2 * x)
    <3>1. x \in Nat /\ h \in Nat
      BY <1>2, <2>5
    <3> HIDE DEF x, h
    <3> QED BY <3>1
  <2> QED BY <2>1, <2>2, <2>3, <2>4, <2>6
<1> HIDE DEF T
<1>5. \A n \in Nat : n \in T
  BY <1>3, <1>4, AllNats
<1>6. HalfBits \in T
  BY <1>5, Bits
<1>7. PowerOfTwo[HalfBits + HalfBits] = Half * Half
  BY <1>6, Bits DEF T, Half
<1> QED BY <1>2, <1>7, Bits DEF Words

LEMMA Wrapped == ASSUME NEW x \in Int PROVE x % Words \in Word
<1> DEFINE m == Words
<1>1. m \in Nat /\ m >= 1
  BY HalfWords
<1> HIDE DEF m
<1>2. x % m \in 0 .. m - 1
  BY <1>1
<1> QED BY <1>2 DEF m, Word

LEMMA Bitwise01 ==
  ASSUME NEW w \in Nat, NEW k \in 0 .. WordBits - 1
  PROVE  BitAt(w, k) \in {0, 1} /\ w \div PowerOfTwo[k] \in Nat
<1> DEFINE p == PowerOfTwo[k]
<1>1. p \in Nat /\ p >= 1
  BY PowerNat, Bits
<1> HIDE DEF p
<1>2. w \div p \in Nat
  BY <1>1
<1>3. \A q \in Nat : q % 2 \in {0, 1}
  OBVIOUS
<1> QED BY <1>2, <1>3 DEF BitAt, p

LEMMA BitFacts ==
  ASSUME NEW f \in {"or", "xor", "and"}, NEW a \in {0, 1}, NEW b \in {0, 1}
  PROVE  Bit(f, a, b) \in {0, 1}
<1>1. CASE f = "or"
  BY <1>1 DEF Bit
<1>2. CASE f = "xor"
  BY <1>2 DEF Bit
<1>3. CASE f = "and"
  BY <1>3 DEF Bit
<1> QED BY <1>1, <1>2, <1>3

\* What is put together of the bits below the k-th is less than the k-th power of two.
LEMMA BitByBitWord ==
  ASSUME NEW f \in {"or", "xor", "and"}, NEW a \in Nat, NEW b \in Nat
  PROVE  BitByBit(f, a, b) \in Word
<1> DEFINE Term(k) == PowerOfTwo[k] * Bit(f, BitAt(a, k), BitAt(b, k))
           T == {l \in Nat : \E g : g = [k \in 0 .. l |-> IF k = 0 THEN 0 ELSE g[k - 1] + Term(k - 1)]}
<1>0. \A k \in 0 .. WordBits - 1 : Term(k) \in Nat /\ Term(k) <= PowerOfTwo[k]
  <2> TAKE k \in 0 .. WordBits - 1
  <2> DEFINE c == Bit(f, BitAt(a, k), BitAt(b, k))
             p == PowerOfTwo[k]
  <2>1. c \in {0, 1}
    BY Bitwise01, BitFacts
  <2>2. p \in Nat
    BY PowerNat, Bits
  <2> HIDE DEF c, p
  <2>3. p * c \in Nat /\ p * c <= p
    BY <2>1, <2>2
  <2> QED BY <2>3 DEF c, p
<1> HIDE DEF Term
<1>1. 0 \in T
  <2> DEFINE g == [k \in 0 .. 0 |-> 0]
  <2>1. g = [k \in 0 .. 0 |-> IF k = 0 THEN 0 ELSE g[k - 1] + Term(k - 1)]
    OBVIOUS
  <2> QED BY <2>1
<1>2. ASSUME NEW l \in Nat, l \in T PROVE l + 1 \in T
  <2>1. PICK g : g = [k \in 0 .. l |-> IF k = 0 THEN 0 ELSE g[k - 1] + Term(k - 1)]
    BY <1>2
  <2> DEFINE h == [k \in 0 .. l + 1 |-> IF k = 0 THEN 0 ELSE g[k - 1] + Term(k - 1)]
  <2>2. \A k \in 0 .. l : g[k] = IF k = 0 THEN 0 ELSE g[k - 1] + Term(k - 1)
    <3> DEFINE e == [k \in 0 .. l |-> IF k = 0 THEN 0 ELSE g[k - 1] + Term(k - 1)]
    <3>1. \A k \in 0 .. l : e[k] = IF k = 0 THEN 0 ELSE g[k - 1] + Term(k - 1)
      OBVIOUS
    <3>2. g = e
      BY <2>1
    <3> HIDE DEF e
    <3> QED BY <3>1, <3>2
  <2>3. \A k \in 0 .. l + 1 : h[k] = IF k = 0 THEN 0 ELSE g[k - 1] + Term(k - 1)
    OBVIOUS
  <2>4. \A k \in 0 .. l : g[k] = h[k]
    <3> TAKE k \in 0 .. l
    <3>1. k \in 0 .. l + 1
      OBVIOUS
    <3> QED BY <2>2, <2>3, <3>1
  <2> HIDE DEF h
  <2>5. \A k \in 0 .. l + 1 : k # 0 => g[k - 1] = h[k - 1]
    <3> TAKE k \in 0 .. l + 1
    <3> HAVE k # 0
    <3>1. k - 1 \in 0 .. l
      OBVIOUS
    <3> QED BY <2>4, <3>1
  <2>6. h = [k \in 0 .. l + 1 |-> IF k = 0 THEN 0 ELSE h[k - 1] + Term(k - 1)]
    BY <2>5 DEF h
  <2>7. l + 1 \in Nat
    OBVIOUS
  <2> QED BY <2>6, <2>7
<1>3. WordBits \in T
  <2> HIDE DEF T
  <2>1. \A n \in Nat : n \in T
    BY <1>1, <1>2, AllNats
  <2> QED BY <2>1, Bits
<1> DEFINE B == CHOOSE g : g = [k \in 0 .. WordBits |-> IF k = 0 THEN 0 ELSE g[k - 1] + Term(k - 1)]
<1>4. B = [k \in 0 .. WordBits |-> IF k = 0 THEN 0 ELSE B[k - 1] + Term(k - 1)]
  BY <1>3
<1>5. BitByBit(f, a, b) = B[WordBits]
  BY DEF BitByBit, Term
<1> HIDE DEF B, T
<1>6. \A k \in 0 .. WordBits : B[k] = IF k = 0 THEN 0 ELSE B[k - 1] + Term(k - 1)
  <2> DEFINE e == [k \in 0 .. WordBits |-> IF k = 0 THEN 0 ELSE B[k - 1] + Term(k - 1)]
  <2>1. \A k \in 0 .. WordBits : e[k] = IF k = 0 THEN 0 ELSE B[k - 1] + Term(k - 1)
    OBVIOUS
  <2>2. B = e
    BY <1>4
  <2> HIDE DEF e
  <2> QED BY <2>1, <2>2
<1> DEFINE U == {k \in Nat : k <= WordBits => B[k] \in Nat /\ B[k] < PowerOfTwo[k]}
<1>7. 0 \in U
  BY <1>6, PowerFacts, Bits
<1>8. ASSUME NEW k \in Nat, k \in U PROVE k + 1 \in U
  <2> SUFFICES ASSUME k + 1 <= WordBits
               PROVE  B[k + 1] \in Nat /\ B[k + 1] < PowerOfTwo[k + 1]
    OBVIOUS
  <2>1. /\ k <= WordBits /\ k \in 0 .. WordBits - 1 /\ k \in 0 .. WordBits
        /\ k + 1 \in 0 .. WordBits /\ k + 1 # 0 /\ (k + 1) - 1 = k
    BY Bits
  <2>2. B[k + 1] = B[k] + Term(k)
    BY <1>6, <2>1
  <2>3. PowerOfTwo[k + 1] = 2 * PowerOfTwo[k] /\ PowerOfTwo[k] \in Nat
    BY <2>1, PowerFacts, PowerNat
  <2>4. B[k] \in Nat /\ B[k] < PowerOfTwo[k]
    BY <1>8, <2>1
  <2>5. Term(k) \in Nat /\ Term(k) <= PowerOfTwo[k]
    BY <1>0, <2>1
  <2> QED BY <2>2, <2>3, <2>4, <2>5
<1> HIDE DEF U
<1>9. \A k \in Nat : k \in U
  BY <1>7, <1>8, AllNats
<1>10. B[WordBits] \in Nat /\ B[WordBits] < Words
  BY <1>9, Bits DEF U, Words
<1> QED BY <1>5, <1>10, HalfWords DEF Word

LEMMA WordNat == Word \subseteq Nat /\ 0 \in Word /\ Unknown \notin Word
BY HalfWords DEF Word, Unknown

LEMMA LowWord ==
  ASSUME NEW w \in Word, NEW u \in Word
  PROVE  Low(w) \in Word /\ Low(w) + Half * Low(u) \in Word
<1> DEFINE h == Half
           x == w % h
           y == u % h
<1>1. h \in Nat /\ h >= 1 /\ Words = h * h /\ w \in Nat /\ u \in Nat
  BY HalfWords, WordNat
<1> HIDE DEF h
<1>2. x \in 0 .. h - 1 /\ y \in 0 .. h - 1
  BY <1>1
<1> HIDE DEF x, y
<1>3. h * y <= h * (h - 1)
  BY <1>1, <1>2
<1>4. h * (h - 1) = h * h - h /\ h * y \in Nat /\ h * h \in Nat
  BY <1>1, <1>2
<1>5. x + h * y \in 0 .. h * h - 1
  BY <1>1, <1>2, <1>3, <1>4
<1>6. h <= h * h
  BY <1>1
<1>7. x \in 0 .. h * h - 1
  BY <1>1, <1>2, <1>4, <1>6
<1> QED BY <1>1, <1>5, <1>7 DEF x, y, h, Low, Word

\* Arithmetic on words gives words.
LEMMA ArithWord ==
  ASSUME NEW f \in Arith, NEW v \in Word, NEW imm \in Word
  PROVE  ApplyArith(f, v, imm) \in Word
<1> DEFINE n == imm % WordBits
           p == PowerOfTwo[n]
<1>1. v \in Nat /\ imm \in Nat
  BY WordNat
<1>2. n \in 0 .. WordBits
  <2> DEFINE b == WordBits
  <2>1. b \in Nat /\ b >= 1
    BY Bits
  <2> HIDE DEF b
  <2>2. imm % b \in 0 .. b
    BY <1>1, <2>1
  <2> QED BY <2>2 DEF b
<1>3. p \in Nat /\ p >= 1
  BY <1>2, PowerNat
<1> HIDE DEF n
<1>4. CASE f \in {"or", "xor", "and"}
  BY <1>1, <1>4, BitByBitWord DEF ApplyArith
<1>5. CASE f = "add"
  BY <1>1, <1>5, Wrapped DEF ApplyArith, Plus
<1>6. CASE f = "sub"
  BY <1>1, <1>6, Wrapped DEF ApplyArith
<1>7. CASE f = "shl"
  <2> HIDE DEF p
  <2>1. v * p \in Int
    BY <1>1, <1>3
  <2> QED BY <1>7, <2>1, Wrapped DEF ApplyArith, p, n
<1>8. CASE f = "shr"
  <2> HIDE DEF p
  <2>1. v \div p \in Nat /\ v \div p <= v
    BY <1>1, <1>3
  <2>2. v \div p \in Word
    BY <2>1, HalfWords DEF Word
  <2> QED BY <1>8, <2>2 DEF ApplyArith, p, n
<1>9. CASE f = "sar"
  <2> HIDE DEF p
  <2>1. SignedWord(v) \in Int
    BY <1>1, HalfWords DEF SignedWord
  <2>2. SignedWord(v) \div p \in Int
    BY <1>3, <2>1
  <2> QED BY <1>9, <2>2, Wrapped DEF ApplyArith, p, n
<1> QED BY <1>4, <1>5, <1>6, <1>7, <1>8, <1>9 DEF Arith

-----------------------------------------------------------------------------
(* What the processor does *)

Value == Word \cup {Unknown}
Cpu == [pc : Value, regs : [Reg -> Value], stack : Seq(Value)]

\* An instruction the recognizer takes for what it is.
IsPlain(i) == ~IsNarrow(i) /\ ~IsElsewhere(i)

LEMMA InstrFacts ==
  ASSUME NEW i \in Instr
  PROVE  /\ i.len \in Nat
         /\ i.op \in {"movi", "lea"} => i.r \in Reg /\ i.imm \in Word /\ i.size \in {1, 4, 8}
         /\ i.op = "load" => i.r \in Reg /\ i.slot.addr \in Word /\ i.size \in {4, 8}
         /\ i.op = "alu" => i.r \in Reg /\ i.imm \in Word /\ i.f \in Arith /\ i.size \in {4, 8}
         /\ i.op \in {"pushi", "movsp4", "jmp", "jcc", "loop", "call"} => i.imm \in Word
         /\ i.op \in {"pushr", "jmpr", "callr"} => i.r \in Reg
         /\ i.op \in {"jmpm", "callm"} => i.slot.addr \in Word
<1>1. i \in Instruction
  BY BranchResolveAssumption
<1>2. CASE i \in [op : {"movi", "lea"}, r : Reg, size : {1, 4, 8}, imm : Word, len : Nat]
  BY <1>2
<1>3. CASE i \in [op : {"load"}, r : Reg, size : {4, 8}, slot : Slots, len : Nat]
  BY <1>3 DEF Slots
<1>4. CASE i \in [op : {"alu"}, f : Arith, r : Reg, size : {4, 8}, imm : Word, len : Nat]
  BY <1>4
<1>5. CASE i \in [op : {"pushi", "movsp4", "jmp", "jcc", "loop", "call"}, imm : Word, len : Nat]
  BY <1>5
<1>6. CASE i \in [op : {"pushr", "jmpr", "callr"}, r : Reg, len : Nat]
  BY <1>6
<1>7. CASE i \in [op : {"jmpm", "callm"}, slot : Slots, len : Nat]
  BY <1>7 DEF Slots
<1>8. CASE i \in [op : {"leave"}, back : BOOLEAN, len : Nat]
  BY <1>8
<1>9. CASE i \in [op : {"ret", "other"}, len : Nat]
  BY <1>9
<1> QED BY <1>1, <1>2, <1>3, <1>4, <1>5, <1>6, <1>7, <1>8, <1>9 DEF Instruction

LEMMA MovedOn ==
  ASSUME NEW c \in Cpu, NEW n \in Nat
  PROVE  LET on == [c EXCEPT !.pc = Plus(@, n)]
         IN  on \in Cpu /\ on.regs = c.regs /\ on.stack = c.stack /\ on.pc \in Word
<1>1. c.pc \in Int
  <2>1. c.pc \in Value
    BY DEF Cpu
  <2>2. Word \subseteq Int /\ Unknown \in Int
    BY WordNat DEF Unknown
  <2> QED BY <2>1, <2>2 DEF Value
<1>2. c.pc + n \in Int
  BY <1>1
<1>3. Plus(c.pc, n) \in Word
  BY <1>2, Wrapped DEF Plus
<1> QED BY <1>3 DEF Cpu, Value

LEMMA PushedFacts ==
  ASSUME NEW c \in Cpu, NEW v \in Value
  PROVE  /\ Pushed(c, v) \in Cpu /\ Pushed(c, v).regs = c.regs
         /\ Pushed(c, v).stack # <<>> /\ Head(Pushed(c, v).stack) = v
<1> DEFINE t == <<v>> \o c.stack
<1>1. c.stack \in Seq(Value)
  BY DEF Cpu
<1>2. t \in Seq(Value) /\ t # <<>> /\ Head(t) = v
  BY <1>1
<1> HIDE DEF t
<1>3. Pushed(c, v) = [c EXCEPT !.stack = t]
  BY DEF Pushed, t
<1> QED BY <1>2, <1>3 DEF Cpu

LEMMA PoppedFacts ==
  ASSUME NEW c \in Cpu, c.stack # <<>>
  PROVE  Popped(c) \in Cpu /\ Popped(c).pc = Head(c.stack)
<1>1. c.stack \in Seq(Value)
  BY DEF Cpu
<1>2. Head(c.stack) \in Value /\ Tail(c.stack) \in Seq(Value)
  BY <1>1
<1> QED BY <1>2 DEF Popped, Cpu

LEMMA SetFacts ==
  ASSUME NEW c \in Cpu, NEW r \in Reg, NEW v \in Value
  PROVE  LET d == [c EXCEPT !.regs[r] = v]
         IN  d \in Cpu /\ d.regs[r] = v
BY DEF Cpu

LEMMA ExecuteSets ==
  ASSUME NEW memory, NEW c \in Cpu, NEW i \in Instr, IsPlain(i), i.op \in {"movi", "lea"}
  PROVE  /\ Execute(memory, c, i) \in Cpu
         /\ Execute(memory, c, i).regs[i.r] = Loaded(i) /\ Loaded(i) \in Word
<1> DEFINE on == [c EXCEPT !.pc = Plus(@, i.len)]
<1>1. i.r \in Reg /\ i.imm \in Word /\ i.len \in Nat
  BY InstrFacts
<1>2. on \in Cpu
  BY <1>1, MovedOn
<1> HIDE DEF on
<1>3. Execute(memory, c, i) = Set(on, i, i.imm)
  BY DEF Execute, on
<1>4. i.size \in {4, 8} /\ (i.op = "lea" => i.size = 8)
  BY InstrFacts DEF IsPlain, IsNarrow
<1>5. Known(i.imm)
  BY <1>1, WordNat DEF Known
<1>6. Loaded(i) = IF i.size = 4 THEN Low(i.imm) ELSE i.imm
  BY <1>4 DEF Loaded
<1>7. Set(on, i, i.imm) = [on EXCEPT !.regs[i.r] = Loaded(i)]
  BY <1>4, <1>5, <1>6 DEF Set, Narrowed
<1>8. Loaded(i) \in Word
  BY <1>1, <1>6, LowWord
<1> QED BY <1>1, <1>2, <1>3, <1>7, <1>8, SetFacts DEF Value

LEMMA ExecuteLoads ==
  ASSUME NEW memory, NEW c \in Cpu, NEW i \in Instr, IsPlain(i), i.op = "load",
         i.slot.static, memory[i.slot.addr] \in Value
  PROVE  /\ Execute(memory, c, i) \in Cpu
         /\ Execute(memory, c, i).regs[i.r] = memory[i.slot.addr]
<1> DEFINE on == [c EXCEPT !.pc = Plus(@, i.len)]
           v == memory[i.slot.addr]
<1>1. i.r \in Reg /\ i.len \in Nat
  BY InstrFacts
<1>2. on \in Cpu
  BY <1>1, MovedOn
<1>3. i.size = 8 /\ ~i.slot.seg
  BY DEF IsPlain, IsNarrow, IsElsewhere
<1>4. Read(memory, i.slot) = v
  BY <1>3 DEF Read
<1> HIDE DEF on, v
<1>5. Execute(memory, c, i) = Set(on, i, v)
  BY <1>4 DEF Execute, on
<1>6. Set(on, i, v) = [on EXCEPT !.regs[i.r] = v]
  BY <1>3 DEF Set, Narrowed
<1>7. v \in Value
  BY DEF v
<1> QED BY <1>1, <1>2, <1>5, <1>6, <1>7, SetFacts DEF v

LEMMA ExecuteComputes ==
  ASSUME NEW memory, NEW c \in Cpu, NEW i \in Instr, IsPlain(i), i.op = "alu", c.regs[i.r] \in Word
  PROVE  /\ Execute(memory, c, i) \in Cpu
         /\ Execute(memory, c, i).regs[i.r] = ApplyArith(i.f, c.regs[i.r], i.imm)
         /\ ApplyArith(i.f, c.regs[i.r], i.imm) \in Word
<1> DEFINE on == [c EXCEPT !.pc = Plus(@, i.len)]
           v == ApplyArith(i.f, c.regs[i.r], i.imm)
<1>1. i.r \in Reg /\ i.len \in Nat /\ i.f \in Arith /\ i.imm \in Word
  BY InstrFacts
<1>2. on \in Cpu
  BY <1>1, MovedOn
<1>3. i.size = 8
  BY DEF IsPlain, IsNarrow
<1>4. v \in Word
  BY <1>1, ArithWord
<1>5. Known(c.regs[i.r])
  BY WordNat DEF Known
<1> HIDE DEF on, v
<1>6. Execute(memory, c, i) = Set(on, i, v)
  BY <1>5 DEF Execute, on, v
<1>7. Set(on, i, v) = [on EXCEPT !.regs[i.r] = v]
  BY <1>3 DEF Set, Narrowed
<1>8. Execute(memory, c, i) \in Cpu /\ Execute(memory, c, i).regs[i.r] = v
  BY <1>1, <1>2, <1>4, <1>6, <1>7, SetFacts DEF Value
<1> QED BY <1>4, <1>8 DEF v

LEMMA ExecutePushes ==
  ASSUME NEW memory, NEW c \in Cpu, NEW i \in Instr, i.op \in {"pushi", "pushr"}
  PROVE  LET e == Execute(memory, c, i)
         IN  /\ e \in Cpu /\ e.stack # <<>>
             /\ Head(e.stack) = IF i.op = "pushi" THEN i.imm ELSE c.regs[i.r]
<1> DEFINE on == [c EXCEPT !.pc = Plus(@, i.len)]
<1>1. /\ i.len \in Nat
      /\ i.op = "pushi" => i.imm \in Value
      /\ i.op = "pushr" => c.regs[i.r] \in Value
  BY InstrFacts DEF Value, Cpu
<1>2. on \in Cpu
  BY <1>1, MovedOn
<1> HIDE DEF on
<1>3. Execute(memory, c, i) = Pushed(on, IF i.op = "pushi" THEN i.imm ELSE c.regs[i.r])
  BY DEF Execute, on
<1> QED BY <1>1, <1>2, <1>3, PushedFacts

LEMMA ExecuteFixes ==
  ASSUME NEW memory, NEW c \in Cpu, NEW i \in Instr, i.op = "movsp4",
         c.stack # <<>>, Head(c.stack) \in Word
  PROVE  LET e == Execute(memory, c, i)
         IN  /\ e \in Cpu /\ e.stack # <<>>
             /\ Head(e.stack) = Low(Head(c.stack)) + Half * Low(i.imm)
             /\ Head(e.stack) \in Word
<1> DEFINE on == [c EXCEPT !.pc = Plus(@, i.len)]
           v == Low(Head(c.stack)) + Half * Low(i.imm)
           t == <<v>> \o Tail(c.stack)
<1>1. i.len \in Nat /\ i.imm \in Word
  BY InstrFacts
<1>2. on \in Cpu /\ on.stack = c.stack
  BY <1>1, MovedOn
<1>3. v \in Word /\ Known(Head(c.stack))
  BY <1>1, LowWord, WordNat DEF Known
<1> HIDE DEF on, v
<1>4. t \in Seq(Value) /\ t # <<>> /\ Head(t) = v
  <2>1. c.stack \in Seq(Value) /\ v \in Value
    BY <1>3 DEF Cpu, Value
  <2>2. Tail(c.stack) \in Seq(Value)
    BY <2>1
  <2> QED BY <2>1, <2>2
<1> HIDE DEF t
<1>5. Execute(memory, c, i) = [on EXCEPT !.stack = t]
  BY <1>2, <1>3 DEF Execute, on, v, t
<1>6. [on EXCEPT !.stack = t] \in Cpu /\ [on EXCEPT !.stack = t].stack = t
  BY <1>2, <1>4 DEF Cpu
<1>7. Execute(memory, c, i) \in Cpu /\ Execute(memory, c, i).stack = t
  BY <1>5, <1>6
<1> QED BY <1>3, <1>4, <1>7 DEF v

LEMMA ExecuteReturns ==
  ASSUME NEW memory, NEW c \in Cpu, NEW i \in Instr, i.op = "ret", c.stack # <<>>
  PROVE  Execute(memory, c, i) \in Cpu /\ Execute(memory, c, i).pc = Head(c.stack)
<1> DEFINE on == [c EXCEPT !.pc = Plus(@, i.len)]
<1>1. on \in Cpu /\ on.stack = c.stack
  BY InstrFacts, MovedOn
<1> HIDE DEF on
<1>2. Execute(memory, c, i) = Popped(on)
  BY DEF Execute, on
<1> QED BY <1>1, <1>2, PoppedFacts

LEMMA ExecuteJumps ==
  ASSUME NEW memory, NEW c \in Cpu, NEW i \in Instr, IsPlain(i),
         i.op \in {"jmp", "jcc", "loop", "call", "jmpr", "callr", "jmpm", "callm"},
         i.op \in {"jmpm", "callm"} => i.slot.static /\ memory[i.slot.addr] \in Value
  PROVE  LET e == Execute(memory, c, i)
         IN  /\ e \in Cpu
             /\ e.pc = IF i.op \in {"jmpr", "callr"} THEN c.regs[i.r]
                       ELSE IF i.op \in {"jmpm", "callm"} THEN memory[i.slot.addr]
                       ELSE i.imm
<1> DEFINE on == [c EXCEPT !.pc = Plus(@, i.len)]
           back == IF i.op \in CallOps THEN Pushed(on, on.pc) ELSE on
           dst == IF i.op \in {"jmpr", "callr"} THEN c.regs[i.r]
                  ELSE IF i.op \in {"jmpm", "callm"} THEN memory[i.slot.addr]
                  ELSE i.imm
<1>1. on \in Cpu /\ on.regs = c.regs /\ on.pc \in Value
  BY InstrFacts, MovedOn DEF Value
<1> HIDE DEF on
<1>2. back \in Cpu /\ back.regs = c.regs
  BY <1>1, PushedFacts
<1>3. dst \in Value
  BY InstrFacts DEF Value, Cpu
<1>4. i.op \in {"jmpm", "callm"} => Read(memory, i.slot) = dst /\ ~i.slot.far
  BY DEF Read, IsPlain, IsElsewhere
<1> HIDE DEF back, dst
<1>5. Execute(memory, c, i) = [back EXCEPT !.pc = dst]
  <2>1. CASE i.op \in {"jmp", "jcc", "loop", "call"}
    BY <2>1 DEF Execute, on, back, dst
  <2>2. CASE i.op \in {"jmpr", "callr"}
    BY <2>2 DEF Execute, on, back, dst
  <2>3. CASE i.op \in {"jmpm", "callm"}
    BY <1>4, <2>3 DEF Execute, on, back
  <2> QED BY <2>1, <2>2, <2>3
<1>6. [back EXCEPT !.pc = dst] \in Cpu /\ [back EXCEPT !.pc = dst].pc = dst
  BY <1>2, <1>3 DEF Cpu
<1> QED BY <1>5, <1>6 DEF dst

-----------------------------------------------------------------------------
(* Sequences of instructions *)

\* A run is a chain of steps.
LEMMA RunFacts ==
  ASSUME NEW memory, NEW c, NEW S, NEW s \in Seq(S)
  PROVE  \E f : /\ f[0] = c
                /\ \A k \in 1 .. Len(s) : f[k] = Execute(memory, f[k - 1], s[k])
                /\ Run(memory, c, s) = f[Len(s)]
<1> DEFINE Step(d, k) == Execute(memory, d, s[k])
           T == {l \in Nat : \E g : g = [k \in 0 .. l |-> IF k = 0 THEN c ELSE Step(g[k - 1], k)]}
<1> HIDE DEF Step
<1>1. 0 \in T
  <2> DEFINE g == [k \in 0 .. 0 |-> c]
  <2>1. g = [k \in 0 .. 0 |-> IF k = 0 THEN c ELSE Step(g[k - 1], k)]
    OBVIOUS
  <2> QED BY <2>1
<1>2. ASSUME NEW l \in Nat, l \in T PROVE l + 1 \in T
  <2>1. PICK g : g = [k \in 0 .. l |-> IF k = 0 THEN c ELSE Step(g[k - 1], k)]
    BY <1>2
  <2> DEFINE h == [k \in 0 .. l + 1 |-> IF k = 0 THEN c ELSE Step(g[k - 1], k)]
  <2>2. \A k \in 0 .. l : g[k] = IF k = 0 THEN c ELSE Step(g[k - 1], k)
    <3> DEFINE e == [k \in 0 .. l |-> IF k = 0 THEN c ELSE Step(g[k - 1], k)]
    <3>1. \A k \in 0 .. l : e[k] = IF k = 0 THEN c ELSE Step(g[k - 1], k)
      OBVIOUS
    <3>2. g = e
      BY <2>1
    <3> HIDE DEF e
    <3> QED BY <3>1, <3>2
  <2>3. \A k \in 0 .. l + 1 : h[k] = IF k = 0 THEN c ELSE Step(g[k - 1], k)
    OBVIOUS
  <2>4. \A k \in 0 .. l : g[k] = h[k]
    <3> TAKE k \in 0 .. l
    <3>1. k \in 0 .. l + 1
      OBVIOUS
    <3> QED BY <2>2, <2>3, <3>1
  <2> HIDE DEF h
  <2>5. \A k \in 0 .. l + 1 : k # 0 => g[k - 1] = h[k - 1]
    <3> TAKE k \in 0 .. l + 1
    <3> HAVE k # 0
    <3>1. k - 1 \in 0 .. l
      OBVIOUS
    <3> QED BY <2>4, <3>1
  <2>6. h = [k \in 0 .. l + 1 |-> IF k = 0 THEN c ELSE Step(h[k - 1], k)]
    BY <2>5 DEF h
  <2>7. l + 1 \in Nat
    OBVIOUS
  <2> QED BY <2>6, <2>7
<1> DEFINE n == Len(s)
<1>3. n \in Nat
  OBVIOUS
<1>4. n \in T
  <2> HIDE DEF T, n
  <2>1. \A m \in Nat : m \in T
    BY <1>1, <1>2, AllNats
  <2> QED BY <1>3, <2>1
<1> DEFINE F == CHOOSE g : g = [k \in 0 .. n |-> IF k = 0 THEN c ELSE Step(g[k - 1], k)]
<1>5. F = [k \in 0 .. n |-> IF k = 0 THEN c ELSE Step(F[k - 1], k)]
  BY <1>4
<1>6. Run(memory, c, s) = F[n]
  BY DEF Run, Step
<1> HIDE DEF F, T, n
<1>7. \A k \in 0 .. n : F[k] = IF k = 0 THEN c ELSE Step(F[k - 1], k)
  <2> DEFINE e == [k \in 0 .. n |-> IF k = 0 THEN c ELSE Step(F[k - 1], k)]
  <2>1. \A k \in 0 .. n : e[k] = IF k = 0 THEN c ELSE Step(F[k - 1], k)
    OBVIOUS
  <2>2. F = e
    BY <1>5
  <2> HIDE DEF e
  <2> QED BY <2>1, <2>2
<1>8. F[0] = c /\ \A k \in 1 .. n : F[k] = Step(F[k - 1], k)
  BY <1>3, <1>7
<1> QED BY <1>6, <1>8 DEF Step, n

\* What is computed is a chain of operations.
LEMMA ComputedFacts ==
  ASSUME NEW S, NEW s \in Seq(S), s # <<>>
  PROVE  \E f : /\ f[1] = Loaded(s[1])
                /\ \A k \in 2 .. Len(s) :
                     f[k] = IF s[k].op = "alu" THEN ApplyArith(s[k].f, f[k - 1], s[k].imm) ELSE f[k - 1]
                /\ Computed(s) = f[Len(s)]
<1> DEFINE First == Loaded(s[1])
           Step(d, k) == IF s[k].op = "alu" THEN ApplyArith(s[k].f, d, s[k].imm) ELSE d
           T == {l \in Nat : \E g : g = [k \in 1 .. l |-> IF k = 1 THEN First ELSE Step(g[k - 1], k)]}
<1> HIDE DEF Step, First
<1>1. 0 \in T
  <2> DEFINE g == [k \in 1 .. 0 |-> First]
  <2>1. g = [k \in 1 .. 0 |-> IF k = 1 THEN First ELSE Step(g[k - 1], k)]
    OBVIOUS
  <2> QED BY <2>1
<1>2. ASSUME NEW l \in Nat, l \in T PROVE l + 1 \in T
  <2>1. PICK g : g = [k \in 1 .. l |-> IF k = 1 THEN First ELSE Step(g[k - 1], k)]
    BY <1>2
  <2> DEFINE h == [k \in 1 .. l + 1 |-> IF k = 1 THEN First ELSE Step(g[k - 1], k)]
  <2>2. \A k \in 1 .. l : g[k] = IF k = 1 THEN First ELSE Step(g[k - 1], k)
    <3> DEFINE e == [k \in 1 .. l |-> IF k = 1 THEN First ELSE Step(g[k - 1], k)]
    <3>1. \A k \in 1 .. l : e[k] = IF k = 1 THEN First ELSE Step(g[k - 1], k)
      OBVIOUS
    <3>2. g = e
      BY <2>1
    <3> HIDE DEF e
    <3> QED BY <3>1, <3>2
  <2>3. \A k \in 1 .. l + 1 : h[k] = IF k = 1 THEN First ELSE Step(g[k - 1], k)
    OBVIOUS
  <2>4. \A k \in 1 .. l : g[k] = h[k]
    <3> TAKE k \in 1 .. l
    <3>1. k \in 1 .. l + 1
      OBVIOUS
    <3> QED BY <2>2, <2>3, <3>1
  <2> HIDE DEF h
  <2>5. \A k \in 1 .. l + 1 : k # 1 => g[k - 1] = h[k - 1]
    <3> TAKE k \in 1 .. l + 1
    <3> HAVE k # 1
    <3>1. k - 1 \in 1 .. l
      OBVIOUS
    <3> QED BY <2>4, <3>1
  <2>6. h = [k \in 1 .. l + 1 |-> IF k = 1 THEN First ELSE Step(h[k - 1], k)]
    BY <2>5 DEF h
  <2>7. l + 1 \in Nat
    OBVIOUS
  <2> QED BY <2>6, <2>7
<1> DEFINE n == Len(s)
<1>3. n \in Nat /\ n >= 1
  OBVIOUS
<1>4. n \in T
  <2> HIDE DEF T, n
  <2>1. \A m \in Nat : m \in T
    BY <1>1, <1>2, AllNats
  <2> QED BY <1>3, <2>1
<1> DEFINE F == CHOOSE g : g = [k \in 1 .. n |-> IF k = 1 THEN First ELSE Step(g[k - 1], k)]
<1>5. F = [k \in 1 .. n |-> IF k = 1 THEN First ELSE Step(F[k - 1], k)]
  BY <1>4
<1>6. Computed(s) = F[n]
  <2>1. F = CHOOSE g : g = [k \in 1 .. n |->
               IF k = 1 THEN Loaded(s[1])
               ELSE IF s[k].op = "alu" THEN ApplyArith(s[k].f, g[k - 1], s[k].imm) ELSE g[k - 1]]
    BY DEF Step, First
  <2> QED BY <2>1 DEF Computed
<1> HIDE DEF F, T, n
<1>7. \A k \in 1 .. n : F[k] = IF k = 1 THEN First ELSE Step(F[k - 1], k)
  <2> DEFINE e == [k \in 1 .. n |-> IF k = 1 THEN First ELSE Step(F[k - 1], k)]
  <2>1. \A k \in 1 .. n : e[k] = IF k = 1 THEN First ELSE Step(F[k - 1], k)
    OBVIOUS
  <2>2. F = e
    BY <1>5
  <2> HIDE DEF e
  <2> QED BY <2>1, <2>2
<1>8. F[1] = First /\ \A k \in 2 .. n : F[k] = Step(F[k - 1], k)
  BY <1>3, <1>7
<1> QED BY <1>6, <1>8 DEF Step, First, n

-----------------------------------------------------------------------------
(* Idioms *)

\* The first j instructions of s leave in one register what Through takes for the
\* destination.
Computes(s, j) ==
  /\ j \in 1 .. Len(s)
  /\ s[1].op \in {"movi", "lea", "load"}
  /\ \A k \in 2 .. j : s[k].op = "alu" /\ s[k].r = s[1].r /\ s[1].op = "movi"

\* The memory holds something where the instruction i reads it.
Holds(memory, i) ==
  i.op \in {"load", "jmpm", "callm"} => i.slot.static /\ memory[i.slot.addr] \in Value

\* f are the processor's states from c on, g what Computed makes of s.
Steps(memory, c, s, f) ==
  f[0] = c /\ \A k \in 1 .. Len(s) : f[k] = Execute(memory, f[k - 1], s[k])
Values(s, g) ==
  /\ g[1] = Loaded(s[1])
  /\ \A k \in 2 .. Len(s) :
       g[k] = IF s[k].op = "alu" THEN ApplyArith(s[k].f, g[k - 1], s[k].imm) ELSE g[k - 1]

\* After j instructions the register holds what was loaded or computed.
Reached(memory, s, f, g, j) ==
  /\ f[j] \in Cpu /\ s[1].r \in Reg
  /\ f[j].regs[s[1].r] = IF s[1].op = "load" THEN memory[s[1].slot.addr] ELSE g[j]
  /\ s[1].op # "load" => g[j] \in Word

LEMMA ComputesFacts ==
  ASSUME NEW memory, NEW c \in Cpu, NEW s \in Seq(Instr), NEW j, Computes(s, j),
         \A k \in DOMAIN s : IsPlain(s[k]), Holds(memory, s[1]),
         NEW f, Steps(memory, c, s, f), NEW g, Values(s, g)
  PROVE  Reached(memory, s, f, g, j)
<1>0. /\ f[0] = c /\ \A k \in 1 .. Len(s) : f[k] = Execute(memory, f[k - 1], s[k])
      /\ g[1] = Loaded(s[1])
      /\ \A k \in 2 .. Len(s) :
           g[k] = IF s[k].op = "alu" THEN ApplyArith(s[k].f, g[k - 1], s[k].imm) ELSE g[k - 1]
  BY DEF Steps, Values
<1> DEFINE r == s[1].r
           n == Len(s)
           Good(k) == /\ f[k] \in Cpu
                      /\ f[k].regs[r] = IF s[1].op = "load" THEN memory[s[1].slot.addr] ELSE g[k]
                      /\ s[1].op # "load" => g[k] \in Word
           T == {l \in Nat : l + 1 <= j => Good(l + 1)}
<1>1. /\ n \in Nat /\ DOMAIN s = 1 .. n /\ j \in Nat /\ 1 <= j /\ j <= n
      /\ \A k \in 1 .. n : s[k] \in Instr /\ IsPlain(s[k])
  BY DEF Computes
<1>2. r \in Reg
  BY <1>1, InstrFacts DEF Computes
<1> HIDE DEF r, n
<1>3. 0 \in T
  <2>1. 1 \in 1 .. n /\ f[1] = Execute(memory, c, s[1])
    <3>1. 1 \in 1 .. n /\ 1 - 1 = 0
      BY <1>1
    <3>2. f[1] = Execute(memory, f[1 - 1], s[1])
      BY <1>0, <3>1 DEF n
    <3> QED BY <1>0, <3>1, <3>2
  <2>2. CASE s[1].op = "load"
    <3>1. s[1].slot.static /\ memory[s[1].slot.addr] \in Value
      BY <2>2 DEF Holds
    <3>2. Good(1)
      BY <1>0, <1>1, <2>1, <2>2, <3>1, ExecuteLoads DEF r
    <3> HIDE DEF Good
    <3> QED BY <3>2
  <2>3. CASE s[1].op \in {"movi", "lea"}
    <3>2. Good(1)
      BY <1>0, <1>1, <2>1, <2>3, ExecuteSets DEF r
    <3> HIDE DEF Good
    <3> QED BY <3>2
  <2> QED BY <2>2, <2>3 DEF Computes
<1>4. ASSUME NEW l \in Nat, l \in T PROVE l + 1 \in T
  <2> SUFFICES ASSUME (l + 1) + 1 <= j PROVE Good((l + 1) + 1)
    OBVIOUS
  <2> DEFINE k == (l + 1) + 1
             i == s[k]
  <2>1. k \in 2 .. j /\ k \in 2 .. n /\ k \in 1 .. n /\ k - 1 = l + 1 /\ l + 1 <= j
    BY <1>1
  <2>2. Good(k - 1)
    <3> HIDE DEF Good
    <3> QED BY <1>4, <2>1
  <2> HIDE DEF k
  <2>3. i.op = "alu" /\ i.r = r /\ s[1].op = "movi" /\ i \in Instr /\ IsPlain(i)
    BY <1>1, <2>1 DEF Computes, r
  <2>4. f[k] = Execute(memory, f[k - 1], i)
    BY <1>0, <2>1 DEF n
  <2>5. g[k] = ApplyArith(i.f, g[k - 1], i.imm)
    BY <1>0, <2>1, <2>3 DEF n
  <2>6. f[k - 1] \in Cpu /\ f[k - 1].regs[i.r] = g[k - 1] /\ g[k - 1] \in Word
    BY <2>2, <2>3
  <2> HIDE DEF i
  <2>7. /\ Execute(memory, f[k - 1], i) \in Cpu
        /\ Execute(memory, f[k - 1], i).regs[i.r] = ApplyArith(i.f, f[k - 1].regs[i.r], i.imm)
        /\ ApplyArith(i.f, f[k - 1].regs[i.r], i.imm) \in Word
    BY <2>3, <2>6, ExecuteComputes
  <2>8. Good(k)
    BY <2>3, <2>4, <2>5, <2>6, <2>7
  <2> HIDE DEF Good
  <2> QED BY <2>8 DEF k
<1>5. Good(j)
  <2> HIDE DEF T, Good
  <2>1. \A l \in Nat : l \in T
    BY <1>3, <1>4, AllNats
  <2>2. j - 1 \in T /\ (j - 1) + 1 = j
    BY <1>1, <2>1
  <2> QED BY <1>1, <2>2 DEF T
<1> QED BY <1>2, <1>5 DEF r, Reached

\* A sequence that Scan takes for a jump through a register: what it computes, and then
\* a jump or call through the register, or a push of it and a return.
Idiom(s) ==
  \/ /\ Len(s) > 1 /\ Computes(s, Len(s) - 1)
     /\ s[Len(s)].op \in {"jmpr", "callr"} /\ s[Len(s)].r = s[1].r
  \/ /\ Len(s) > 2 /\ Computes(s, Len(s) - 2)
     /\ s[Len(s) - 1].op = "pushr" /\ s[Len(s) - 1].r = s[1].r
     /\ s[Len(s)].op = "ret"

LEMMA IdiomArrives ==
  ASSUME NEW memory, NEW c \in Cpu, NEW s \in Seq(Instr), Idiom(s),
         \A k \in DOMAIN s : IsPlain(s[k]), Holds(memory, s[1])
  PROVE  /\ Run(memory, c, s) \in Cpu
         /\ Run(memory, c, s).pc = IF s[1].op = "load" THEN memory[s[1].slot.addr] ELSE Computed(s)
         /\ s[1].op # "load" => Computed(s) \in Word
<1> DEFINE n == Len(s)
           r == s[1].r
<1>1. /\ n \in Nat /\ n > 1 /\ s # <<>> /\ DOMAIN s = 1 .. n
      /\ \A k \in 1 .. n : s[k] \in Instr /\ IsPlain(s[k])
  BY DEF Idiom
<1>2. PICK f : Steps(memory, c, s, f) /\ Run(memory, c, s) = f[Len(s)]
  BY ONLY RunFacts, s \in Seq(Instr) DEF Steps
<1>3. PICK g : Values(s, g) /\ Computed(s) = g[Len(s)]
  <2>1. s # <<>>
    BY <1>1
  <2> QED BY ONLY ComputedFacts, s \in Seq(Instr), <2>1 DEF Values
<1>4. ASSUME NEW j, Computes(s, j) PROVE Reached(memory, s, f, g, j)
  <2>1. \A k \in DOMAIN s : IsPlain(s[k])
    OBVIOUS
  <2> QED BY <1>2, <1>3, <1>4, <2>1, ComputesFacts
<1> HIDE DEF n
<1>5. f[n] = Execute(memory, f[n - 1], s[n]) /\ s[n] \in Instr /\ IsPlain(s[n])
      /\ g[n] = IF s[n].op = "alu" THEN ApplyArith(s[n].f, g[n - 1], s[n].imm) ELSE g[n - 1]
  <2>1. n \in 1 .. n /\ n \in 2 .. n
    BY <1>1
  <2> QED BY <1>1, <1>2, <1>3, <2>1 DEF Steps, Values, n
<1>6. CASE /\ Computes(s, n - 1)
           /\ s[n].op \in {"jmpr", "callr"} /\ s[n].r = r
  <2>1. Reached(memory, s, f, g, n - 1)
    BY <1>4, <1>6
  <2>2. g[n] = g[n - 1]
    BY <1>5, <1>6
  <2>3. f[n] \in Cpu /\ f[n].pc = f[n - 1].regs[r]
    <3>1. f[n - 1] \in Cpu
      BY <2>1 DEF Reached
    <3> DEFINE i == s[n]
    <3>2. i \in Instr /\ IsPlain(i) /\ i.op \in {"jmpr", "callr"} /\ i.r = r
      BY <1>5, <1>6
    <3> HIDE DEF r, i
    <3>3. /\ Execute(memory, f[n - 1], i) \in Cpu
          /\ Execute(memory, f[n - 1], i).pc = f[n - 1].regs[i.r]
      BY <3>1, <3>2, ExecuteJumps
    <3> QED BY <1>5, <3>2, <3>3 DEF i
  <2> QED BY <1>2, <1>3, <2>1, <2>2, <2>3 DEF Reached, n
<1>7. CASE /\ n > 2 /\ Computes(s, n - 2)
           /\ s[n - 1].op = "pushr" /\ s[n - 1].r = r
           /\ s[n].op = "ret"
  <2>1. Reached(memory, s, f, g, n - 2)
    BY <1>4, <1>7
  <2>2. /\ f[n - 1] = Execute(memory, f[n - 2], s[n - 1]) /\ s[n - 1] \in Instr
        /\ g[n - 1] = IF s[n - 1].op = "alu" THEN ApplyArith(s[n - 1].f, g[n - 2], s[n - 1].imm)
                      ELSE g[n - 2]
    <3>1. n - 1 \in 1 .. n /\ n - 1 \in 2 .. n /\ (n - 1) - 1 = n - 2
      BY <1>1, <1>7
    <3> QED BY <1>1, <1>2, <1>3, <3>1 DEF Steps, Values, n
  <2>3. g[n] = g[n - 1] /\ g[n - 1] = g[n - 2]
    BY <1>5, <1>7, <2>2
  <2>4. f[n - 1] \in Cpu /\ f[n - 1].stack # <<>> /\ Head(f[n - 1].stack) = f[n - 2].regs[r]
    <3>1. f[n - 2] \in Cpu
      BY <2>1 DEF Reached
    <3> HIDE DEF r
    <3> QED BY <1>7, <2>2, <3>1, ExecutePushes
  <2>5. f[n] \in Cpu /\ f[n].pc = Head(f[n - 1].stack)
    <3> HIDE DEF r
    <3> QED BY <1>5, <1>7, <2>4, ExecuteReturns
  <2> QED BY <1>2, <1>3, <2>1, <2>3, <2>4, <2>5 DEF Reached, n
<1> QED BY <1>6, <1>7 DEF Idiom, n

\* push imm; ret, and the same with a second half.
LEMMA PushedArrives ==
  ASSUME NEW memory, NEW c \in Cpu, NEW s \in Seq(Instr), s[1].op = "pushi",
         \/ Len(s) = 2 /\ s[2].op = "ret"
         \/ Len(s) = 3 /\ s[2].op = "movsp4" /\ s[3].op = "ret"
  PROVE  LET dst == IF Len(s) = 2 THEN s[1].imm ELSE Low(s[1].imm) + Half * Low(s[2].imm)
         IN  Run(memory, c, s) \in Cpu /\ Run(memory, c, s).pc = dst /\ dst \in Word
<1> DEFINE n == Len(s)
<1>1. PICK f : /\ f[0] = c
               /\ \A k \in 1 .. n : f[k] = Execute(memory, f[k - 1], s[k])
               /\ Run(memory, c, s) = f[n]
  BY RunFacts
<1>2. /\ n \in {2, 3} /\ \A k \in 1 .. n : s[k] \in Instr
      /\ f[1] = Execute(memory, c, s[1]) /\ f[2] = Execute(memory, f[1], s[2])
      /\ n = 3 => f[3] = Execute(memory, f[2], s[3])
  <2>1. n \in {2, 3} /\ 1 \in 1 .. n /\ 2 \in 1 .. n /\ (n = 3 => 3 \in 1 .. n)
    OBVIOUS
  <2>2. 1 - 1 = 0 /\ 2 - 1 = 1 /\ 3 - 1 = 2
    OBVIOUS
  <2> HIDE DEF n
  <2>3. \A k \in 1 .. n : s[k] \in Instr
    BY DEF n
  <2> QED BY <1>1, <2>1, <2>2, <2>3
<1>3. s[1] \in Instr /\ s[2] \in Instr /\ (n = 3 => s[3] \in Instr)
  BY <1>2
<1>4. f[1] \in Cpu /\ f[1].stack # <<>> /\ Head(f[1].stack) = s[1].imm /\ s[1].imm \in Word
  BY <1>2, <1>3, ExecutePushes, InstrFacts
<1>5. CASE n = 2 /\ s[2].op = "ret"
  BY <1>1, <1>2, <1>3, <1>4, <1>5, ExecuteReturns
<1>6. CASE n = 3 /\ s[2].op = "movsp4" /\ s[3].op = "ret"
  <2>1. /\ f[2] \in Cpu /\ f[2].stack # <<>> /\ Head(f[2].stack) \in Word
        /\ Head(f[2].stack) = Low(s[1].imm) + Half * Low(s[2].imm)
    BY <1>2, <1>3, <1>4, <1>6, ExecuteFixes
  <2>2. f[3] \in Cpu /\ f[3].pc = Head(f[2].stack)
    BY <1>2, <1>3, <1>6, <2>1, ExecuteReturns
  <2> QED BY <1>1, <1>6, <2>1, <2>2
<1> QED BY <1>5, <1>6

LEMMA SingleArrives ==
  ASSUME NEW memory, NEW c \in Cpu, NEW i \in Instr, IsPlain(i), Holds(memory, i),
         i.op \in {"jmp", "jcc", "loop", "call", "jmpm", "callm"}
  PROVE  LET dst == IF i.op \in {"jmpm", "callm"} THEN memory[i.slot.addr] ELSE i.imm
         IN  Run(memory, c, <<i>>) \in Cpu /\ Run(memory, c, <<i>>).pc = dst
<1> DEFINE s == <<i>>
<1>1. s \in Seq({i}) /\ Len(s) = 1 /\ s[1] = i /\ 1 \in 1 .. 1 /\ 1 - 1 = 0
  OBVIOUS
<1> HIDE DEF s
<1>2. PICK f : /\ f[0] = c
               /\ \A k \in 1 .. Len(s) : f[k] = Execute(memory, f[k - 1], s[k])
               /\ Run(memory, c, s) = f[Len(s)]
  BY <1>1, RunFacts
<1>3. Run(memory, c, s) = Execute(memory, c, i)
  BY <1>1, <1>2
<1>4. i.op \in {"jmpm", "callm"} => i.slot.static /\ memory[i.slot.addr] \in Value
  BY DEF Holds
<1> QED BY <1>3, <1>4, ExecuteJumps DEF s

-----------------------------------------------------------------------------
(* What is recognized *)

\* Instructions read so far that an idiom may begin with.
Open(s) ==
  \/ s = <<>>
  \/ s[1].op = "pushr" /\ Len(s) = 1
  \/ s[1].op = "pushi" /\ (Len(s) = 1 \/ (Len(s) = 2 /\ s[2].op = "movsp4"))
  \/ Len(s) >= 1 /\ Computes(s, Len(s))
  \/ /\ Len(s) > 1 /\ Computes(s, Len(s) - 1)
     /\ s[Len(s)].op = "pushr" /\ s[Len(s)].r = s[1].r

LEMMA AppendAt ==
  ASSUME NEW S, NEW s \in Seq(S), NEW i \in S
  PROVE  LET t == Append(s, i)
         IN  /\ t \in Seq(S) /\ Len(t) = Len(s) + 1 /\ t # <<>>
             /\ t[Len(t)] = i /\ \A k \in 1 .. Len(s) : t[k] = s[k]
OBVIOUS

LEMMA SingleFacts ==
  ASSUME NEW i
  PROVE  LET p == Single(i)
         IN  /\ p # More
             /\ p.resolution = "Concrete" =>
                  i.op \in {"jmp", "jcc", "loop", "call"} /\ p.target = i.imm /\ p.count = 1
             /\ p.resolution = "MemoryPointer" =>
                  i.op \in {"jmpm", "callm"} /\ p.slot = i.slot /\ p.size = 8 /\ p.count = 1
             /\ i.op = "jmp" => p.resolution = "Concrete" /\ p.effect = "Jump"
<1>1. CASE i.op \in {"jmp", "jcc", "loop", "call"}
  <2>1. Single(i) = Concrete(EffectOf(i), i.imm, 1)
    BY <1>1 DEF Single
  <2> QED BY <1>1, <2>1 DEF Concrete, Pattern, More, EffectOf, CallOps
<1>2. CASE i.op \in {"jmpm", "callm"}
  <2>1. Single(i) = ByMemory(EffectOf(i), i.slot, 8, 1)
    BY <1>2 DEF Single
  <2> QED BY <1>2, <2>1 DEF ByMemory, Pattern, More
<1>3. CASE i.op \in {"jmpr", "callr"}
  <2>1. Single(i) = ByRegister(EffectOf(i), 1)
    BY <1>3 DEF Single
  <2> QED BY <1>3, <2>1 DEF ByRegister, Pattern, More
<1>4. CASE i.op = "leave"
  <2>1. Single(i) = Pattern("Leaves", IF i.back THEN "Passes" ELSE "Unknown", 0, NoSlot, 8, 1)
    BY <1>4 DEF Single
  <2> QED BY <1>4, <2>1 DEF Pattern, More
<1>5. CASE i.op = "ret"
  <2>1. Single(i) = Pattern("Return", "StackDynamic", 0, NoSlot, 8, 1)
    BY <1>5 DEF Single
  <2> QED BY <1>5, <2>1 DEF Pattern, More
<1>6. CASE i.op \notin {"jmp", "jcc", "loop", "call", "jmpm", "callm", "jmpr", "callr", "leave", "ret"}
  <2>1. Single(i) = Invalid
    BY <1>6 DEF Single
  <2> QED BY <1>6, <2>1 DEF Invalid, Pattern, More
<1> QED BY <1>1, <1>2, <1>3, <1>4, <1>5, <1>6

LEMMA SingleEnds ==
  ASSUME NEW i
  PROVE  LET p == Single(i)
         IN  (p.valid => p.count = 1 /\ i.op \in Transfers) /\ (~p.valid => i.op \notin Transfers)
<1>1. CASE i.op \in {"jmp", "jcc", "loop", "call"}
  <2>1. Single(i) = Concrete(EffectOf(i), i.imm, 1)
    BY <1>1 DEF Single
  <2> QED BY <1>1, <2>1 DEF Concrete, Pattern, Transfers
<1>2. CASE i.op \in {"jmpm", "callm"}
  <2>1. Single(i) = ByMemory(EffectOf(i), i.slot, 8, 1)
    BY <1>2 DEF Single
  <2> QED BY <1>2, <2>1 DEF ByMemory, Pattern, Transfers
<1>3. CASE i.op \in {"jmpr", "callr"}
  <2>1. Single(i) = ByRegister(EffectOf(i), 1)
    BY <1>3 DEF Single
  <2> QED BY <1>3, <2>1 DEF ByRegister, Pattern, Transfers
<1>4. CASE i.op = "leave"
  <2>1. Single(i) = Pattern("Leaves", IF i.back THEN "Passes" ELSE "Unknown", 0, NoSlot, 8, 1)
    BY <1>4 DEF Single
  <2> QED BY <1>4, <2>1 DEF Pattern, Transfers
<1>5. CASE i.op = "ret"
  <2>1. Single(i) = Pattern("Return", "StackDynamic", 0, NoSlot, 8, 1)
    BY <1>5 DEF Single
  <2> QED BY <1>5, <2>1 DEF Pattern, Transfers
<1>6. CASE i.op \notin {"jmp", "jcc", "loop", "call", "jmpm", "callm", "jmpr", "callr", "leave", "ret"}
  <2>1. Single(i) = Invalid
    BY <1>6 DEF Single
  <2> QED BY <1>6, <2>1 DEF Invalid, Pattern, Transfers
<1> QED BY <1>1, <1>2, <1>3, <1>4, <1>5, <1>6

LEMMA ThroughFacts ==
  ASSUME NEW effect, NEW s
  PROVE  LET p == Through(effect, s)
         IN  /\ p # More /\ p.count = Len(s) /\ p.valid
             /\ p.resolution = IF s[1].op = "load" THEN "MemoryPointer" ELSE "Concrete"
             /\ s[1].op = "load" => p.slot = s[1].slot /\ p.size = s[1].size
             /\ s[1].op # "load" => p.target = Computed(s)
BY DEF Through, ByMemory, Concrete, Pattern, More

\* A pattern p of s that names a destination: one instruction, a push and a return, or
\* a register that has been set.
Named(p, s) ==
  /\ p.resolution = "Concrete" =>
       \/ /\ s[1].op \in {"jmp", "jcc", "loop", "call"}
          /\ p.target = s[1].imm /\ p.count = 1
       \/ /\ p.count = Len(s) /\ s[1].op = "pushi"
          /\ \/ /\ Len(s) = 2 /\ s[2].op = "ret" /\ p.target = s[1].imm
             \/ /\ Len(s) = 3 /\ s[2].op = "movsp4" /\ s[3].op = "ret"
                /\ p.target = Low(s[1].imm) + Half * Low(s[2].imm)
       \/ /\ p.count = Len(s) /\ Idiom(s) /\ s[1].op # "load" /\ p.target = Computed(s)
  /\ p.resolution = "MemoryPointer" =>
       \/ /\ s[1].op \in {"jmpm", "callm"}
          /\ p.slot = s[1].slot /\ p.size = 8 /\ p.count = 1
       \/ /\ p.count = Len(s) /\ Idiom(s) /\ s[1].op = "load"
          /\ p.slot = s[1].slot /\ p.size = s[1].size

\* The last instruction of a pattern p of s is its only transfer.
Ending(p, s) ==
  /\ p.valid => /\ p.count \in 1 .. Len(s) /\ s[p.count].op \in Transfers
                /\ \A k \in 1 .. p.count - 1 : s[k].op \notin Transfers /\ s[k].op # "none"
  /\ ~p.valid => s[1].op \notin Transfers

\* One instruction more keeps an idiom open, or ends in a pattern.
Recognized(o, s) ==
  /\ Recognize(o, s) = More => Open(s)
  /\ Recognize(o, s) # More => Named(Recognize(o, s), s) /\ Ending(Recognize(o, s), s)
  /\ s[1].op = "jmp" => /\ Recognize(o, s) # More /\ Recognize(o, s).resolution = "Concrete"
                        /\ Recognize(o, s).effect = "Jump" /\ Recognize(o, s).target = s[1].imm

LEMMA SingleNamed ==
  ASSUME NEW s, Len(s) \in Nat, Len(s) >= 1
  PROVE  Single(s[1]) # More /\ Named(Single(s[1]), s) /\ Ending(Single(s[1]), s)
<1> DEFINE p == Single(s[1])
<1>1. p # More /\ Named(p, s)
  BY SingleFacts DEF Named
<1>2. p.valid => p.count = 1 /\ s[1].op \in Transfers
  BY SingleEnds
<1>3. ~p.valid => s[1].op \notin Transfers
  BY SingleEnds
<1> HIDE DEF p
<1>4. Ending(p, s)
  BY <1>2, <1>3 DEF Ending
<1> QED BY <1>1, <1>4 DEF p

\* An idiom ends with its only transfer.
LEMMA IdiomEnds ==
  ASSUME NEW S, NEW s \in Seq(S), Idiom(s), NEW p, p.valid, p.count = Len(s)
  PROVE  Ending(p, s)
<1> DEFINE n == Len(s)
<1>1. n \in Nat /\ n > 1
  BY DEF Idiom
<1> HIDE DEF n
<1>2. ASSUME NEW j, Computes(s, j)
      PROVE  \A k \in 1 .. j : s[k].op \in {"movi", "lea", "load", "alu"}
  <2>1. j \in Nat /\ j >= 1 /\ s[1].op \in {"movi", "lea", "load"} /\ \A k \in 2 .. j : s[k].op = "alu"
    BY <1>2 DEF Computes
  <2>2. \A k \in 1 .. j : k = 1 \/ k \in 2 .. j
    BY <2>1
  <2> QED BY <2>1, <2>2
<1>3. /\ s[n].op \in {"jmpr", "callr", "ret"}
      /\ \A k \in 1 .. n - 1 : s[k].op \in {"movi", "lea", "load", "alu", "pushr"}
  <2>1. CASE Computes(s, n - 1) /\ s[n].op \in {"jmpr", "callr"}
    BY <1>2, <2>1
  <2>2. CASE Computes(s, n - 2) /\ s[n - 1].op = "pushr" /\ s[n].op = "ret"
    <3>1. \A k \in 1 .. n - 1 : k \in 1 .. n - 2 \/ k = n - 1
      BY <1>1
    <3> QED BY <1>2, <2>2, <3>1
  <2> QED BY <2>1, <2>2 DEF Idiom, n
<1> QED BY <1>1, <1>3 DEF Ending, Transfers, n

LEMMA PushImmRecognized ==
  ASSUME NEW o, NEW S, NEW s \in Seq(S), Open(s), NEW i \in S,
         NEW t, t = Append(s, i), t[1].op = "pushi"
  PROVE  Recognized(o, t)
<1>1. /\ t \in Seq(S) /\ Len(t) = Len(s) + 1 /\ t # <<>>
      /\ t[Len(t)] = i /\ \A k \in 1 .. Len(s) : t[k] = s[k]
      /\ Len(s) \in Nat /\ (s = <<>> <=> Len(s) = 0)
  BY AppendAt
<1>2. Recognize(o, t) = PushImm(t)
  BY DEF Recognize
<1>3. CASE Len(t) = 1
  BY <1>2, <1>3 DEF PushImm, Recognized, Open
<1>4. CASE Len(t) # 1
  <2>1. Len(s) >= 1 /\ s[1].op = "pushi"
    BY <1>1, <1>4
  <2>2. Len(s) = 1 \/ (Len(s) = 2 /\ s[2].op = "movsp4")
    BY <2>1 DEF Open, Computes
  <2>3. CASE Len(t) = 2 /\ t[2].op = "movsp4"
    BY <1>2, <2>3 DEF PushImm, Recognized, Open
  <2>4. CASE Len(t) = 2 /\ t[2].op = "ret"
    <3>1. Recognize(o, t) = Concrete("Jump", t[1].imm, 2)
      BY <1>2, <2>4 DEF PushImm
    <3>2. Ending(Recognize(o, t), t)
      <4>1. \A k \in 1 .. 1 : k = 1
        OBVIOUS
      <4> QED BY <2>1, <2>4, <3>1, <4>1, <1>1 DEF Concrete, Pattern, Ending, Transfers
    <3>3. Recognize(o, t) # More /\ Named(Recognize(o, t), t)
      BY <2>4, <3>1 DEF Concrete, Pattern, More, Named
    <3> QED BY <3>2, <3>3 DEF Recognized
  <2>5. CASE Len(t) = 3 /\ t[3].op = "ret"
    <3>1. Recognize(o, t) = Concrete("Jump", Low(t[1].imm) + Half * Low(t[2].imm), 3)
      BY <1>2, <2>5 DEF PushImm
    <3>2. t[2].op = "movsp4"
      BY <1>1, <2>2, <2>5
    <3>3. Ending(Recognize(o, t), t)
      <4>1. \A k \in 1 .. 2 : k = 1 \/ k = 2
        OBVIOUS
      <4> QED BY <1>1, <2>1, <2>5, <3>1, <3>2, <4>1 DEF Concrete, Pattern, Ending, Transfers
    <3>4. Recognize(o, t) # More /\ Named(Recognize(o, t), t)
      BY <2>5, <3>1, <3>2 DEF Concrete, Pattern, More, Named
    <3> QED BY <3>3, <3>4 DEF Recognized
  <2>6. CASE ~(Len(t) = 2 /\ t[2].op = "movsp4") /\ ~(Len(t) = 2 /\ t[2].op = "ret")
             /\ ~(Len(t) = 3 /\ t[3].op = "ret")
    <3>1. Recognize(o, t) = Single(t[1])
      BY <1>2, <1>4, <2>6 DEF PushImm
    <3>2. Len(t) \in Nat /\ Len(t) >= 1
      BY <1>1
    <3>3. Single(t[1]) # More /\ Named(Single(t[1]), t) /\ Ending(Single(t[1]), t)
      BY <3>2, SingleNamed
    <3> QED BY <3>1, <3>3 DEF Recognized
  <2> QED BY <2>3, <2>4, <2>5, <2>6
<1> QED BY <1>3, <1>4

LEMMA PushRegRecognized ==
  ASSUME NEW o, NEW S, NEW t \in Seq(S), t # <<>>, t[1].op = "pushr"
  PROVE  Recognized(o, t)
<1>1. Recognize(o, t) = PushReg(t)
  BY DEF Recognize
<1>2. CASE Len(t) = 1
  BY <1>1, <1>2 DEF PushReg, Recognized, Open
<1>3. CASE Len(t) = 2 /\ t[2].op = "ret"
  <2>1. Recognize(o, t) = ByRegister("Jump", 2)
    BY <1>1, <1>3 DEF PushReg
  <2>2. Ending(Recognize(o, t), t)
    <3>1. \A k \in 1 .. 1 : k = 1
      OBVIOUS
    <3> QED BY <1>3, <2>1, <3>1 DEF ByRegister, Pattern, Ending, Transfers
  <2> QED BY <2>1, <2>2 DEF ByRegister, Pattern, More, Recognized, Named
<1>4. CASE Len(t) # 1 /\ ~(Len(t) = 2 /\ t[2].op = "ret")
  <2>1. Recognize(o, t) = Single(t[1])
    BY <1>1, <1>4 DEF PushReg
  <2>2. Len(t) \in Nat /\ Len(t) >= 1
    OBVIOUS
  <2> QED BY <2>1, <2>2, SingleNamed DEF Recognized
<1> QED BY <1>2, <1>3, <1>4

LEMMA ScanRecognized ==
  ASSUME NEW o, NEW S, NEW s \in Seq(S), Open(s), NEW i \in S,
         NEW t, t = Append(s, i), t[1].op \in {"movi", "lea", "load"}
  PROVE  Recognized(o, t)
<1> DEFINE n == Len(s)
           last == t[Len(t)]
<1>1. /\ t \in Seq(S) /\ Len(t) = n + 1 /\ t # <<>>
      /\ t[n + 1] = i /\ \A k \in 1 .. n : t[k] = s[k]
      /\ n \in Nat /\ (s = <<>> <=> n = 0)
  BY AppendAt
<1>2. Recognize(o, t) = Scan(o, t)
  BY DEF Recognize
<1> HIDE DEF n
<1>3. CASE n = 0
  <2>1. Computes(t, 1)
    BY <1>1, <1>3 DEF Computes
  <2>2. Open(t)
    BY <1>1, <1>3, <2>1 DEF Open
  <2>3. Scan(o, t) = More \/ Scan(o, t) = Single(t[1])
    BY <1>1, <1>3 DEF Scan
  <2>4. Len(t) \in Nat /\ Len(t) >= 1
    BY <1>1, <1>3
  <2>5. Single(t[1]) # More /\ Named(Single(t[1]), t) /\ Ending(Single(t[1]), t)
    BY <2>4, SingleNamed
  <2> QED BY <1>2, <2>2, <2>3, <2>5 DEF Recognized
<1>4. CASE n >= 1
  <2>0. s[1] = t[1] /\ Len(t) # 1 /\ Len(t) - 1 = n /\ t[n] = s[n]
    BY <1>1, <1>4
  <2>1. \/ Computes(s, n)
        \/ n > 1 /\ Computes(s, n - 1) /\ s[n].op = "pushr" /\ s[n].r = s[1].r
    BY <1>1, <1>4, <2>0 DEF Open, n
  <2>2. \A j \in 1 .. n : Computes(s, j) => Computes(t, j)
    <3> SUFFICES ASSUME NEW j \in 1 .. n, Computes(s, j) PROVE Computes(t, j)
      OBVIOUS
    <3>1. \A k \in 2 .. j : k \in 1 .. n
      BY <1>1
    <3>2. j \in 1 .. Len(t)
      BY <1>1
    <3> QED BY <1>1, <2>0, <3>1, <3>2 DEF Computes
  <2>3. ~(Recognize(o, t) = More) => Recognize(o, t) = Single(t[1]) \/ \E e : Recognize(o, t) = Through(e, t) /\ Idiom(t)
    <3>1. CASE t[n].op = "pushr"
      <4>1. n > 1 /\ Computes(s, n - 1) /\ s[n].r = s[1].r
        <5>1. ~Computes(s, n)
          BY <1>1, <1>4, <2>0, <3>1 DEF Computes
        <5> QED BY <2>1, <5>1
      <4>2. Computes(t, n - 1) /\ n - 1 = Len(t) - 2
        BY <1>1, <2>2, <4>1
      <4>3. Scan(o, t) = IF last.op = "ret" THEN Through("Jump", t) ELSE Single(t[1])
        BY <2>0, <3>1 DEF Scan
      <4>4. last.op = "ret" => Idiom(t)
        BY <1>1, <2>0, <3>1, <4>1, <4>2 DEF Idiom
      <4> QED BY <1>2, <4>3, <4>4
    <3>2. CASE t[n].op # "pushr"
      <4>0. Computes(s, n) /\ n \in 1 .. n
        <5>1. Computes(s, n)
          BY <2>0, <2>1, <3>2
        <5>2. n \in 1 .. n
          BY <1>1, <1>4
        <5> QED BY <5>1, <5>2
      <4>1. Computes(t, n)
        BY <2>2, <4>0
      <4>2. last.op \in {"jmpr", "callr"} /\ last.r = t[1].r => Idiom(t)
        BY <1>1, <1>4, <2>0, <4>1 DEF Idiom
      <4>3. \/ last.op \in {"jmpr", "callr"} /\ last.r = t[1].r /\ Scan(o, t) = Through(EffectOf(last), t)
            \/ Scan(o, t) = More
            \/ Scan(o, t) = Single(t[1])
        BY <2>0, <3>2 DEF Scan
      <4> QED BY <1>2, <4>2, <4>3
    <3> QED BY <3>1, <3>2
  <2>4. Recognize(o, t) = More => Open(t)
    <3> SUFFICES ASSUME Recognize(o, t) = More PROVE Open(t)
      OBVIOUS
    <3>1. t[n].op # "pushr"
      <4> SUFFICES ASSUME t[n].op = "pushr" PROVE FALSE
        OBVIOUS
      <4>1. Scan(o, t) = IF last.op = "ret" THEN Through("Jump", t) ELSE Single(t[1])
        BY <2>0 DEF Scan
      <4> QED BY <1>2, <4>1, ThroughFacts, SingleFacts
    <3>2. Computes(t, n)
      <4>1. Computes(s, n) /\ n \in 1 .. n
        <5>1. Computes(s, n)
          BY <2>0, <2>1, <3>1
        <5>2. n \in 1 .. n
          BY <1>1, <1>4
        <5> QED BY <5>1, <5>2
      <4> QED BY <2>2, <4>1
    <3>3. \/ last.op = "pushr" /\ last.r = t[1].r
          \/ last.op = "alu" /\ t[1].op = "movi" /\ last.r = t[1].r
      <4>1. \/ \E e : Scan(o, t) = Through(e, t)
            \/ Scan(o, t) = Single(t[1])
            \/ last.op = "pushr" /\ last.r = t[1].r
            \/ last.op = "alu" /\ t[1].op = "movi" /\ last.r = t[1].r
        BY <2>0, <3>1 DEF Scan, Folds
      <4> QED BY <1>2, <4>1, ThroughFacts, SingleFacts
    <3>4. CASE last.op = "pushr" /\ last.r = t[1].r
      BY <1>1, <1>4, <2>0, <3>2, <3>4 DEF Open
    <3>5. CASE last.op = "alu" /\ t[1].op = "movi" /\ last.r = t[1].r
      <4>1. \A k \in 2 .. n + 1 : k \in 2 .. n \/ k = n + 1
        BY <1>1
      <4>2. Computes(t, n + 1)
        BY <1>1, <1>4, <3>2, <3>5, <4>1 DEF Computes
      <4> QED BY <1>1, <4>2 DEF Open
    <3> QED BY <3>3, <3>4, <3>5
  <2>5. ASSUME NEW e, Recognize(o, t) = Through(e, t), Idiom(t)
        PROVE  Named(Recognize(o, t), t) /\ Ending(Recognize(o, t), t)
    <3>1. Named(Recognize(o, t), t)
      BY <2>5, ThroughFacts DEF Named
    <3> QED BY <1>1, <2>5, <3>1, ThroughFacts, IdiomEnds
  <2>6. Len(t) \in Nat /\ Len(t) >= 1
    BY <1>1
  <2>7. Single(t[1]) # More /\ Named(Single(t[1]), t) /\ Ending(Single(t[1]), t)
    BY <2>6, SingleNamed
  <2> QED BY <2>3, <2>4, <2>5, <2>7 DEF Recognized
<1> QED BY <1>1, <1>3, <1>4

LEMMA RecognizeFacts ==
  ASSUME NEW o, NEW S, NEW s \in Seq(S), Open(s), NEW i \in S
  PROVE  Recognized(o, Append(s, i))
<1> DEFINE t == Append(s, i)
<1>1. CASE t[1].op = "pushi"
  BY <1>1, PushImmRecognized
<1>0. t \in Seq(S) /\ t # <<>> /\ Len(t) \in Nat /\ Len(t) >= 1
  BY AppendAt
<1>2. CASE t[1].op = "pushr"
  BY <1>0, <1>2, PushRegRecognized
<1>3. CASE t[1].op \in {"movi", "lea", "load"}
  BY <1>3, ScanRecognized
<1>4. CASE t[1].op \notin {"pushi", "pushr", "movi", "lea", "load"}
  <2> HIDE DEF t
  <2>1. Recognize(o, t) = Single(t[1])
    BY <1>4 DEF Recognize
  <2> QED BY <1>0, <2>1, SingleNamed, SingleFacts DEF Recognized, t
<1> QED BY <1>1, <1>2, <1>3, <1>4

-----------------------------------------------------------------------------
(* The invariant *)

\* What is kept is instructions, words, or the lack of them.
TypeOK ==
  /\ opt \in Options /\ asked \in {"one", "all"} /\ pc \in {"fetch", "act", "done"}
  /\ seen \in Seq(Instr \cup {NoInstr})
  /\ \A a \in DOMAIN code : code[a] \in Instr \cup {NoInstr}
  /\ \A a \in DOMAIN mem : mem[a] \in Value

\* What was read is code that an idiom may begin with, or that makes a pattern.
Reading ==
  /\ \A k \in DOMAIN seen : \E a \in DOMAIN code : seen[k] = code[a]
  /\ pc = "fetch" => Open(seen)
  /\ pc = "act" => seen # <<>> /\ Recognize(opt, seen) # More /\ Recognized(opt, seen)

\* A chain is followed from where it has got to, as the options allow.
Following ==
  asked = "one" /\ final # Unknown =>
      /\ opt.follow_memory
      /\ pc # "done" => at = final /\ opt.follow_chains /\ depth < opt.max_chain_depth

\* The processor has come along; what is looked at is the code where it is; and what
\* ended the chain below the bound is no jump to somewhere else.
Along ==
  asked = "one" /\ Plain(code) =>
      /\ cpu \in Cpu /\ at \in Word
      /\ final # Unknown => cpu.pc = final
      /\ pc # "done" /\ seen # <<>> => at \in DOMAIN code /\ seen[1] = code[at]
      /\ pc = "done" /\ final # Unknown /\ opt.follow_chains /\ depth < opt.max_chain_depth
           /\ code[final].op = "jmp" => code[final].imm = final

ChainInv == TypeOK /\ Reading /\ Following /\ Along

-----------------------------------------------------------------------------
(* What a pattern says of the processor *)

LEMMA NoneRead == NoInstr \notin Instr /\ NoInstr.op = "none"
<1>1. NoInstr.op = "none"
  BY DEF NoInstr
<1>2. ASSUME NEW i \in Instr PROVE i.op # "none"
  <2>1. i \in Instruction
    BY BranchResolveAssumption
  <2> QED BY <2>1 DEF Instruction
<1> QED BY <1>1, <1>2

LEMMA AllRead ==
  ASSUME NEW s \in Seq(Instr \cup {NoInstr}), \A k \in 1 .. Len(s) : s[k].op # "none"
  PROVE  s \in Seq(Instr)
<1>1. \A k \in 1 .. Len(s) : s[k] \in Instr
  BY NoneRead
<1> QED BY <1>1

\* An idiom consists of instructions.
LEMMA IdiomRead ==
  ASSUME NEW s \in Seq(Instr \cup {NoInstr}), Idiom(s)
  PROVE  s \in Seq(Instr)
<1> DEFINE n == Len(s)
<1>1. n \in Nat
  OBVIOUS
<1> HIDE DEF n
<1>2. ASSUME NEW j, Computes(s, j) PROVE \A k \in 1 .. j : s[k].op # "none"
  <2>1. j \in Nat /\ j >= 1 /\ s[1].op # "none" /\ \A k \in 2 .. j : s[k].op # "none"
    BY <1>2 DEF Computes
  <2>2. \A k \in 1 .. j : k = 1 \/ k \in 2 .. j
    BY <2>1
  <2> QED BY <2>1, <2>2
<1>3. \A k \in 1 .. n : s[k].op # "none"
  <2>1. CASE Computes(s, n - 1) /\ s[n].op \in {"jmpr", "callr"}
    <3>1. \A k \in 1 .. n : k \in 1 .. n - 1 \/ k = n
      BY <1>1
    <3> QED BY <1>2, <2>1, <3>1
  <2>2. CASE Computes(s, n - 2) /\ s[n - 1].op = "pushr" /\ s[n].op = "ret"
    <3>1. \A k \in 1 .. n : k \in 1 .. n - 2 \/ k = n - 1 \/ k = n
      BY <1>1
    <3> QED BY <1>2, <2>2, <3>1
  <2> QED BY <2>1, <2>2 DEF Idiom, n
<1> QED BY <1>3, AllRead DEF n

LEMMA SameSingle ==
  ASSUME NEW S, NEW a \in Seq(S), NEW b \in Seq(S), Len(a) = 1, Len(b) = 1, a[1] = b[1]
  PROVE  a = b
<1>1. \A k \in 1 .. 1 : k = 1
  OBVIOUS
<1>2. \A k \in 1 .. Len(a) : a[k] = b[k]
  BY <1>1
<1> QED BY <1>2

LEMMA Prefixes ==
  ASSUME NEW S, NEW s \in Seq(S), s # <<>>
  PROVE  SubSeq(s, 1, Len(s)) = s /\ SubSeq(s, 1, 1) = <<s[1]>> /\ s[1] \in S
<1>1. Len(s) \in Nat /\ Len(s) >= 1 /\ 1 \in 1 .. Len(s) /\ s[1] \in S
  OBVIOUS
<1>2. SubSeq(s, 1, Len(s)) = s
  <2>1. SubSeq(s, 1, Len(s)) \in Seq(S) /\ Len(SubSeq(s, 1, Len(s))) = Len(s)
    BY <1>1
  <2>2. \A k \in 1 .. Len(s) : SubSeq(s, 1, Len(s))[k] = s[k]
    BY <1>1
  <2> QED BY <2>1, <2>2
<1>3. SubSeq(s, 1, 1) = <<s[1]>>
  <2>1. SubSeq(s, 1, 1) \in Seq(S) /\ Len(SubSeq(s, 1, 1)) = 1 /\ SubSeq(s, 1, 1)[1] = s[1]
    BY <1>1
  <2>2. <<s[1]>> \in Seq(S) /\ Len(<<s[1]>>) = 1 /\ <<s[1]>>[1] = s[1]
    BY <1>1
  <2> QED BY <2>1, <2>2, SameSingle
<1> QED BY <1>1, <1>2, <1>3

\* A pattern with a target: the processor gets there.
LEMMA ConcreteArrives ==
  ASSUME NEW memory, NEW c \in Cpu, NEW s \in Seq(Instr \cup {NoInstr}), s # <<>>,
         \A k \in DOMAIN s : IsPlain(s[k]),
         NEW p, Named(p, s), p.resolution = "Concrete"
  PROVE  LET e == Run(memory, c, SubSeq(s, 1, p.count))
         IN  e \in Cpu /\ e.pc = p.target /\ p.target \in Word
<1>1. SubSeq(s, 1, Len(s)) = s /\ SubSeq(s, 1, 1) = <<s[1]>> /\ s[1] \in Instr \cup {NoInstr}
      /\ IsPlain(s[1])
  <2>1. 1 \in DOMAIN s
    OBVIOUS
  <2> QED BY <2>1, Prefixes
<1>2. CASE s[1].op \in {"jmp", "jcc", "loop", "call"} /\ p.target = s[1].imm /\ p.count = 1
  <2> DEFINE i == s[1]
  <2>1. i \in Instr
    BY <1>1, <1>2, NoneRead
  <2>2. i.imm \in Word
    BY <1>2, <2>1, InstrFacts
  <2>3. Holds(memory, i) /\ i.op \in {"jmp", "jcc", "loop", "call"} /\ IsPlain(i)
    BY <1>1, <1>2 DEF Holds
  <2> HIDE DEF i
  <2>4. Run(memory, c, <<i>>) \in Cpu /\ Run(memory, c, <<i>>).pc = i.imm
    BY <2>1, <2>3, SingleArrives
  <2> QED BY <1>1, <1>2, <2>2, <2>4 DEF i
<1>3. CASE /\ p.count = Len(s) /\ s[1].op = "pushi"
           /\ \/ /\ Len(s) = 2 /\ s[2].op = "ret" /\ p.target = s[1].imm
              \/ /\ Len(s) = 3 /\ s[2].op = "movsp4" /\ s[3].op = "ret"
                 /\ p.target = Low(s[1].imm) + Half * Low(s[2].imm)
  <2>1. s \in Seq(Instr)
    <3>1. (\A k \in 1 .. 2 : k = 1 \/ k = 2) /\ (\A k \in 1 .. 3 : k = 1 \/ k = 2 \/ k = 3)
      OBVIOUS
    <3>2. CASE Len(s) = 2 /\ s[2].op = "ret"
      <4>1. \A k \in 1 .. Len(s) : s[k].op # "none"
        BY <1>3, <3>1, <3>2
      <4> QED BY <4>1, AllRead
    <3>3. CASE Len(s) = 3 /\ s[2].op = "movsp4" /\ s[3].op = "ret"
      <4>1. \A k \in 1 .. Len(s) : s[k].op # "none"
        BY <1>3, <3>1, <3>3
      <4> QED BY <4>1, AllRead
    <3> QED BY <1>3, <3>2, <3>3
  <2>2. /\ s[1].op = "pushi"
        /\ \/ Len(s) = 2 /\ s[2].op = "ret"
           \/ Len(s) = 3 /\ s[2].op = "movsp4" /\ s[3].op = "ret"
    BY <1>3
  <2>3. p.target = IF Len(s) = 2 THEN s[1].imm ELSE Low(s[1].imm) + Half * Low(s[2].imm)
    BY <1>3
  <2>4. Run(memory, c, s) \in Cpu /\ Run(memory, c, s).pc = p.target /\ p.target \in Word
    BY <2>1, <2>2, <2>3, PushedArrives
  <2> QED BY <1>1, <1>3, <2>4
<1>4. CASE p.count = Len(s) /\ Idiom(s) /\ s[1].op # "load" /\ p.target = Computed(s)
  <2>1. s \in Seq(Instr) /\ Holds(memory, s[1])
    <3>1. s[1].op \in {"movi", "lea", "load"}
      BY <1>4 DEF Idiom, Computes
    <3> QED BY <1>4, <3>1, IdiomRead DEF Holds
  <2> QED BY <1>1, <1>4, <2>1, IdiomArrives
<1> QED BY <1>2, <1>3, <1>4 DEF Named

\* A pattern with a slot: the processor gets to what the memory holds there.
LEMMA MemoryArrives ==
  ASSUME NEW memory, NEW c \in Cpu, NEW s \in Seq(Instr \cup {NoInstr}), s # <<>>,
         \A k \in DOMAIN s : IsPlain(s[k]),
         NEW p, Named(p, s), p.resolution = "MemoryPointer",
         p.slot.static, memory[p.slot.addr] \in Value
  PROVE  LET e == Run(memory, c, SubSeq(s, 1, p.count))
         IN  e \in Cpu /\ e.pc = memory[p.slot.addr] /\ p.size = 8
<1>1. SubSeq(s, 1, Len(s)) = s /\ SubSeq(s, 1, 1) = <<s[1]>> /\ s[1] \in Instr \cup {NoInstr}
      /\ IsPlain(s[1])
  <2>1. 1 \in DOMAIN s
    OBVIOUS
  <2> QED BY <2>1, Prefixes
<1>2. CASE s[1].op \in {"jmpm", "callm"} /\ p.slot = s[1].slot /\ p.size = 8 /\ p.count = 1
  <2> DEFINE i == s[1]
  <2>1. i \in Instr
    BY <1>1, <1>2, NoneRead
  <2>2. Holds(memory, i) /\ i.op \in {"jmpm", "callm"} /\ IsPlain(i) /\ p.slot = i.slot
    BY <1>1, <1>2 DEF Holds
  <2> HIDE DEF i
  <2>3. Run(memory, c, <<i>>) \in Cpu /\ Run(memory, c, <<i>>).pc = memory[i.slot.addr]
    BY <2>1, <2>2, SingleArrives
  <2> QED BY <1>1, <1>2, <2>2, <2>3 DEF i
<1>3. CASE p.count = Len(s) /\ Idiom(s) /\ s[1].op = "load" /\ p.slot = s[1].slot /\ p.size = s[1].size
  <2>1. s \in Seq(Instr) /\ Holds(memory, s[1])
    BY <1>3, IdiomRead DEF Holds
  <2>2. p.size = 8
    BY <1>1, <1>3 DEF IsPlain, IsNarrow
  <2>3. Run(memory, c, s) \in Cpu /\ Run(memory, c, s).pc = memory[s[1].slot.addr]
    BY <1>3, <2>1, IdiomArrives
  <2> QED BY <1>1, <1>3, <2>2, <2>3
<1> QED BY <1>2, <1>3 DEF Named

-----------------------------------------------------------------------------
(* The invariant is kept *)

\* What was read stays as it was, and one thing more is known.
LEMMA Extended ==
  ASSUME NEW f, NEW a, NEW v
  PROVE  LET g == Learn(f, a, v)
         IN  /\ DOMAIN g = {a} \cup DOMAIN f /\ g[a] = v
             /\ \A x \in DOMAIN f : x # a => g[x] = f[x]
BY DEF Learn

LEMMA NoLength == Length(<<>>) = 0
<1> DEFINE F == CHOOSE g : g = [k \in 0 .. 0 |-> IF k = 0 THEN 0 ELSE g[k - 1] + <<>>[k].len]
           z == [k \in 0 .. 0 |-> 0]
<1>1. z = [k \in 0 .. 0 |-> IF k = 0 THEN 0 ELSE z[k - 1] + <<>>[k].len]
  OBVIOUS
<1> HIDE DEF z
<1>2. F = [k \in 0 .. 0 |-> IF k = 0 THEN 0 ELSE F[k - 1] + <<>>[k].len]
  BY <1>1
<1>3. Length(<<>>) = F[0]
  BY DEF Length
<1> HIDE DEF F
<1> QED BY <1>2, <1>3

\* A register or an address, plus nothing.
LEMMA PlusNothing == ASSUME NEW w \in Word PROVE Plus(w, Length(<<>>)) = w
<1>1. w \in Nat /\ w < Words /\ Words \in Nat /\ Words > 0
  BY HalfWords DEF Word
<1>2. w % Words = w
  <2> HIDE DEF Words
  <2> QED BY <1>1
<1> QED BY <1>1, <1>2, NoLength DEF Plus

LEMMA InitInvariant == Init => ChainInv
<1> SUFFICES ASSUME Init PROVE ChainInv
  OBVIOUS
<1>1. TypeOK
  BY DEF Init, TypeOK
<1>2. Reading
  BY DEF Init, Reading, Open
<1>3. Following
  BY DEF Init, Following
<1>4. Along
  <2>1. cpu \in Cpu
    <3>1. Entry \in Value /\ Unknown \in Value
      BY BranchResolveAssumption DEF Value
    <3>2. [r \in Reg |-> Unknown] \in [Reg -> Value] /\ <<>> \in Seq(Value)
      BY <3>1
    <3> QED BY <3>1, <3>2 DEF Init, Cpu
  <2> QED BY <2>1, BranchResolveAssumption DEF Init, Along
<1> QED BY <1>1, <1>2, <1>3, <1>4 DEF ChainInv

\* The code that is there already is not read again otherwise.
LEMMA FetchInvariant == ChainInv /\ Fetch => ChainInv'
<1> SUFFICES ASSUME ChainInv, Fetch PROVE ChainInv'
  OBVIOUS
<1> DEFINE a == Plus(at, Length(seen))
           Both == Instr \cup {NoInstr}
<1>1. PICK i \in Readable(a) :
        /\ code' = Learn(code, a, i)
        /\ seen' = Append(seen, i)
        /\ pc' = IF Recognize(opt, Append(seen, i)) = More THEN "fetch" ELSE "act"
  BY DEF Fetch
<1>2. pc = "fetch" /\ UNCHANGED <<opt, mem, asked, at, final, depth, found, turns, cpu>>
  BY DEF Fetch
<1>3. i \in Both /\ (a \in DOMAIN code => i = code[a])
  BY DEF Readable, ChainInv, TypeOK
<1> HIDE DEF a
<1>4. /\ DOMAIN code' = {a} \cup DOMAIN code /\ code'[a] = i
      /\ \A x \in DOMAIN code : code'[x] = code[x]
  <2>1. code' = Learn(code, a, i)
    BY <1>1
  <2> QED BY ONLY <1>3, <2>1 DEF Learn
<1>5. seen \in Seq(Both) /\ Open(seen)
  BY <1>2 DEF ChainInv, TypeOK, Reading
<1>6. /\ seen' \in Seq(Both) /\ Len(seen') = Len(seen) + 1 /\ seen' # <<>>
      /\ seen'[Len(seen) + 1] = i /\ \A k \in 1 .. Len(seen) : seen'[k] = seen[k]
      /\ Len(seen) \in Nat
  BY <1>1, <1>3, <1>5, AppendAt
<1>7. TypeOK'
  <2>1. pc' \in {"fetch", "act", "done"}
    BY <1>1
  <2>2. \A x \in DOMAIN code' : code'[x] \in Both
    BY <1>3, <1>4 DEF ChainInv, TypeOK
  <2> QED BY <1>2, <1>6, <2>1, <2>2 DEF ChainInv, TypeOK
<1>8. Reading'
  <2>1. \A k \in DOMAIN seen' : \E x \in DOMAIN code' : seen'[k] = code'[x]
    <3> SUFFICES ASSUME NEW k \in DOMAIN seen' PROVE \E x \in DOMAIN code' : seen'[k] = code'[x]
      OBVIOUS
    <3>1. k \in 1 .. Len(seen) \/ k = Len(seen) + 1
      BY <1>6
    <3>2. CASE k = Len(seen) + 1
      BY <1>4, <1>6, <3>2
    <3>3. CASE k \in 1 .. Len(seen)
      <4>1. k \in DOMAIN seen
        BY <1>5, <3>3
      <4>2. PICK x \in DOMAIN code : seen[k] = code[x]
        BY <4>1 DEF ChainInv, Reading
      <4> QED BY <1>4, <1>6, <3>3, <4>2
    <3> QED BY <3>1, <3>2, <3>3
  <2>2. Recognized(opt', seen')
    BY <1>1, <1>3, <1>5, RecognizeFacts
  <2>3. pc' = IF Recognize(opt', seen') = More THEN "fetch" ELSE "act"
    BY <1>1, <1>2
  <2>4. pc' = "fetch" => Open(seen')
    BY <2>2, <2>3 DEF Recognized
  <2>5. pc' = "act" => seen' # <<>> /\ Recognize(opt', seen') # More /\ Recognized(opt', seen')
    BY <1>6, <2>2, <2>3
  <2> QED BY <2>1, <2>4, <2>5 DEF Reading
<1>9. Following'
  BY <1>1, <1>2 DEF ChainInv, Following
<1>10. Along'
  <2> SUFFICES ASSUME asked' = "one", Plain(code') PROVE
               /\ cpu' \in Cpu /\ at' \in Word
               /\ final' # Unknown => cpu'.pc = final'
               /\ pc' # "done" /\ seen' # <<>> => at' \in DOMAIN code' /\ seen'[1] = code'[at']
               /\ pc' # "done"
    BY DEF Along
  <2>1. Plain(code)
    BY <1>4 DEF Plain, IsNarrow, IsElsewhere
  <2>2. /\ cpu \in Cpu /\ at \in Word
        /\ final # Unknown => cpu.pc = final
        /\ seen # <<>> => at \in DOMAIN code /\ seen[1] = code[at]
    BY <1>2, <2>1 DEF ChainInv, Along
  <2>3. at \in DOMAIN code' /\ seen'[1] = code'[at]
    <3>1. CASE seen = <<>>
      <4>1. a = at
        BY <2>2, <3>1, PlusNothing DEF a
      <4> QED BY <1>4, <1>6, <3>1, <4>1
    <3>2. CASE seen # <<>>
      <4>1. 1 \in 1 .. Len(seen)
        BY <1>5, <3>2
      <4> QED BY <1>4, <1>6, <2>2, <3>2, <4>1
    <3> QED BY <3>1, <3>2
  <2> QED BY <1>1, <1>2, <2>2, <2>3
<1> QED BY <1>7, <1>8, <1>9, <1>10 DEF ChainInv

\* A destination is taken: the processor gets there, and the bounds decide what is next.
LEMMA ArriveInvariant ==
  ASSUME ChainInv, pc = "act", asked = "one", opt.follow_memory,
         NEW p, NEW dst, Arrive(p, dst), UNCHANGED <<opt, code, asked>>,
         \A x \in DOMAIN mem' : mem'[x] \in Value,
         Plain(code) => LET e == Run(mem', cpu, SubSeq(seen, 1, p.count))
                        IN  e \in Cpu /\ e.pc = dst /\ dst \in Word
  PROVE  ChainInv'
<1>1. /\ final' = dst /\ cpu' = Run(mem', cpu, SubSeq(seen, 1, p.count))
      /\ IF opt.follow_chains /\ depth' < opt.max_chain_depth THEN Again(dst) ELSE Stop
  BY DEF Arrive
<1>2. CASE opt.follow_chains /\ depth' < opt.max_chain_depth
  <2>1. at' = dst /\ seen' = <<>> /\ pc' = "fetch"
    BY <1>1, <1>2 DEF Again
  <2>2. TypeOK'
    BY <2>1 DEF ChainInv, TypeOK
  <2>3. Reading'
    BY <2>1 DEF Reading, Open
  <2>4. Following'
    BY <1>1, <1>2, <2>1 DEF Following
  <2>5. Along'
    BY <1>1, <2>1 DEF Along
  <2> QED BY <2>2, <2>3, <2>4, <2>5 DEF ChainInv
<1>3. CASE ~(opt.follow_chains /\ depth' < opt.max_chain_depth)
  <2>1. pc' = "done" /\ UNCHANGED <<at, seen>>
    BY <1>1, <1>3 DEF Stop
  <2>2. TypeOK'
    BY <2>1 DEF ChainInv, TypeOK
  <2>3. Reading'
    BY <2>1 DEF ChainInv, Reading
  <2>4. Following'
    BY <1>1, <2>1 DEF Following
  <2>5. Along'
    BY <1>1, <1>3, <2>1 DEF ChainInv, Along
  <2> QED BY <2>2, <2>3, <2>4, <2>5 DEF ChainInv
<1> QED BY <1>2, <1>3

\* The chain ends where it is, which is no direct jump to somewhere else.
LEMMA QuitInvariant ==
  ASSUME ChainInv, pc = "act", asked = "one", Quit, UNCHANGED <<opt, code, asked>>,
         \A x \in DOMAIN mem' : mem'[x] \in Value,
         final # Unknown /\ seen[1].op = "jmp" => seen[1].imm = final
  PROVE  ChainInv'
<1>1. pc' = "done" /\ UNCHANGED <<at, seen, final, depth, cpu>>
  BY DEF Quit, Stop
<1>2. TypeOK'
  BY <1>1 DEF ChainInv, TypeOK
<1>3. Reading'
  BY <1>1 DEF ChainInv, Reading
<1>4. Following'
  BY <1>1 DEF ChainInv, Following
<1>5. Along'
  <2> SUFFICES ASSUME Plain(code)
               PROVE  /\ cpu \in Cpu /\ at \in Word
                      /\ final # Unknown => cpu.pc = final
                      /\ final # Unknown /\ code[final].op = "jmp" => code[final].imm = final
    BY <1>1 DEF Along
  <2>1. /\ cpu \in Cpu /\ at \in Word
        /\ final # Unknown => cpu.pc = final
        /\ seen # <<>> => at \in DOMAIN code /\ seen[1] = code[at]
    BY DEF ChainInv, Along
  <2>2. seen # <<>>
    BY DEF ChainInv, Reading
  <2>3. final # Unknown => at = final
    BY DEF ChainInv, Following
  <2> QED BY <2>1, <2>2, <2>3
<1> QED BY <1>2, <1>3, <1>4, <1>5 DEF ChainInv

LEMMA ActInvariant == ChainInv /\ Act => ChainInv'
<1> SUFFICES ASSUME ChainInv, Act PROVE ChainInv'
  OBVIOUS
<1> DEFINE p == Recognize(opt, seen)
<1>1. pc = "act" /\ seen # <<>> /\ seen \in Seq(Instr \cup {NoInstr}) /\ opt \in Options
      /\ asked \in {"one", "all"} /\ \A x \in DOMAIN mem : mem[x] \in Value
  BY DEF Act, ChainInv, TypeOK, Reading
<1>2. /\ Named(p, seen)
      /\ seen[1].op = "jmp" => /\ p.resolution = "Concrete" /\ p.effect = "Jump"
                               /\ p.target = seen[1].imm
  BY <1>1 DEF ChainInv, Reading, Recognized
<1>3. CASE asked = "all"
  <2>1. UNCHANGED <<opt, code, mem, asked, final, depth, cpu>>
        /\ (Stop \/ \E next : Again(next))
    BY <1>3 DEF Act, List, ListTo, EndList
  <2>2. CASE Stop
    BY <1>1, <1>3, <2>1, <2>2 DEF Stop, ChainInv, TypeOK, Reading, Following, Along
  <2>3. CASE \E next : Again(next)
    <3>1. seen' = <<>> /\ pc' = "fetch"
      BY <2>3 DEF Again
    <3>2. TypeOK'
      BY <2>1, <3>1 DEF ChainInv, TypeOK
    <3>3. Reading'
      BY <3>1 DEF Reading, Open
    <3>4. Following' /\ Along'
      BY <1>3, <2>1 DEF Following, Along
    <3> QED BY <3>2, <3>3, <3>4 DEF ChainInv
  <2> QED BY <2>1, <2>2, <2>3
<1>4. CASE asked = "one"
  <2> HIDE DEF p
  <2>1. /\ UNCHANGED <<opt, code, asked>>
        /\ ResolveConcrete(p) \/ ResolveMemory(p) \/ Unresolved(p)
    BY <1>4 DEF Act, p
  <2>2. Plain(code) => \A k \in DOMAIN seen : IsPlain(seen[k])
    BY DEF ChainInv, Reading, Plain, IsPlain
  <2>3. Plain(code) => cpu \in Cpu
    BY <1>4 DEF ChainInv, Along
  <2>4. final # Unknown => opt.follow_memory
    BY <1>4 DEF ChainInv, Following
  <2>5. CASE ResolveConcrete(p)
    <3>1. HasTarget(p) /\ UNCHANGED mem /\ Hop(p, p.target)
      BY <2>5 DEF ResolveConcrete
    <3>2. opt.follow_memory /\ p.resolution = "Concrete"
      BY <3>1 DEF HasTarget
    <3>3. CASE Arrive(p, p.target)
      <4>1. Plain(code) => LET e == Run(mem', cpu, SubSeq(seen, 1, p.count))
                           IN  e \in Cpu /\ e.pc = p.target /\ p.target \in Word
        BY <1>1, <1>2, <2>2, <2>3, <3>2, ConcreteArrives
      <4> QED BY <1>1, <1>4, <2>1, <3>1, <3>2, <3>3, <4>1, ArriveInvariant
    <3>4. CASE ~Arrive(p, p.target)
      <4>1. Quit /\ final # Unknown /\ (p.effect = "Jump" => p.target = final)
        BY <3>1, <3>4 DEF Hop
      <4> QED BY <1>1, <1>2, <1>4, <2>1, <3>1, <4>1, QuitInvariant
    <3> QED BY <3>3, <3>4
  <2>6. CASE ResolveMemory(p)
    <3>1. PICK w \in Contents(p.slot) :
            /\ mem' = Learn(mem, p.slot.addr, w)
            /\ IF w = Unknown THEN Quit ELSE \E dst \in Destinations(p.size, w) : Hop(p, dst)
      BY <2>6 DEF ResolveMemory
    <3>2. opt.follow_memory /\ p.resolution = "MemoryPointer" /\ p.slot.static
      BY <2>6 DEF ResolveMemory, HasSlot
    <3>3. w \in Value /\ mem'[p.slot.addr] = w /\ \A x \in DOMAIN mem' : mem'[x] \in Value
      <4>1. w \in Value
        BY <1>1, BranchResolveAssumption DEF Contents, Value
      <4> QED BY <1>1, <3>1, <4>1 DEF Learn
    <3>4. CASE w = Unknown
      BY <1>1, <1>2, <1>4, <2>1, <3>1, <3>2, <3>3, <3>4, QuitInvariant
    <3>5. CASE w # Unknown
      <4>1. PICK dst \in Destinations(p.size, w) : Hop(p, dst)
        BY <3>1, <3>5
      <4>2. Plain(code) => LET e == Run(mem', cpu, SubSeq(seen, 1, p.count))
                           IN  e \in Cpu /\ e.pc = w /\ p.size = 8
        BY <1>1, <1>2, <2>2, <2>3, <3>2, <3>3, MemoryArrives
      <4>3. Plain(code) => LET e == Run(mem', cpu, SubSeq(seen, 1, p.count))
                           IN  e \in Cpu /\ e.pc = dst /\ dst \in Word
        BY <3>3, <3>5, <4>1, <4>2 DEF Destinations, Value
      <4>5. CASE Arrive(p, dst)
        BY <1>1, <1>4, <2>1, <3>2, <3>3, <4>3, <4>5, ArriveInvariant
      <4>6. CASE ~Arrive(p, dst)
        <5>1. Quit
          BY <4>1, <4>6 DEF Hop
        <5> QED BY <1>1, <1>2, <1>4, <2>1, <3>2, <3>3, <5>1, QuitInvariant
      <4> QED BY <4>5, <4>6
    <3> QED BY <3>4, <3>5
  <2>7. CASE Unresolved(p)
    <3>1. ~HasTarget(p) /\ UNCHANGED mem /\ Quit
      BY <2>7 DEF Unresolved
    <3>2. final # Unknown /\ seen[1].op = "jmp" => FALSE
      BY <1>2, <2>4, <3>1 DEF HasTarget
    <3> QED BY <1>1, <1>4, <2>1, <3>1, <3>2, QuitInvariant
  <2> QED BY <2>1, <2>5, <2>6, <2>7
<1> QED BY <1>1, <1>3, <1>4

LEMMA ChainStep == ChainInv /\ [Next]_vars => ChainInv'
<1> SUFFICES ASSUME ChainInv, [Next]_vars PROVE ChainInv'
  OBVIOUS
<1>1. CASE Next
  BY <1>1, FetchInvariant, ActInvariant DEF Next
<1>2. CASE UNCHANGED vars
  BY <1>2 DEF vars, ChainInv, TypeOK, Reading, Following, Along
<1> QED BY <1>1, <1>2

(* The invariant holds of every reachable state. *)
THEOREM ChainInvariant == Spec => []ChainInv
BY InitInvariant, ChainStep, PTL DEF Spec

(* resolve_target is right about any code of instructions that the recognizer takes for
   what they are: through every idiom, every slot and every jump that it followed, the
   processor gets to the final target; and below the bound on the chain nothing is left
   to follow but a jump to itself. *)
THEOREM TargetIsReached == Spec => []FollowsExecution
<1>1. ChainInv => FollowsExecution
  BY DEF ChainInv, Along, FollowsExecution
<1> QED BY <1>1, ChainInvariant, PTL

-----------------------------------------------------------------------------
(* Addresses and distances *)

LEMMA Divided ==
  ASSUME NEW n \in Nat, n >= 1, NEW x \in Int
  PROVE  x \div n \in Int /\ x % n \in 0 .. n - 1 /\ x = n * (x \div n) + (x % n)
OBVIOUS

LEMMA Multiples ==
  ASSUME NEW n \in Nat, n >= 1, NEW d \in Int, n * d < n, -n < n * d
  PROVE  d = 0
<1>1. CASE d >= 1
  <2>1. n * d >= n * 1
    BY <1>1
  <2> QED BY <2>1
<1>2. CASE d <= -1
  <2>1. n * d <= n * (-1)
    BY <1>2
  <2> QED BY <2>1
<1> QED BY <1>1, <1>2

LEMMA Remainder ==
  ASSUME NEW n \in Nat, n >= 1, NEW x \in Int, NEW q \in Int, NEW r \in 0 .. n - 1, x = n * q + r
  PROVE  x % n = r
<1> DEFINE p == x \div n
           y == x % n
<1>1. p \in Int /\ y \in 0 .. n - 1 /\ x = n * p + y
  BY Divided
<1> HIDE DEF p, y
<1>2. n * (q - p) = y - r
  <2>1. n * (q - p) = n * q - n * p
    BY <1>1
  <2> QED BY <1>1, <2>1
<1>3. q - p = 0
  <2>1. n * (q - p) < n /\ -n < n * (q - p) /\ q - p \in Int
    BY <1>1, <1>2
  <2> DEFINE d == q - p
  <2> HIDE DEF d
  <2>2. d = 0
    BY <2>1, Multiples DEF d
  <2> QED BY <2>2 DEF d
<1>4. y = r
  <2>1. n * (q - p) = 0
    BY <1>3
  <2> QED BY <1>1, <1>2, <2>1
<1> QED BY <1>4 DEF y

LEMMA WrappedTwice ==
  ASSUME NEW n \in Nat, n >= 1, NEW a \in Int, NEW b \in Int
  PROVE  ((a % n) + b) % n = (a + b) % n
<1> DEFINE q == a \div n
           r == a % n
<1>1. q \in Int /\ r \in 0 .. n - 1 /\ a = n * q + r
  BY Divided
<1> HIDE DEF q, r
<1> DEFINE p == (r + b) \div n
           y == (r + b) % n
<1>2. p \in Int /\ y \in 0 .. n - 1 /\ r + b = n * p + y
  BY <1>1, Divided
<1> HIDE DEF p, y
<1>3. a + b = n * (q + p) + y
  <2>1. n * (q + p) = n * q + n * p
    BY <1>1, <1>2
  <2> QED BY <1>1, <1>2, <2>1
<1>4. (a + b) % n = y
  <2>1. q + p \in Int /\ a + b \in Int
    BY <1>1, <1>2
  <2> QED BY <1>2, <1>3, <2>1, Remainder
<1> QED BY <1>4 DEF y, r

\* Two distances from the entry that are less than a whole turn apart.
LEMMA FarApart ==
  ASSUME NEW x \in Nat, NEW y \in Nat, x < y, y < Words
  PROVE  Plus(Entry, x) # Plus(Entry, y)
<1> SUFFICES ASSUME Plus(Entry, x) = Plus(Entry, y) PROVE FALSE
  OBVIOUS
<1> DEFINE n == Words
           e == Entry
<1>1. n \in Nat /\ n >= 1 /\ e \in Int
  BY HalfWords, WordNat, BranchResolveAssumption
<1>2. (e + x) % n = (e + y) % n /\ y < n
  BY DEF Plus
<1> HIDE DEF n, e
<1> DEFINE q == (e + x) \div n
           p == (e + y) \div n
           r == (e + x) % n
<1>3. q \in Int /\ p \in Int /\ r \in 0 .. n - 1 /\ e + x = n * q + r /\ e + y = n * p + r
  <2>1. e + x \in Int /\ e + y \in Int
    BY <1>1
  <2>2. q \in Int /\ r \in 0 .. n - 1 /\ e + x = n * q + r
    BY <1>1, <2>1, Divided
  <2>3. p \in Int /\ e + y = n * p + ((e + y) % n)
    BY <1>1, <2>1, Divided
  <2> QED BY <1>2, <2>2, <2>3
<1> HIDE DEF q, p, r
<1>4. n * (p - q) = y - x
  <2>1. n * (p - q) = n * p - n * q
    BY <1>1, <1>3
  <2> QED BY <1>1, <1>3, <2>1
<1>5. p - q = 0
  <2> DEFINE d == p - q
  <2>1. d \in Int /\ n * d < n /\ -n < n * d
    BY <1>1, <1>2, <1>3, <1>4
  <2> HIDE DEF d
  <2>2. d = 0
    BY <1>1, <2>1, Multiples
  <2> QED BY <2>2 DEF d
<1>6. n * (p - q) = 0
  BY <1>1, <1>5
<1> QED BY <1>4, <1>6

LEMMA PlusTwice ==
  ASSUME NEW a \in Int, NEW x \in Int, NEW y \in Int
  PROVE  Plus(Plus(a, x), y) = Plus(a, x + y)
<1> DEFINE n == Words
<1>1. n \in Nat /\ n >= 1
  BY HalfWords
<1> HIDE DEF n
<1>2. (((a + x) % n) + y) % n = ((a + x) + y) % n
  <2>1. a + x \in Int
    OBVIOUS
  <2> QED BY <1>1, <2>1, WrappedTwice
<1>3. (a + x) + y = a + (x + y)
  OBVIOUS
<1> QED BY <1>2, <1>3 DEF Plus, n

-----------------------------------------------------------------------------
(* Lengths *)

LEMMA LengthFacts ==
  ASSUME NEW S, NEW s \in Seq(S)
  PROVE  \E f : /\ f[0] = 0
                /\ \A k \in 1 .. Len(s) : f[k] = f[k - 1] + s[k].len
                /\ Length(s) = f[Len(s)]
<1> DEFINE Step(d, k) == d + s[k].len
           T == {l \in Nat : \E g : g = [k \in 0 .. l |-> IF k = 0 THEN 0 ELSE Step(g[k - 1], k)]}
<1> HIDE DEF Step
<1>1. 0 \in T
  <2> DEFINE g == [k \in 0 .. 0 |-> 0]
  <2>1. g = [k \in 0 .. 0 |-> IF k = 0 THEN 0 ELSE Step(g[k - 1], k)]
    OBVIOUS
  <2> QED BY <2>1
<1>2. ASSUME NEW l \in Nat, l \in T PROVE l + 1 \in T
  <2>1. PICK g : g = [k \in 0 .. l |-> IF k = 0 THEN 0 ELSE Step(g[k - 1], k)]
    BY <1>2
  <2> DEFINE h == [k \in 0 .. l + 1 |-> IF k = 0 THEN 0 ELSE Step(g[k - 1], k)]
  <2>2. \A k \in 0 .. l : g[k] = IF k = 0 THEN 0 ELSE Step(g[k - 1], k)
    <3> DEFINE e == [k \in 0 .. l |-> IF k = 0 THEN 0 ELSE Step(g[k - 1], k)]
    <3>1. \A k \in 0 .. l : e[k] = IF k = 0 THEN 0 ELSE Step(g[k - 1], k)
      OBVIOUS
    <3>2. g = e
      BY <2>1
    <3> HIDE DEF e
    <3> QED BY <3>1, <3>2
  <2>3. \A k \in 0 .. l + 1 : h[k] = IF k = 0 THEN 0 ELSE Step(g[k - 1], k)
    OBVIOUS
  <2>4. \A k \in 0 .. l : g[k] = h[k]
    <3> TAKE k \in 0 .. l
    <3>1. k \in 0 .. l + 1
      OBVIOUS
    <3> QED BY <2>2, <2>3, <3>1
  <2> HIDE DEF h
  <2>5. \A k \in 0 .. l + 1 : k # 0 => g[k - 1] = h[k - 1]
    <3> TAKE k \in 0 .. l + 1
    <3> HAVE k # 0
    <3>1. k - 1 \in 0 .. l
      OBVIOUS
    <3> QED BY <2>4, <3>1
  <2>6. h = [k \in 0 .. l + 1 |-> IF k = 0 THEN 0 ELSE Step(h[k - 1], k)]
    BY <2>5 DEF h
  <2>7. l + 1 \in Nat
    OBVIOUS
  <2> QED BY <2>6, <2>7
<1> DEFINE n == Len(s)
<1>3. n \in Nat
  OBVIOUS
<1>4. n \in T
  <2> HIDE DEF T, n
  <2>1. \A m \in Nat : m \in T
    BY <1>1, <1>2, AllNats
  <2> QED BY <1>3, <2>1
<1> DEFINE F == CHOOSE g : g = [k \in 0 .. n |-> IF k = 0 THEN 0 ELSE Step(g[k - 1], k)]
<1>5. F = [k \in 0 .. n |-> IF k = 0 THEN 0 ELSE Step(F[k - 1], k)]
  BY <1>4
<1>6. Length(s) = F[n]
  BY DEF Length, Step
<1> HIDE DEF F, T, n
<1>7. \A k \in 0 .. n : F[k] = IF k = 0 THEN 0 ELSE Step(F[k - 1], k)
  <2> DEFINE e == [k \in 0 .. n |-> IF k = 0 THEN 0 ELSE Step(F[k - 1], k)]
  <2>1. \A k \in 0 .. n : e[k] = IF k = 0 THEN 0 ELSE Step(F[k - 1], k)
    OBVIOUS
  <2>2. F = e
    BY <1>5
  <2> HIDE DEF e
  <2> QED BY <2>1, <2>2
<1>8. F[0] = 0 /\ \A k \in 1 .. n : F[k] = Step(F[k - 1], k)
  BY <1>3, <1>7
<1> QED BY <1>6, <1>8 DEF Step, n

LEMMA LengthNat == ASSUME NEW s \in Seq(Instr) PROVE Length(s) \in Nat
<1>1. PICK f : /\ f[0] = 0
               /\ \A k \in 1 .. Len(s) : f[k] = f[k - 1] + s[k].len
               /\ Length(s) = f[Len(s)]
  BY LengthFacts
<1> DEFINE n == Len(s)
           T == {l \in Nat : l <= n => f[l] \in Nat}
<1>2. n \in Nat /\ \A k \in 1 .. n : s[k].len \in Nat
  BY InstrFacts
<1> HIDE DEF n
<1>3. 0 \in T
  BY <1>1
<1>4. ASSUME NEW l \in Nat, l \in T PROVE l + 1 \in T
  <2> SUFFICES ASSUME l + 1 <= n PROVE f[l + 1] \in Nat
    OBVIOUS
  <2>1. l + 1 \in 1 .. n /\ (l + 1) - 1 = l /\ l <= n
    BY <1>2
  <2>2. f[l + 1] = f[l] + s[l + 1].len
    BY <1>1, <2>1 DEF n
  <2> QED BY <1>2, <1>4, <2>1, <2>2
<1> HIDE DEF T
<1>5. n \in T
  BY <1>2, <1>3, <1>4, AllNats
<1> QED BY <1>1, <1>2, <1>5 DEF T, n

LEMMA LengthAppend ==
  ASSUME NEW S, NEW s \in Seq(S), NEW i \in S
  PROVE  Length(Append(s, i)) = Length(s) + i.len
<1> DEFINE t == Append(s, i)
           n == Len(s)
<1>1. t \in Seq(S) /\ Len(t) = n + 1 /\ t[n + 1] = i /\ \A k \in 1 .. n : t[k] = s[k]
  BY AppendAt
<1>2. n \in Nat
  OBVIOUS
<1>3. PICK f : /\ f[0] = 0
               /\ \A k \in 1 .. Len(s) : f[k] = f[k - 1] + s[k].len
               /\ Length(s) = f[Len(s)]
  BY LengthFacts
<1> HIDE DEF t
<1>4. PICK g : /\ g[0] = 0
               /\ \A k \in 1 .. Len(t) : g[k] = g[k - 1] + t[k].len
               /\ Length(t) = g[Len(t)]
  BY <1>1, LengthFacts
<1> HIDE DEF n
<1> DEFINE T == {l \in Nat : l <= n => g[l] = f[l]}
<1>5. 0 \in T
  BY <1>3, <1>4
<1>6. ASSUME NEW l \in Nat, l \in T PROVE l + 1 \in T
  <2> SUFFICES ASSUME l + 1 <= n PROVE g[l + 1] = f[l + 1]
    OBVIOUS
  <2>1. l + 1 \in 1 .. n /\ l + 1 \in 1 .. n + 1 /\ (l + 1) - 1 = l /\ l <= n
    BY <1>2
  <2>2. f[l + 1] = f[l] + s[l + 1].len
    BY <1>3, <2>1 DEF n
  <2>3. g[l + 1] = g[l] + t[l + 1].len
    BY <1>1, <1>4, <2>1
  <2> QED BY <1>1, <1>6, <2>1, <2>2, <2>3
<1> HIDE DEF T
<1>7. n \in T
  BY <1>2, <1>5, <1>6, AllNats
<1>8. g[n] = f[n]
  BY <1>2, <1>7 DEF T
<1>9. g[n + 1] = g[n] + i.len
  <2>1. n + 1 \in 1 .. n + 1 /\ (n + 1) - 1 = n
    BY <1>2
  <2> QED BY <1>1, <1>4, <2>1
<1> QED BY <1>1, <1>3, <1>4, <1>8, <1>9 DEF t, n

LEMMA Parts ==
  ASSUME NEW S, NEW s \in Seq(S), NEW k \in 1 .. Len(s)
  PROVE  /\ SubSeq(s, 1, k - 1) \in Seq(S) /\ s[k] \in S
         /\ SubSeq(s, 1, k) = Append(SubSeq(s, 1, k - 1), s[k])
<1> DEFINE a == SubSeq(s, 1, k - 1)
           b == SubSeq(s, 1, k)
           d == Append(a, s[k])
<1>1. a \in Seq(S) /\ Len(a) = k - 1 /\ \A j \in 1 .. k - 1 : a[j] = s[j]
  OBVIOUS
<1>2. b \in Seq(S) /\ Len(b) = k /\ \A j \in 1 .. k : b[j] = s[j]
  OBVIOUS
<1>3. s[k] \in S /\ k \in Nat /\ (k - 1) + 1 = k
  OBVIOUS
<1> HIDE DEF a, b
<1>4. d \in Seq(S) /\ Len(d) = k /\ d[k] = s[k] /\ \A j \in 1 .. k - 1 : d[j] = s[j]
  BY <1>1, <1>3, AppendAt
<1> HIDE DEF d
<1>5. \A j \in 1 .. k : b[j] = d[j]
  <2> TAKE j \in 1 .. k
  <2>1. j = k \/ j \in 1 .. k - 1
    BY <1>3
  <2> QED BY <1>2, <1>4, <2>1
<1>6. b = d
  BY <1>2, <1>4, <1>5
<1> QED BY <1>1, <1>3, <1>6 DEF a, b, d

LEMMA NoPart == ASSUME NEW S, NEW s \in Seq(S) PROVE SubSeq(s, 1, 0) = <<>>
OBVIOUS

\* What is appended leaves the beginnings alone.
LEMMA PartsKept ==
  ASSUME NEW S, NEW s \in Seq(S), NEW i \in S, NEW k \in 0 .. Len(s)
  PROVE  SubSeq(Append(s, i), 1, k) = SubSeq(s, 1, k)
<1> DEFINE t == Append(s, i)
           a == SubSeq(t, 1, k)
           b == SubSeq(s, 1, k)
<1>1. t \in Seq(S) /\ Len(t) = Len(s) + 1 /\ \A j \in 1 .. Len(s) : t[j] = s[j]
  BY AppendAt
<1> HIDE DEF t
<1>2. a \in Seq(S) /\ Len(a) = k /\ \A j \in 1 .. k : a[j] = t[j]
  BY <1>1
<1>3. b \in Seq(S) /\ Len(b) = k /\ \A j \in 1 .. k : b[j] = s[j]
  OBVIOUS
<1>4. \A j \in 1 .. k : j \in 1 .. Len(s)
  OBVIOUS
<1> HIDE DEF a, b
<1>5. a = b
  BY <1>1, <1>2, <1>3, <1>4
<1> QED BY <1>5 DEF a, b, t

-----------------------------------------------------------------------------
(* A run of code *)

\* Where the instruction after the first k of s is.
Spot(a, s, k) == Plus(a, Length(SubSeq(s, 1, k)))

\* What is read ahead is the code from a on.
Placed(c, a, s) ==
  \A k \in 1 .. Len(s) : Spot(a, s, k - 1) \in DOMAIN c /\ c[Spot(a, s, k - 1)] = s[k]

\* The addresses with code.
Coded(c) == {b \in DOMAIN c : c[b] # NoInstr}

\* w is a run in c from the entry, off the distances from there.
Path(c, w, off) ==
  /\ w \in Seq(Word) /\ off \in Seq(Nat) /\ Len(off) = Len(w) /\ Len(w) >= 1
  /\ w[1] = Entry /\ off[1] = 0
  /\ \A j \in 1 .. Len(w) - 1 :
       /\ w[j] \in Coded(c) /\ c[w[j]] \in Instr
       /\ w[j + 1] = Plus(w[j], c[w[j]].len) /\ off[j + 1] = off[j] + c[w[j]].len
  /\ \A j \in 1 .. Len(w) : w[j] = Plus(Entry, off[j])

\* The patterns in list begin on the run w and end with a transfer; every transfer of
\* w, and of its last address if all of it has been looked at, ends one of them.
Listed(c, w, list, all) ==
  /\ \A k \in DOMAIN list :
       \E m \in 1 .. Len(w) :
          /\ w[m] = list[k].at /\ list[k].count \in Nat \ {0}
          /\ ~all => m + list[k].count <= Len(w)
          /\ m + list[k].count - 1 <= Len(w) => c[w[m + list[k].count - 1]].op \in Transfers
  /\ \A j \in 1 .. Len(w) :
       (j < Len(w) \/ all) /\ c[w[j]].op \in Transfers =>
          \E k \in DOMAIN list, m \in 1 .. Len(w) : w[m] = list[k].at /\ j = m + list[k].count - 1

\* What recognize_all has listed so far.
ListInv ==
  asked = "all" =>
    /\ IsFiniteSet(Coded(code)) /\ Cardinality(Coded(code)) <= MaxCode
    /\ Placed(code, at, seen)
    /\ found \in Seq([at : Word, count : Nat])
    /\ \E w, off : /\ Path(code, w, off) /\ w[Len(w)] = at
                   /\ pc # "done" => Listed(code, w, found, FALSE)
                   /\ pc = "done" => Listed(code, w, found, TRUE)

\* No instruction is empty, and all code together is shorter than the address space.
Straight ==
  \E most \in Nat : (\A i \in Instr : i.len \in 1 .. most) /\ MaxCode * most < Words

LEMMA OffGrows ==
  ASSUME NEW c, NEW w, NEW off, Path(c, w, off), \A i \in Instr : i.len >= 1,
         NEW i \in 1 .. Len(w), NEW j \in 1 .. Len(w), i < j
  PROVE  off[i] < off[j]
<1> DEFINE n == Len(w)
           T == {l \in Nat : (i + 1) + l <= n => off[i] < off[(i + 1) + l]}
<1>1. /\ n \in Nat /\ \A k \in 1 .. n : off[k] \in Nat
      /\ \A k \in 1 .. n - 1 : off[k + 1] = off[k] + c[w[k]].len /\ c[w[k]] \in Instr
  BY DEF Path
<1>2. \A k \in 1 .. n - 1 : off[k] < off[k + 1]
  <2> SUFFICES ASSUME NEW k \in 1 .. n - 1 PROVE off[k] < off[k + 1]
    OBVIOUS
  <2> DEFINE x == off[k]
             y == c[w[k]].len
  <2>1. c[w[k]] \in Instr /\ off[k + 1] = x + y /\ k \in 1 .. n
    BY <1>1
  <2>2. y \in Nat /\ y >= 1 /\ x \in Nat
    BY <1>1, <2>1, InstrFacts
  <2> HIDE DEF x, y
  <2>3. x < x + y
    BY <2>2
  <2> QED BY <2>1, <2>3 DEF x
<1>3. i \in Nat /\ j \in Nat /\ i >= 1 /\ j <= n
  BY <1>1
<1> HIDE DEF n
<1>4. 0 \in T
  <2> SUFFICES ASSUME i + 1 <= n PROVE off[i] < off[i + 1]
    BY <1>3
  <2>1. i \in 1 .. n - 1
    BY <1>1, <1>3
  <2> QED BY <1>2, <2>1
<1>5. ASSUME NEW l \in Nat, l \in T PROVE l + 1 \in T
  <2> SUFFICES ASSUME (i + 1) + (l + 1) <= n PROVE off[i] < off[(i + 1) + (l + 1)]
    OBVIOUS
  <2> DEFINE k == (i + 1) + l
  <2>1. k \in 1 .. n - 1 /\ k + 1 = (i + 1) + (l + 1) /\ k \in 1 .. n /\ k + 1 \in 1 .. n /\ i \in 1 .. n
    BY <1>1, <1>3
  <2>2. off[i] < off[k]
    BY <1>5, <2>1
  <2> HIDE DEF k
  <2>3. off[k] < off[k + 1] /\ off[i] \in Nat /\ off[k] \in Nat /\ off[k + 1] \in Nat
    BY <1>1, <1>2, <2>1
  <2>4. off[i] < off[k + 1]
    BY <2>2, <2>3
  <2> QED BY <2>1, <2>4
<1> DEFINE m == j - (i + 1)
<1>6. m \in Nat /\ (i + 1) + m = j
  BY <1>3
<1>7. m \in T
  <2> HIDE DEF T, m
  <2> QED BY <1>4, <1>5, <1>6, AllNats
<1> QED BY <1>3, <1>6, <1>7

LEMMA OffBound ==
  ASSUME NEW c, NEW w, NEW off, Path(c, w, off),
         NEW most \in Nat, \A i \in Instr : i.len <= most, NEW j \in 1 .. Len(w)
  PROVE  off[j] <= (j - 1) * most
<1> DEFINE n == Len(w)
           T == {l \in Nat : l + 1 <= n => off[l + 1] <= l * most}
<1>1. /\ n \in Nat /\ (\A k \in 1 .. n : off[k] \in Nat) /\ off[1] = 0
      /\ \A k \in 1 .. n - 1 : off[k + 1] = off[k] + c[w[k]].len /\ c[w[k]] \in Instr
  <2>1. n \in Nat /\ off \in Seq(Nat) /\ Len(off) = n /\ off[1] = 0
    BY DEF Path
  <2>2. \A k \in 1 .. n - 1 : off[k + 1] = off[k] + c[w[k]].len /\ c[w[k]] \in Instr
    BY DEF Path
  <2>3. \A k \in 1 .. n : off[k] \in Nat
    <3> HIDE DEF n
    <3> QED BY <2>1
  <2> QED BY <2>1, <2>2, <2>3
<1> HIDE DEF n
<1>2. 0 \in T
  <2>1. 0 * most = 0
    OBVIOUS
  <2> QED BY <1>1, <2>1
<1>3. ASSUME NEW l \in Nat, l \in T PROVE l + 1 \in T
  <2> SUFFICES ASSUME (l + 1) + 1 <= n PROVE off[(l + 1) + 1] <= (l + 1) * most
    OBVIOUS
  <2> DEFINE k == l + 1
  <2>1. k \in 1 .. n - 1 /\ k \in 1 .. n
    BY <1>1
  <2>2. off[k] <= l * most
    BY <1>1, <1>3, <2>1
  <2> HIDE DEF k
  <2>3. c[w[k]] \in Instr /\ off[k + 1] = off[k] + c[w[k]].len
    BY <1>1, <2>1
  <2>4. c[w[k]].len \in Nat /\ c[w[k]].len <= most
    BY <2>3, InstrFacts
  <2>5. (l + 1) * most = l * most + most /\ l * most \in Nat
    OBVIOUS
  <2>6. off[k + 1] <= l * most + most
    <3> DEFINE x == l * most
    <3>1. x \in Nat /\ off[k] <= x /\ off[k] \in Nat
      BY <1>1, <2>1, <2>2, <2>5
    <3> HIDE DEF x
    <3>2. off[k + 1] <= x + most
      BY <2>3, <2>4, <3>1
    <3> QED BY <3>2 DEF x
  <2> QED BY <2>5, <2>6 DEF k
<1> DEFINE m == j - 1
<1>4. m \in Nat /\ m + 1 = j /\ m + 1 <= n
  BY <1>1 DEF n
<1>5. m \in T
  <2> HIDE DEF T, m
  <2> QED BY <1>2, <1>3, <1>4, AllNats
<1> QED BY <1>4, <1>5

\* A run visits no address twice, and is no longer than there is code.
LEMMA PathDistinct ==
  ASSUME Straight, NEW c, NEW w, NEW off, Path(c, w, off),
         IsFiniteSet(Coded(c)), Cardinality(Coded(c)) <= MaxCode
  PROVE  /\ Len(w) - 1 <= MaxCode
         /\ \A i, j \in 1 .. Len(w) : w[i] = w[j] => i = j
<1>1. PICK most \in Nat : (\A i \in Instr : i.len \in 1 .. most) /\ MaxCode * most < Words
  BY DEF Straight
<1>2. /\ \A i \in Instr : i.len >= 1 /\ i.len <= most
      /\ MaxCode \in Nat
  BY <1>1, BranchResolveAssumption
<1> DEFINE n == Len(w)
<1>3. /\ n \in Nat /\ n >= 1 /\ \A k \in 1 .. n : off[k] \in Nat /\ w[k] = Plus(Entry, off[k])
      /\ \A k \in 1 .. n - 1 : w[k] \in Coded(c)
  BY DEF Path
<1>4. ASSUME NEW i \in 1 .. n, NEW j \in 1 .. n, i < j, j <= MaxCode + 1 PROVE w[i] # w[j]
  <2>1. off[i] < off[j]
    BY <1>2, <1>4, OffGrows
  <2>2. off[j] <= (j - 1) * most
    BY <1>2, OffBound
  <2>3. (j - 1) * most <= MaxCode * most
    <3>1. j - 1 \in Nat /\ j - 1 <= MaxCode
      BY <1>2, <1>3, <1>4
    <3> DEFINE k == j - 1
    <3> HIDE DEF k
    <3>2. k * most <= MaxCode * most
      BY <1>2, <3>1 DEF k
    <3> QED BY <3>2 DEF k
  <2> DEFINE x == (j - 1) * most
             y == MaxCode * most
  <2>4. x \in Int /\ y \in Int /\ Words \in Nat
    BY <1>2, <1>3, HalfWords
  <2> HIDE DEF x, y
  <2>5. off[j] < Words
    BY <1>1, <1>3, <2>2, <2>3, <2>4 DEF x, y
  <2> QED BY <1>3, <2>1, <2>5, FarApart
<1>5. n - 1 <= MaxCode
  <2> SUFFICES ASSUME n - 1 > MaxCode PROVE FALSE
    BY <1>2, <1>3
  <2> DEFINE m == MaxCode + 1
             f == [k \in 1 .. m |-> w[k]]
  <2>1. m \in Nat /\ \A k \in 1 .. m : k \in 1 .. n - 1 /\ k \in 1 .. n /\ k <= MaxCode + 1
    BY <1>2, <1>3
  <2>2. f \in [1 .. m -> Coded(c)]
    BY <1>3, <2>1
  <2>3. IsFiniteSet(1 .. m) /\ Cardinality(1 .. m) = m
    <3>1. 1 \in Int /\ m \in Int /\ ~(1 > m) /\ m - 1 + 1 = m
      BY <1>2
    <3> HIDE DEF m
    <3> QED BY <3>1, FS_Interval
  <2>4. Cardinality(Coded(c)) < Cardinality(1 .. m)
    <3>1. Cardinality(Coded(c)) \in Nat
      BY FS_CardinalityType
    <3> QED BY <1>2, <2>3, <3>1
  <2>5. \A k \in 1 .. m : f[k] = w[k]
    OBVIOUS
  <2> HIDE DEF f, m
  <2>6. PICK i, j \in 1 .. m : i # j /\ f[i] = f[j]
    BY <2>2, <2>3, <2>4, FS_PigeonHole
  <2>7. w[i] = w[j] /\ i \in 1 .. n /\ j \in 1 .. n /\ i <= MaxCode + 1 /\ j <= MaxCode + 1
    BY <2>1, <2>5, <2>6
  <2>8. i < j \/ j < i
    BY <2>6, <2>7
  <2> QED BY <1>4, <2>7, <2>8
<1>6. ASSUME NEW i \in 1 .. n, NEW j \in 1 .. n, w[i] = w[j] PROVE i = j
  <2>1. i <= MaxCode + 1 /\ j <= MaxCode + 1
    BY <1>2, <1>3, <1>5
  <2>2. i < j \/ j < i \/ i = j
    OBVIOUS
  <2> QED BY <1>4, <1>6, <2>1, <2>2
<1> QED BY <1>5, <1>6

\* A run stays one when more is read.
LEMMA PathKept ==
  ASSUME NEW c, NEW d, NEW w, NEW off, Path(c, w, off),
         \A x \in DOMAIN c : x \in DOMAIN d /\ d[x] = c[x]
  PROVE  Path(d, w, off)
BY DEF Path, Coded

LEMMA PathExtends ==
  ASSUME NEW c, NEW w, NEW off, Path(c, w, off),
         NEW a, a = w[Len(w)], a \in Coded(c), c[a] \in Instr
  PROVE  Path(c, Append(w, Plus(a, c[a].len)), Append(off, off[Len(w)] + c[a].len))
<1> DEFINE n == Len(w)
           b == Plus(a, c[a].len)
           x == off[n] + c[a].len
           v == Append(w, b)
           o == Append(off, x)
<1>1. /\ w \in Seq(Word) /\ off \in Seq(Nat) /\ Len(off) = n /\ n \in Nat /\ n >= 1
      /\ w[1] = Entry /\ off[1] = 0
      /\ \A j \in 1 .. n - 1 :
           /\ w[j] \in Coded(c) /\ c[w[j]] \in Instr
           /\ w[j + 1] = Plus(w[j], c[w[j]].len) /\ off[j + 1] = off[j] + c[w[j]].len
      /\ \A j \in 1 .. n : w[j] = Plus(Entry, off[j])
  BY DEF Path
<1>2. a \in Word /\ a \in Int /\ off[n] \in Nat /\ c[a].len \in Nat /\ Entry \in Int
  <2>1. a \in Word
    BY <1>1
  <2> QED BY <1>1, <2>1, InstrFacts, WordNat, BranchResolveAssumption
<1>3. b \in Word /\ x \in Nat
  <2>1. a + c[a].len \in Int
    BY <1>2
  <2> QED BY <1>2, <2>1, Wrapped DEF Plus
<1>4. b = Plus(Entry, x)
  <2> DEFINE y == off[n]
             z == c[a].len
  <2>1. a = Plus(Entry, y) /\ y \in Int /\ z \in Int
    BY <1>1, <1>2
  <2> HIDE DEF y, z
  <2>2. Plus(a, z) = Plus(Entry, y + z)
    BY <1>2, <2>1, PlusTwice
  <2> QED BY <2>2 DEF y, z
<1>5. /\ v \in Seq(Word) /\ Len(v) = n + 1 /\ v[n + 1] = b /\ \A j \in 1 .. n : v[j] = w[j]
  BY <1>1, <1>3, AppendAt
<1>6. /\ o \in Seq(Nat) /\ Len(o) = n + 1 /\ o[n + 1] = x /\ \A j \in 1 .. n : o[j] = off[j]
  BY <1>1, <1>3, AppendAt
<1>7. x = off[n] + c[a].len /\ b = Plus(a, c[a].len) /\ a = w[n]
  OBVIOUS
<1> HIDE DEF n, b, x, v, o
<1>8. \A j \in 1 .. n + 1 : v[j] = Plus(Entry, o[j])
  <2> TAKE j \in 1 .. n + 1
  <2>1. j \in 1 .. n \/ j = n + 1
    BY <1>1
  <2> QED BY <1>1, <1>4, <1>5, <1>6, <2>1
<1>9. \A j \in 1 .. (n + 1) - 1 :
        /\ v[j] \in Coded(c) /\ c[v[j]] \in Instr
        /\ v[j + 1] = Plus(v[j], c[v[j]].len) /\ o[j + 1] = o[j] + c[v[j]].len
  <2> TAKE j \in 1 .. (n + 1) - 1
  <2>1. j \in 1 .. n /\ (j \in 1 .. n - 1 \/ j = n)
    BY <1>1
  <2>2. CASE j \in 1 .. n - 1
    <3>1. j + 1 \in 1 .. n
      BY <1>1, <2>2
    <3> QED BY <1>1, <1>5, <1>6, <2>1, <2>2, <3>1
  <2>3. CASE j = n
    BY <1>1, <1>5, <1>6, <1>7, <2>1, <2>3
  <2> QED BY <2>1, <2>2, <2>3
<1>10. v[1] = Entry /\ o[1] = 0 /\ Len(v) >= 1 /\ Len(o) = Len(v)
  <2>1. 1 \in 1 .. n
    BY <1>1
  <2> QED BY <1>1, <1>5, <1>6, <2>1
<1>11. Path(c, v, o)
  BY <1>5, <1>6, <1>8, <1>9, <1>10 DEF Path
<1> QED BY <1>11 DEF v, o, b, x, n

LEMMA SpotFirst ==
  ASSUME NEW a \in Word, NEW S, NEW s \in Seq(S)
  PROVE  Spot(a, s, 0) = a
BY NoPart, PlusNothing DEF Spot

LEMMA SpotNext ==
  ASSUME NEW a \in Word, NEW S, NEW s \in Seq(S), NEW k \in 1 .. Len(s),
         \A j \in 1 .. k : s[j] \in Instr
  PROVE  Spot(a, s, k) = Plus(Spot(a, s, k - 1), s[k].len)
<1> DEFINE x == SubSeq(s, 1, k - 1)
<1>1. x \in Seq(S) /\ Len(x) = k - 1 /\ \A j \in 1 .. k - 1 : x[j] = s[j]
  OBVIOUS
<1>2. s[k] \in Instr /\ k \in 1 .. k /\ \A j \in 1 .. k - 1 : j \in 1 .. k
  OBVIOUS
<1>3. x \in Seq(Instr)
  <2> HIDE DEF x
  <2>1. \A j \in 1 .. Len(x) : x[j] \in Instr
    BY <1>1, <1>2
  <2> QED BY <1>1, <2>1
<1>4. SubSeq(s, 1, k) = Append(x, s[k])
  BY Parts
<1> HIDE DEF x
<1>5. Length(SubSeq(s, 1, k)) = Length(x) + s[k].len
  BY <1>2, <1>3, <1>4, LengthAppend
<1>6. Length(x) \in Nat /\ s[k].len \in Nat /\ a \in Int
  BY <1>2, <1>3, LengthNat, InstrFacts, WordNat
<1>7. Plus(Plus(a, Length(x)), s[k].len) = Plus(a, Length(x) + s[k].len)
  <2> DEFINE y == Length(x)
             z == s[k].len
  <2>1. y \in Int /\ z \in Int
    BY <1>6
  <2> HIDE DEF y, z
  <2>2. Plus(Plus(a, y), z) = Plus(a, y + z)
    BY <1>6, <2>1, PlusTwice
  <2> QED BY <2>2 DEF y, z
<1> QED BY <1>5, <1>7 DEF Spot, x

\* The run w goes on along the first q of s.
Continued(c, w, s, q) ==
  \E v, o : /\ Path(c, v, o) /\ Len(v) = Len(w) + q
            /\ \A j \in 1 .. Len(w) : v[j] = w[j]
            /\ \A k \in 0 .. q : v[Len(w) + k] = Spot(w[Len(w)], s, k)

\* Along what was read ahead, a run goes on.
LEMMA PathAlong ==
  ASSUME NEW c, NEW w, NEW off, Path(c, w, off),
         NEW S, NEW s \in Seq(S), Placed(c, w[Len(w)], s),
         NEW q \in 0 .. Len(s), \A k \in 1 .. q : s[k] \in Instr
  PROVE  Continued(c, w, s, q)
<1> DEFINE n == Len(w)
           a == w[n]
           Goes(v, o, l) == /\ Path(c, v, o) /\ Len(v) = n + l
                            /\ \A j \in 1 .. n : v[j] = w[j]
                            /\ \A k \in 0 .. l : v[n + k] = Spot(a, s, k)
           T == {l \in Nat : l <= q => \E v, o : Goes(v, o, l)}
<1>1. n \in Nat /\ n >= 1 /\ a \in Word /\ q \in Nat
  BY DEF Path
<1> HIDE DEF n, a
<1>2. 0 \in T
  <2>1. Len(w) = n + 0 /\ w[n + 0] = a
    BY <1>1 DEF n, a
  <2>2. \A k \in 0 .. 0 : w[n + k] = Spot(a, s, k)
    <3>1. \A k \in 0 .. 0 : k = 0
      OBVIOUS
    <3> QED BY <1>1, <2>1, <3>1, SpotFirst
  <2>3. Goes(w, off, 0)
    BY <2>1, <2>2
  <2> HIDE DEF Goes
  <2> QED BY <2>3
<1>3. ASSUME NEW l \in Nat, l \in T PROVE l + 1 \in T
  <2> SUFFICES ASSUME l + 1 <= q PROVE \E v, o : Goes(v, o, l + 1)
    OBVIOUS
  <2>1. l <= q /\ l + 1 \in 1 .. q /\ l + 1 \in 1 .. Len(s) /\ (l + 1) - 1 = l
    BY <1>1
  <2>2. PICK v, o : Goes(v, o, l)
    BY <1>3, <2>1
  <2> DEFINE b == Spot(a, s, l)
             i == s[l + 1]
             x == Plus(b, c[b].len)
             y == o[Len(v)] + c[b].len
  <2>3. b \in DOMAIN c /\ c[b] = i
    BY <2>1 DEF Placed, a, n
  <2>4. i \in Instr
    BY <2>1
  <2>5. Len(v) = n + l /\ b = v[Len(v)] /\ Path(c, v, o) /\ v \in Seq(Word)
    <3>1. l \in 0 .. l
      OBVIOUS
    <3> QED BY <2>2, <3>1 DEF Path
  <2>6. b \in Coded(c) /\ c[b] \in Instr
    BY <2>3, <2>4, NoneRead DEF Coded
  <2>7. x = Spot(a, s, l + 1)
    <3>1. \A j \in 1 .. l + 1 : s[j] \in Instr
      <4>1. \A j \in 1 .. l + 1 : j \in 1 .. q
        BY <1>1, <2>1
      <4> QED BY <4>1
    <3>2. Spot(a, s, l + 1) = Plus(Spot(a, s, (l + 1) - 1), s[l + 1].len)
      BY <1>1, <2>1, <3>1, SpotNext
    <3> QED BY <2>1, <2>3, <3>2
  <2> HIDE DEF b, i
  <2>8. Path(c, Append(v, x), Append(o, y))
    BY <2>5, <2>6, PathExtends
  <2> HIDE DEF x, y
  <2>9. x \in Word
    <3>1. Append(v, x) \in Seq(Word) /\ Len(Append(v, x)) = Len(v) + 1 /\ Append(v, x)[Len(v) + 1] = x
          /\ Len(v) \in Nat
      BY <2>5, <2>8 DEF Path
    <3> DEFINE u == Append(v, x)
    <3>2. u \in Seq(Word) /\ Len(v) + 1 \in 1 .. Len(u) /\ u[Len(v) + 1] = x
      BY <3>1
    <3> HIDE DEF u
    <3> QED BY <3>2
  <2>10. /\ Append(v, x) \in Seq(Word) /\ Len(Append(v, x)) = (n + l) + 1
         /\ Append(v, x)[(n + l) + 1] = x
         /\ \A j \in 1 .. n + l : Append(v, x)[j] = v[j]
    BY <2>5, <2>9, AppendAt
  <2> DEFINE u == Append(v, x)
  <2>11. /\ Len(u) = (n + l) + 1 /\ u[(n + l) + 1] = x /\ \A j \in 1 .. n + l : u[j] = v[j]
    BY <2>10
  <2> HIDE DEF u
  <2>12. \A j \in 1 .. n : u[j] = w[j]
    <3>1. \A j \in 1 .. n : j \in 1 .. n + l
      BY <1>1
    <3> QED BY <2>2, <2>11, <3>1
  <2>13. \A k \in 0 .. l + 1 : u[n + k] = Spot(a, s, k)
    <3> TAKE k \in 0 .. l + 1
    <3>1. CASE k = l + 1
      <4>1. n + k = (n + l) + 1
        BY <1>1, <3>1
      <4> QED BY <2>7, <2>11, <3>1, <4>1
    <3>2. CASE k # l + 1
      <4>1. k \in 0 .. l /\ n + k \in 1 .. n + l
        BY <1>1, <3>2
      <4> QED BY <2>2, <2>11, <4>1
    <3> QED BY <3>1, <3>2
  <2>14. Len(u) = n + (l + 1)
    BY <1>1, <2>11
  <2>15. Goes(u, Append(o, y), l + 1)
    BY <2>8, <2>12, <2>13, <2>14 DEF u
  <2> HIDE DEF Goes
  <2> QED BY <2>15
<1>4. q \in T
  <2> HIDE DEF T
  <2> QED BY <1>1, <1>2, <1>3, AllNats
<1>5. \E v, o : Goes(v, o, q)
  <2> HIDE DEF Goes
  <2> QED BY <1>1, <1>4
<1> QED BY <1>5 DEF n, a, Continued

-----------------------------------------------------------------------------
(* What is listed *)

\* The instruction at the end of the run is no transfer of its own, and is passed.
LEMMA ListedPassed ==
  ASSUME NEW c, NEW w \in Seq(Word), Len(w) >= 1, NEW list, Listed(c, w, list, FALSE),
         NEW v \in Seq(Word), Len(v) = Len(w) + 1, \A j \in 1 .. Len(w) : v[j] = w[j],
         c[w[Len(w)]].op \notin Transfers
  PROVE  Listed(c, v, list, FALSE)
<1> DEFINE n == Len(w)
<1>1. n \in Nat /\ n >= 1
  OBVIOUS
<1> HIDE DEF n
<1>2. ASSUME NEW k \in DOMAIN list
      PROVE  \E m \in 1 .. n + 1 :
               /\ v[m] = list[k].at /\ list[k].count \in Nat \ {0}
               /\ m + list[k].count <= n + 1
               /\ m + list[k].count - 1 <= n + 1 => c[v[m + list[k].count - 1]].op \in Transfers
  <2> DEFINE q == list[k].count
  <2>1. PICK m \in 1 .. n : /\ w[m] = list[k].at /\ q \in Nat \ {0} /\ m + q <= n
                            /\ m + q - 1 <= n => c[w[m + q - 1]].op \in Transfers
    BY DEF Listed, n
  <2> HIDE DEF q
  <2>2. m \in 1 .. n + 1 /\ m + q - 1 \in 1 .. n /\ m + q <= n + 1 /\ m + q - 1 <= n
    BY <1>1, <2>1
  <2>3. v[m] = w[m] /\ v[m + q - 1] = w[m + q - 1]
    BY <2>2 DEF n
  <2> QED BY <2>1, <2>2, <2>3 DEF q
<1>3. ASSUME NEW j \in 1 .. n + 1, j < n + 1, c[v[j]].op \in Transfers
      PROVE  \E k \in DOMAIN list, m \in 1 .. n + 1 : v[m] = list[k].at /\ j = m + list[k].count - 1
  <2>1. j \in 1 .. n /\ v[j] = w[j]
    BY <1>1, <1>3 DEF n
  <2>2. j < n
    BY <1>1, <1>3, <2>1 DEF n
  <2>3. PICK k \in DOMAIN list, m \in 1 .. n : w[m] = list[k].at /\ j = m + list[k].count - 1
    BY <1>3, <2>1, <2>2 DEF Listed, n
  <2>4. m \in 1 .. n + 1 /\ v[m] = w[m]
    BY <1>1, <2>3 DEF n
  <2> QED BY <2>3, <2>4
<1> QED BY <1>1, <1>2, <1>3 DEF Listed, n

\* A pattern of q instructions from the end of the run, the last the only transfer.
LEMMA ListedOne ==
  ASSUME NEW c, NEW w \in Seq(Word), Len(w) >= 1, NEW S, NEW list \in Seq(S),
         Listed(c, w, list, FALSE), NEW q \in Nat \ {0},
         NEW v \in Seq(Word), Len(v) = Len(w) + q, \A j \in 1 .. Len(w) : v[j] = w[j],
         c[v[Len(w) + q - 1]].op \in Transfers,
         \A k \in 0 .. q - 2 : c[v[Len(w) + k]].op \notin Transfers,
         NEW e \in S, e.at = w[Len(w)], e.count = q
  PROVE  Listed(c, v, Append(list, e), FALSE)
<1> DEFINE n == Len(w)
           last == Append(list, e)
           z == Len(list)
<1>1. n \in Nat /\ n >= 1 /\ q \in Nat /\ q >= 1 /\ n \in 1 .. n /\ z \in Nat
  OBVIOUS
<1>2. /\ DOMAIN last = 1 .. z + 1 /\ DOMAIN list = 1 .. z /\ last[z + 1] = e
      /\ \A k \in 1 .. z : last[k] = list[k] /\ k \in 1 .. z + 1
  <2>1. last \in Seq(S) /\ Len(last) = z + 1 /\ last[z + 1] = e /\ \A k \in 1 .. z : last[k] = list[k]
    BY AppendAt
  <2> HIDE DEF last
  <2> QED BY <1>1, <2>1
<1> HIDE DEF n, last, z
<1>3. ASSUME NEW k \in DOMAIN last
      PROVE  \E m \in 1 .. n + q :
               /\ v[m] = last[k].at /\ last[k].count \in Nat \ {0}
               /\ m + last[k].count <= n + q
               /\ m + last[k].count - 1 <= n + q => c[v[m + last[k].count - 1]].op \in Transfers
  <2>1. CASE k = z + 1
    <3>1. n \in 1 .. n + q /\ v[n] = w[n] /\ last[k] = e
      BY <1>1, <1>2, <2>1 DEF n
    <3> DEFINE x == last[k].count
    <3>2. v[n] = last[k].at /\ x = q /\ c[v[n + q - 1]].op \in Transfers
      BY <3>1 DEF n
    <3> HIDE DEF x
    <3>3. /\ n \in 1 .. n + q /\ x \in Nat \ {0} /\ n + x <= n + q
          /\ c[v[n + x - 1]].op \in Transfers
      BY <1>1, <3>1, <3>2
    <3> QED BY ONLY <3>2, <3>3 DEF x
  <2>2. CASE k \in 1 .. z
    <3> DEFINE x == last[k].count
    <3>1. PICK m \in 1 .. n : /\ w[m] = last[k].at /\ x \in Nat \ {0} /\ m + x <= n
                              /\ m + x - 1 <= n => c[w[m + x - 1]].op \in Transfers
      BY <1>2, <2>2 DEF Listed, n
    <3> HIDE DEF x
    <3>2. m \in 1 .. n + q /\ m + x - 1 \in 1 .. n /\ m + x <= n + q /\ m + x - 1 <= n
      BY <1>1, <3>1
    <3>3. v[m] = w[m] /\ v[m + x - 1] = w[m + x - 1]
      BY <3>2 DEF n
    <3> QED BY <3>1, <3>2, <3>3 DEF x
  <2> QED BY <1>1, <1>2, <2>1, <2>2
<1>4. ASSUME NEW j \in 1 .. n + q, j < n + q, c[v[j]].op \in Transfers
      PROVE  \E k \in DOMAIN last, m \in 1 .. n + q : v[m] = last[k].at /\ j = m + last[k].count - 1
  <2>1. CASE j < n
    <3>1. j \in 1 .. n /\ v[j] = w[j]
      BY <1>1, <2>1 DEF n
    <3>2. PICK k \in DOMAIN list, m \in 1 .. n : w[m] = list[k].at /\ j = m + list[k].count - 1
      BY <1>4, <2>1, <3>1 DEF Listed, n
    <3>3. m \in 1 .. n + q /\ v[m] = w[m] /\ k \in DOMAIN last /\ last[k] = list[k]
      BY <1>1, <1>2, <3>2 DEF n
    <3> QED BY <3>2, <3>3
  <2>2. CASE j >= n
    <3>1. j = n + q - 1
      <4> SUFFICES ASSUME j # n + q - 1 PROVE FALSE
        OBVIOUS
      <4> DEFINE k == j - n
      <4>1. k \in 0 .. q - 2 /\ n + k = j
        BY <1>1, <1>4, <2>2
      <4> HIDE DEF k
      <4> QED BY <1>4, <4>1 DEF n
    <3>2. z + 1 \in DOMAIN last /\ n \in 1 .. n + q /\ v[n] = last[z + 1].at /\ last[z + 1].count = q
      BY <1>1, <1>2 DEF n
    <3> QED BY <3>1, <3>2
  <2> QED BY <1>1, <2>1, <2>2
<1>5. Len(v) = n + q
  BY DEF n
<1>6. Listed(c, v, last, FALSE)
  BY ONLY <1>3, <1>4, <1>5 DEF Listed
<1> QED BY <1>6 DEF last

\* The end of the run is looked at, and is no transfer.
LEMMA ListedEnd ==
  ASSUME NEW c, NEW w \in Seq(Word), Len(w) >= 1, NEW list, Listed(c, w, list, FALSE),
         c[w[Len(w)]].op \notin Transfers
  PROVE  Listed(c, w, list, TRUE)
<1> DEFINE n == Len(w)
<1>1. n \in Nat /\ n >= 1
  OBVIOUS
<1>2. \A j \in 1 .. n : j < n \/ j = n
  OBVIOUS
<1> QED BY <1>1, <1>2 DEF Listed

\* A pattern of q instructions begins at the end of the run, and nothing follows.
LEMMA ListedLast ==
  ASSUME NEW c, NEW w \in Seq(Word), Len(w) >= 1, NEW S, NEW list \in Seq(S),
         Listed(c, w, list, FALSE), NEW q \in Nat \ {0},
         q = 1 <=> c[w[Len(w)]].op \in Transfers,
         NEW e \in S, e.at = w[Len(w)], e.count = q
  PROVE  Listed(c, w, Append(list, e), TRUE)
<1> DEFINE n == Len(w)
           last == Append(list, e)
           z == Len(list)
<1>1. n \in Nat /\ n >= 1 /\ q \in Nat /\ q >= 1 /\ n \in 1 .. n /\ z \in Nat
  OBVIOUS
<1>2. /\ DOMAIN last = 1 .. z + 1 /\ DOMAIN list = 1 .. z /\ last[z + 1] = e
      /\ \A k \in 1 .. z : last[k] = list[k] /\ k \in 1 .. z + 1
  <2>1. last \in Seq(S) /\ Len(last) = z + 1 /\ last[z + 1] = e /\ \A k \in 1 .. z : last[k] = list[k]
    BY AppendAt
  <2> HIDE DEF last
  <2> QED BY <1>1, <2>1
<1> HIDE DEF n, last, z
<1>3. ASSUME NEW k \in DOMAIN last
      PROVE  \E m \in 1 .. n :
               /\ w[m] = last[k].at /\ last[k].count \in Nat \ {0}
               /\ m + last[k].count - 1 <= n => c[w[m + last[k].count - 1]].op \in Transfers
  <2>1. CASE k = z + 1
    <3>1. last[k] = e /\ w[n] = e.at
      BY <1>2, <2>1 DEF n
    <3>2. n + q - 1 <= n => q = 1 /\ n + q - 1 = n
      BY <1>1
    <3> QED BY <1>1, <3>1, <3>2 DEF n
  <2>2. CASE k \in 1 .. z
    BY <1>2, <2>2 DEF Listed, n
  <2> QED BY <1>1, <1>2, <2>1, <2>2
<1>4. ASSUME NEW j \in 1 .. n, c[w[j]].op \in Transfers
      PROVE  \E k \in DOMAIN last, m \in 1 .. n : w[m] = last[k].at /\ j = m + last[k].count - 1
  <2>1. CASE j < n
    <3>1. PICK k \in DOMAIN list, m \in 1 .. n : w[m] = list[k].at /\ j = m + list[k].count - 1
      BY <1>4, <2>1 DEF Listed, n
    <3> QED BY <1>2, <3>1
  <2>2. CASE j = n
    <3>1. q = 1 /\ n = n + q - 1
      BY <1>1, <1>4, <2>2 DEF n
    <3>2. z + 1 \in DOMAIN last /\ w[n] = last[z + 1].at /\ last[z + 1].count = q
      BY <1>1, <1>2 DEF n
    <3> QED BY <1>1, <2>2, <3>1, <3>2
  <2> QED BY <1>1, <2>1, <2>2
<1> QED BY <1>1, <1>3, <1>4 DEF Listed, n, last

-----------------------------------------------------------------------------
(* The run that is promised *)

\* One address more on the line l up to the address to.
Beyond(c, to, l) ==
  IF l[Len(l)] = to \/ c[l[Len(l)]] = NoInstr THEN l ELSE Append(l, Plus(l[Len(l)], c[l[Len(l)]].len))

LEMMA LineFacts ==
  ASSUME NEW from, NEW to
  PROVE  \E f : /\ f[0] = <<from>>
                /\ \A k \in 1 .. MaxCode : f[k] = Beyond(code, to, f[k - 1])
                /\ Line(from, to) = f[MaxCode]
<1> DEFINE Step(l, k) == Beyond(code, to, l)
           T == {l \in Nat : \E g : g = [k \in 0 .. l |-> IF k = 0 THEN <<from>> ELSE Step(g[k - 1], k)]}
<1> HIDE DEF Step
<1>1. 0 \in T
  <2> DEFINE g == [k \in 0 .. 0 |-> <<from>>]
  <2>1. g = [k \in 0 .. 0 |-> IF k = 0 THEN <<from>> ELSE Step(g[k - 1], k)]
    OBVIOUS
  <2> QED BY <2>1
<1>2. ASSUME NEW l \in Nat, l \in T PROVE l + 1 \in T
  <2>1. PICK g : g = [k \in 0 .. l |-> IF k = 0 THEN <<from>> ELSE Step(g[k - 1], k)]
    BY <1>2
  <2> DEFINE h == [k \in 0 .. l + 1 |-> IF k = 0 THEN <<from>> ELSE Step(g[k - 1], k)]
  <2>2. \A k \in 0 .. l : g[k] = IF k = 0 THEN <<from>> ELSE Step(g[k - 1], k)
    <3> DEFINE e == [k \in 0 .. l |-> IF k = 0 THEN <<from>> ELSE Step(g[k - 1], k)]
    <3>1. \A k \in 0 .. l : e[k] = IF k = 0 THEN <<from>> ELSE Step(g[k - 1], k)
      OBVIOUS
    <3>2. g = e
      BY <2>1
    <3> HIDE DEF e
    <3> QED BY <3>1, <3>2
  <2>3. \A k \in 0 .. l + 1 : h[k] = IF k = 0 THEN <<from>> ELSE Step(g[k - 1], k)
    OBVIOUS
  <2>4. \A k \in 0 .. l : g[k] = h[k]
    <3> TAKE k \in 0 .. l
    <3>1. k \in 0 .. l + 1
      OBVIOUS
    <3> QED BY <2>2, <2>3, <3>1
  <2> HIDE DEF h
  <2>5. \A k \in 0 .. l + 1 : k # 0 => g[k - 1] = h[k - 1]
    <3> TAKE k \in 0 .. l + 1
    <3> HAVE k # 0
    <3>1. k - 1 \in 0 .. l
      OBVIOUS
    <3> QED BY <2>4, <3>1
  <2>6. h = [k \in 0 .. l + 1 |-> IF k = 0 THEN <<from>> ELSE Step(h[k - 1], k)]
    BY <2>5 DEF h
  <2>7. l + 1 \in Nat
    OBVIOUS
  <2> QED BY <2>6, <2>7
<1> DEFINE n == MaxCode
<1>3. n \in Nat
  BY BranchResolveAssumption
<1>4. n \in T
  <2> HIDE DEF T, n
  <2>1. \A m \in Nat : m \in T
    BY <1>1, <1>2, AllNats
  <2> QED BY <1>3, <2>1
<1> DEFINE F == CHOOSE g : g = [k \in 0 .. n |-> IF k = 0 THEN <<from>> ELSE Step(g[k - 1], k)]
<1>5. F = [k \in 0 .. n |-> IF k = 0 THEN <<from>> ELSE Step(F[k - 1], k)]
  BY <1>4
<1>6. Line(from, to) = F[n]
  BY DEF Line, Step, Beyond
<1> HIDE DEF F, T, n
<1>7. \A k \in 0 .. n : F[k] = IF k = 0 THEN <<from>> ELSE Step(F[k - 1], k)
  <2> DEFINE e == [k \in 0 .. n |-> IF k = 0 THEN <<from>> ELSE Step(F[k - 1], k)]
  <2>1. \A k \in 0 .. n : e[k] = IF k = 0 THEN <<from>> ELSE Step(F[k - 1], k)
    OBVIOUS
  <2>2. F = e
    BY <1>5
  <2> HIDE DEF e
  <2> QED BY <2>1, <2>2
<1>8. F[0] = <<from>> /\ \A k \in 1 .. n : F[k] = Step(F[k - 1], k)
  BY <1>3, <1>7
<1> QED BY <1>6, <1>8 DEF Step, n

\* A run up to where it is is the line from the entry.
LEMMA LineIsPath ==
  ASSUME Straight, IsFiniteSet(Coded(code)), Cardinality(Coded(code)) <= MaxCode,
         NEW w, NEW off, Path(code, w, off)
  PROVE  Line(Entry, w[Len(w)]) = w
<1> DEFINE n == Len(w)
           to == w[n]
<1>1. n - 1 <= MaxCode /\ \A i, j \in 1 .. n : w[i] = w[j] => i = j
  BY PathDistinct
<1>2. /\ w \in Seq(Word) /\ n \in Nat /\ n >= 1 /\ w[1] = Entry
      /\ \A j \in 1 .. n - 1 : w[j] \in Coded(code) /\ w[j + 1] = Plus(w[j], code[w[j]].len)
  BY DEF Path
<1> HIDE DEF to
<1>3. PICK f : /\ f[0] = <<Entry>>
               /\ \A k \in 1 .. MaxCode : f[k] = Beyond(code, to, f[k - 1])
               /\ Line(Entry, to) = f[MaxCode]
  BY LineFacts
<1> HIDE DEF n
<1> DEFINE Upto(l) == IF l + 1 <= n THEN SubSeq(w, 1, l + 1) ELSE w
           T == {l \in Nat : l <= MaxCode => f[l] = Upto(l)}
<1>4. 0 \in T
  <2>1. SubSeq(w, 1, 1) = <<Entry>>
    <3>1. w # <<>>
      BY <1>2 DEF n
    <3> QED BY <1>2, <3>1, Prefixes
  <2> QED BY <1>2, <1>3, <2>1
<1>5. ASSUME NEW l \in Nat, l \in T PROVE l + 1 \in T
  <2> SUFFICES ASSUME l + 1 <= MaxCode PROVE f[l + 1] = Upto(l + 1)
    OBVIOUS
  <2>1. f[l + 1] = Beyond(code, to, f[l])
    <3>1. l + 1 \in 1 .. MaxCode /\ (l + 1) - 1 = l
      BY BranchResolveAssumption
    <3> QED BY <1>3, <3>1
  <2>2. f[l] = Upto(l)
    <3> HIDE DEF Upto
    <3>1. l <= MaxCode
      BY BranchResolveAssumption
    <3> QED BY <1>5, <3>1
  <2>3. CASE l + 1 < n
    <3> DEFINE k == l + 1
               a == SubSeq(w, 1, k)
    <3>1. k \in 1 .. n - 1 /\ k + 1 \in 1 .. n /\ k \in 1 .. n /\ k + 1 <= n /\ n \in 1 .. n /\ k # n
          /\ (k + 1) - 1 = k /\ k <= n
      BY <1>2, <2>3
    <3> HIDE DEF k
    <3>2. a \in Seq(Word) /\ Len(a) = k /\ a[k] = w[k]
      BY <1>2, <3>1 DEF n
    <3>3. f[l] = a
      BY <2>2, <3>1 DEF k
    <3>4. w[k] # to /\ code[w[k]] # NoInstr /\ w[k + 1] = Plus(w[k], code[w[k]].len)
      BY <1>1, <1>2, <3>1 DEF to, Coded
    <3>5. SubSeq(w, 1, k + 1) = Append(a, w[k + 1])
      BY <1>2, <3>1, Parts DEF n
    <3> HIDE DEF a
    <3>6. f[l + 1] = Append(a, w[k + 1])
      BY <2>1, <3>2, <3>3, <3>4 DEF Beyond
    <3>7. Upto(k) = SubSeq(w, 1, k + 1)
      BY <3>1
    <3> QED BY <3>5, <3>6, <3>7 DEF k
  <2>4. CASE l + 1 >= n
    <3>1. f[l] = w
      <4>1. CASE l + 1 = n
        <5>1. SubSeq(w, 1, n) = w
          <6>1. w # <<>>
            BY <1>2 DEF n
          <6> QED BY <1>2, <6>1, Prefixes DEF n
        <5> QED BY <1>2, <2>2, <4>1, <5>1
      <4>2. CASE l + 1 > n
        BY <1>2, <2>2, <4>2
      <4> QED BY <1>2, <2>4, <4>1, <4>2
    <3>2. Beyond(code, to, w) = w
      BY DEF Beyond, to, n
    <3>3. Upto(l + 1) = w
      BY <1>2, <2>4
    <3> QED BY <2>1, <3>1, <3>2, <3>3
  <2> QED BY <1>2, <2>3, <2>4
<1> HIDE DEF T
<1>6. MaxCode \in T
  BY <1>4, <1>5, AllNats, BranchResolveAssumption
<1>7. f[MaxCode] = Upto(MaxCode)
  BY <1>6, BranchResolveAssumption DEF T
<1>8. Upto(MaxCode) = w
  <2>1. CASE MaxCode + 1 <= n
    <3>1. MaxCode + 1 = n
      BY <1>1, <1>2, <2>1, BranchResolveAssumption
    <3>2. SubSeq(w, 1, n) = w
      <4>1. w # <<>>
        BY <1>2 DEF n
      <4> QED BY <1>2, <4>1, Prefixes DEF n
    <3> QED BY <2>1, <3>1, <3>2
  <2>2. CASE ~(MaxCode + 1 <= n)
    BY <2>2
  <2> QED BY <2>1, <2>2
<1> QED BY <1>3, <1>7, <1>8 DEF to, n

-----------------------------------------------------------------------------
(* The listing is kept *)

LEMMA ListedKept ==
  ASSUME NEW c, NEW d, NEW w, NEW off, Path(c, w, off), NEW list, Listed(c, w, list, FALSE),
         \A x \in DOMAIN c : x \in DOMAIN d /\ d[x] = c[x]
  PROVE  Listed(d, w, list, FALSE)
<1> DEFINE n == Len(w)
<1>1. n \in Nat /\ n >= 1 /\ \A j \in 1 .. n - 1 : w[j] \in DOMAIN c
  BY DEF Path, Coded
<1> HIDE DEF n
<1>2. \A j \in 1 .. n - 1 : d[w[j]] = c[w[j]]
  BY <1>1
<1>3. ASSUME NEW k \in DOMAIN list
      PROVE  \E m \in 1 .. n :
               /\ w[m] = list[k].at /\ list[k].count \in Nat \ {0}
               /\ m + list[k].count <= n
               /\ m + list[k].count - 1 <= n => d[w[m + list[k].count - 1]].op \in Transfers
  <2> DEFINE q == list[k].count
  <2>1. PICK m \in 1 .. n : /\ w[m] = list[k].at /\ q \in Nat \ {0} /\ m + q <= n
                            /\ m + q - 1 <= n => c[w[m + q - 1]].op \in Transfers
    BY DEF Listed, n
  <2> HIDE DEF q
  <2>2. m + q - 1 \in 1 .. n - 1 /\ m + q - 1 <= n
    BY <1>1, <2>1
  <2> QED BY <1>2, <2>1, <2>2 DEF q
<1>4. ASSUME NEW j \in 1 .. n, j < n, d[w[j]].op \in Transfers
      PROVE  \E k \in DOMAIN list, m \in 1 .. n : w[m] = list[k].at /\ j = m + list[k].count - 1
  <2>1. j \in 1 .. n - 1
    BY <1>1, <1>4
  <2>2. c[w[j]].op \in Transfers
    BY <1>2, <1>4, <2>1
  <2> QED BY <1>4, <2>2 DEF Listed, n
<1> QED BY <1>3, <1>4 DEF Listed, n

LEMMA ListInit == Init => ListInv
<1> SUFFICES ASSUME Init, asked = "all" PROVE ListInv
  BY DEF ListInv
<1> DEFINE w == <<Entry>>
           off == <<0>>
<1>1. code = <<>> /\ seen = <<>> /\ found = <<>> /\ at = Entry /\ pc = "fetch" /\ Entry \in Word
  BY BranchResolveAssumption DEF Init
<1>2. Coded(code) = {}
  BY <1>1 DEF Coded
<1>3. IsFiniteSet(Coded(code)) /\ Cardinality(Coded(code)) <= MaxCode
  BY <1>2, FS_EmptySet, BranchResolveAssumption
<1>4. Placed(code, at, seen)
  BY <1>1 DEF Placed
<1>5. /\ w \in Seq(Word) /\ Len(w) = 1 /\ w[1] = Entry
      /\ off \in Seq(Nat) /\ Len(off) = 1 /\ off[1] = 0
  BY <1>1
<1>6. Plus(Entry, 0) = Entry
  BY <1>1, PlusNothing, NoLength
<1> HIDE DEF w, off
<1>7. Path(code, w, off) /\ w[Len(w)] = at
  BY <1>1, <1>5, <1>6 DEF Path
<1>8. Listed(code, w, found, FALSE)
  BY <1>1, <1>5 DEF Listed
<1>9. found \in Seq([at : Word, count : Nat])
  BY <1>1
<1>10. \E v, o : /\ Path(code, v, o) /\ v[Len(v)] = at
                 /\ pc # "done" => Listed(code, v, found, FALSE)
                 /\ pc = "done" => Listed(code, v, found, TRUE)
  BY <1>1, <1>7, <1>8
<1> QED BY <1>1, <1>3, <1>4, <1>9, <1>10 DEF ListInv

\* What is known grows by one address at most, and only while there is room for it.
LEMMA CodedGrows ==
  ASSUME NEW a, NEW i \in Readable(a), IsFiniteSet(Coded(code)), Cardinality(Coded(code)) <= MaxCode
  PROVE  /\ IsFiniteSet(Coded(Learn(code, a, i))) /\ Cardinality(Coded(Learn(code, a, i))) <= MaxCode
         /\ a \in DOMAIN Learn(code, a, i) /\ Learn(code, a, i)[a] = i
         /\ \A x \in DOMAIN code : x \in DOMAIN Learn(code, a, i) /\ Learn(code, a, i)[x] = code[x]
<1> DEFINE d == Learn(code, a, i)
           C == Coded(code)
<1>1. a \in DOMAIN code => i = code[a]
  BY DEF Readable
<1>2. /\ DOMAIN d = {a} \cup DOMAIN code /\ d[a] = i
      /\ \A x \in DOMAIN code : d[x] = code[x]
  BY ONLY <1>1 DEF Learn
<1> HIDE DEF d
<1>3. Cardinality(C) \in Nat /\ MaxCode \in Nat
  BY FS_CardinalityType, BranchResolveAssumption
<1>4. CASE Coded(d) = C
  BY <1>2, <1>4 DEF d
<1>5. CASE Coded(d) # C
  <2>1. a \notin DOMAIN code /\ i # NoInstr
    BY <1>1, <1>2, <1>5 DEF Coded
  <2>2. Coded(d) = C \cup {a} /\ a \notin C
    BY <1>2, <2>1 DEF Coded
  <2>3. Cardinality(C) < MaxCode
    BY <2>1 DEF Readable, Coded
  <2>4. IsFiniteSet(Coded(d)) /\ Cardinality(Coded(d)) = Cardinality(C) + 1
    BY <2>2, FS_AddElement
  <2> QED BY <1>2, <1>3, <2>3, <2>4 DEF d
<1> QED BY <1>4, <1>5

\* An instruction more is read from where it is.
LEMMA PlacedGrows ==
  ASSUME NEW c, NEW d, NEW a, NEW S, NEW s \in Seq(S), NEW i \in S, Placed(c, a, s),
         \A x \in DOMAIN c : x \in DOMAIN d /\ d[x] = c[x],
         Plus(a, Length(s)) \in DOMAIN d, d[Plus(a, Length(s))] = i
  PROVE  Placed(d, a, Append(s, i))
<1> DEFINE t == Append(s, i)
           n == Len(s)
<1>1. n \in Nat /\ Len(t) = n + 1 /\ t[n + 1] = i /\ \A k \in 1 .. n : t[k] = s[k]
  BY AppendAt
<1>2. \A k \in 0 .. n : SubSeq(t, 1, k) = SubSeq(s, 1, k)
  BY PartsKept
<1>3. SubSeq(s, 1, n) = s
  OBVIOUS
<1> HIDE DEF t, n
<1>4. ASSUME NEW k \in 1 .. n + 1 PROVE Spot(a, t, k - 1) \in DOMAIN d /\ d[Spot(a, t, k - 1)] = t[k]
  <2>1. k - 1 \in 0 .. n
    BY <1>1
  <2>2. Spot(a, t, k - 1) = Plus(a, Length(SubSeq(s, 1, k - 1)))
    BY <1>2, <2>1 DEF Spot
  <2>3. CASE k = n + 1
    <3>1. k - 1 = n
      BY <1>1, <2>3
    <3> QED BY <1>1, <1>3, <2>2, <2>3, <3>1
  <2>4. CASE k \in 1 .. n
    <3>1. Spot(a, s, k - 1) \in DOMAIN c /\ c[Spot(a, s, k - 1)] = s[k]
      BY <2>4 DEF Placed, n
    <3> QED BY <1>1, <2>2, <2>4, <3>1 DEF Spot
  <2> QED BY <1>1, <2>3, <2>4
<1> QED BY <1>1, <1>4 DEF Placed, t

\* What is read ahead is passed by nobody yet.
LEMMA ListFetch == ChainInv /\ ListInv /\ Fetch => ListInv'
<1> SUFFICES ASSUME ChainInv, ListInv, Fetch, asked = "all" PROVE ListInv'
  BY DEF ListInv, Fetch
<1> DEFINE a == Plus(at, Length(seen))
           Both == Instr \cup {NoInstr}
<1>1. PICK i \in Readable(a) :
        /\ code' = Learn(code, a, i)
        /\ seen' = Append(seen, i)
        /\ pc' = IF Recognize(opt, Append(seen, i)) = More THEN "fetch" ELSE "act"
  BY DEF Fetch
<1>2. pc = "fetch" /\ asked' = "all" /\ at' = at /\ found' = found
  BY DEF Fetch
<1>3. seen \in Seq(Both) /\ i \in Both
  BY DEF Readable, ChainInv, TypeOK
<1>4. /\ IsFiniteSet(Coded(code)) /\ Cardinality(Coded(code)) <= MaxCode
      /\ Placed(code, at, seen) /\ found \in Seq([at : Word, count : Nat])
  BY DEF ListInv
<1> HIDE DEF a
<1>5. /\ IsFiniteSet(Coded(code')) /\ Cardinality(Coded(code')) <= MaxCode
      /\ a \in DOMAIN code' /\ code'[a] = i
      /\ \A x \in DOMAIN code : x \in DOMAIN code' /\ code'[x] = code[x]
  BY <1>1, <1>4, CodedGrows
<1> HIDE DEF Both
<1>6. Placed(code', at', seen')
  <2>1. Placed(code', at, Append(seen, i))
    BY <1>3, <1>4, <1>5, PlacedGrows DEF a
  <2> QED BY <1>1, <1>2, <2>1
<1>7. PICK w, off : /\ Path(code, w, off) /\ w[Len(w)] = at
                    /\ Listed(code, w, found, FALSE)
  BY <1>2 DEF ListInv
<1>8. Path(code', w, off) /\ w[Len(w)] = at'
  BY <1>2, <1>5, <1>7, PathKept
<1>9. Listed(code', w, found', FALSE)
  BY <1>2, <1>5, <1>7, ListedKept
<1>10. pc' # "done"
  BY <1>1
<1>11. found' \in Seq([at : Word, count : Nat])
  BY <1>2, <1>4
<1>12. \E v, o : /\ Path(code', v, o) /\ v[Len(v)] = at'
                 /\ pc' # "done" => Listed(code', v, found', FALSE)
                 /\ pc' = "done" => Listed(code', v, found', TRUE)
  BY <1>8, <1>9, <1>10
<1> QED BY <1>5, <1>6, <1>10, <1>11, <1>12 DEF ListInv

\* A turn of recognize_all looks at the end of the run, and stops or goes on behind it.
LEMMA ListTurn ==
  ASSUME ChainInv, ListInv, asked = "all", pc = "act", seen[1] # NoInstr,
         List(Recognize(opt, seen))
  PROVE  ListInv'
<1> DEFINE p == Recognize(opt, seen)
           Both == Instr \cup {NoInstr}
           q == IF p.valid THEN p.count ELSE 1
           e == [at |-> at, count |-> p.count]
           Entries == [at : Word, count : Nat]
<1>1. /\ seen \in Seq(Both) /\ Len(seen) \in Nat /\ Len(seen) >= 1 /\ Ending(p, seen)
  BY DEF ChainInv, TypeOK, Reading, Recognized
<1>2. /\ IsFiniteSet(Coded(code)) /\ Cardinality(Coded(code)) <= MaxCode
      /\ Placed(code, at, seen) /\ found \in Seq(Entries)
  BY DEF ListInv
<1>3. PICK w, off : /\ Path(code, w, off) /\ w[Len(w)] = at
                    /\ Listed(code, w, found, FALSE)
  BY DEF ListInv
<1>4. /\ w \in Seq(Word) /\ Len(w) \in Nat /\ Len(w) >= 1 /\ at \in Word
  BY <1>3 DEF Path
<1>5. /\ found' = IF p.valid THEN Append(found, e) ELSE found
      /\ \/ Stop
         \/ Again(Plus(at, IF p.valid THEN Length(SubSeq(seen, 1, p.count)) ELSE seen[1].len))
      /\ UNCHANGED <<code, asked>>
  BY DEF List, ListTo
<1> HIDE DEF p
<1>6. /\ q \in 1 .. Len(seen)
      /\ p.valid => p.count = q /\ seen[q].op \in Transfers
      /\ ~p.valid => q = 1 /\ seen[1].op \notin Transfers
      /\ \A k \in 1 .. q - 1 : seen[k].op \notin Transfers /\ seen[k].op # "none"
  BY <1>1 DEF Ending
<1>7. \A k \in 1 .. q : seen[k] \in Instr
  <2> SUFFICES ASSUME NEW k \in 1 .. q PROVE seen[k] \in Instr
    OBVIOUS
  <2>1. k \in 1 .. Len(seen) /\ seen[k] \in Both
    BY <1>1, <1>6
  <2>2. CASE k \in 1 .. q - 1
    BY <1>6, <2>1, <2>2, NoneRead
  <2>3. CASE k = q
    <3>1. "none" \notin Transfers
      BY DEF Transfers
    <3>2. CASE p.valid
      BY <1>6, <2>1, <2>3, <3>1, <3>2, NoneRead
    <3>3. CASE ~p.valid
      BY <1>6, <2>1, <2>3, <3>3
    <3> QED BY <3>2, <3>3
  <2> QED BY <1>6, <2>2, <2>3
<1> HIDE DEF q
<1>8. \A k \in 1 .. q : Spot(at, seen, k - 1) \in DOMAIN code /\ code[Spot(at, seen, k - 1)] = seen[k]
  <2> TAKE k \in 1 .. q
  <2>1. k \in 1 .. Len(seen)
    BY <1>1, <1>6
  <2> QED BY <1>2, <2>1 DEF Placed
<1>9. code[at] = seen[1] /\ Spot(at, seen, 0) = at
  <2>1. Spot(at, seen, 0) = at
    BY <1>1, <1>4, SpotFirst
  <2>2. 1 \in 1 .. q /\ 1 - 1 = 0
    BY <1>1, <1>6
  <2> QED BY <1>8, <2>1, <2>2
<1>10. p.valid => e \in Entries /\ e.at = w[Len(w)] /\ e.count = q
  BY <1>1, <1>3, <1>4, <1>6
<1> HIDE DEF e, Entries, Both
<1>11. found' \in Seq(Entries)
  BY <1>2, <1>5, <1>10
<1>12. q \in Nat \ {0} /\ q \in 0 .. Len(seen)
  BY <1>1, <1>6
<1>13. CASE Stop
  <2>1. UNCHANGED <<at, seen>> /\ pc' = "done"
    BY <1>13 DEF Stop
  <2>2. Listed(code, w, found', TRUE)
    <3>1. CASE p.valid
      <4>1. q = 1 <=> code[w[Len(w)]].op \in Transfers
        <5>1. q = 1 => code[w[Len(w)]].op \in Transfers
          BY <1>3, <1>6, <1>9, <3>1
        <5>2. q # 1 => 1 \in 1 .. q - 1
          BY <1>1, <1>6
        <5>3. q # 1 => code[w[Len(w)]].op \notin Transfers
          BY <1>3, <1>6, <1>9, <5>2
        <5> QED BY <5>1, <5>3
      <4> QED BY <1>2, <1>3, <1>4, <1>5, <1>10, <1>12, <3>1, <4>1, ListedLast
    <3>2. CASE ~p.valid
      BY <1>3, <1>4, <1>5, <1>6, <1>9, <3>2, ListedEnd
    <3> QED BY <3>1, <3>2
  <2>3. \E v, o : /\ Path(code', v, o) /\ v[Len(v)] = at'
                  /\ pc' # "done" => Listed(code', v, found', FALSE)
                  /\ pc' = "done" => Listed(code', v, found', TRUE)
    BY <1>3, <1>5, <2>1, <2>2
  <2>4. Placed(code', at', seen') /\ IsFiniteSet(Coded(code')) /\ Cardinality(Coded(code')) <= MaxCode
    BY <1>2, <1>5, <2>1
  <2> QED BY <1>11, <2>3, <2>4 DEF ListInv, Entries
<1>14. CASE Again(Plus(at, IF p.valid THEN Length(SubSeq(seen, 1, p.count)) ELSE seen[1].len))
  <2>1. seen' = <<>> /\ pc' = "fetch" /\ at' = Spot(at, seen, q)
    <3>1. CASE p.valid
      BY <1>6, <1>14, <3>1 DEF Again, Spot
    <3>2. CASE ~p.valid
      <4>1. q = 1 /\ 1 \in 1 .. Len(seen) /\ \A j \in 1 .. 1 : seen[j] \in Instr
        BY <1>1, <1>6, <1>7, <3>2
      <4>2. Spot(at, seen, 1) = Plus(Spot(at, seen, 1 - 1), seen[1].len)
        BY <1>1, <1>4, <4>1, SpotNext
      <4> QED BY <1>9, <1>14, <3>2, <4>1, <4>2 DEF Again
    <3> QED BY <3>1, <3>2
  <2>2. PICK v, o : /\ Path(code, v, o) /\ Len(v) = Len(w) + q
                    /\ \A j \in 1 .. Len(w) : v[j] = w[j]
                    /\ \A k \in 0 .. q : v[Len(w) + k] = Spot(at, seen, k)
    <3>1. Placed(code, w[Len(w)], seen)
      BY <1>2, <1>3
    <3>2. Continued(code, w, seen, q)
      BY <1>1, <1>3, <1>7, <1>12, <3>1, PathAlong
    <3> QED BY <1>3, <3>2 DEF Continued
  <2>3. v \in Seq(Word) /\ v[Len(v)] = at'
    <3>1. q \in 0 .. q
      BY <1>12
    <3> QED BY <2>1, <2>2, <3>1 DEF Path
  <2>4. Listed(code, v, found', FALSE)
    <3>1. CASE p.valid
      <4>1. code[v[Len(w) + q - 1]].op \in Transfers
        <5>1. q - 1 \in 0 .. q /\ q \in 1 .. q /\ Len(w) + q - 1 = Len(w) + (q - 1)
          BY <1>4, <1>12
        <5> QED BY <1>6, <1>8, <2>2, <3>1, <5>1
      <4>2. \A k \in 0 .. q - 2 : code[v[Len(w) + k]].op \notin Transfers
        <5> TAKE k \in 0 .. q - 2
        <5>1. k \in 0 .. q /\ k + 1 \in 1 .. q /\ k + 1 \in 1 .. q - 1 /\ (k + 1) - 1 = k
          BY <1>12
        <5>2. code[Spot(at, seen, (k + 1) - 1)] = seen[k + 1]
          BY <1>8, <5>1
        <5> QED BY <1>6, <2>2, <5>1, <5>2
      <4> QED BY <1>2, <1>3, <1>4, <1>5, <1>10, <1>12, <2>2, <2>3, <3>1, <4>1, <4>2, ListedOne
    <3>2. CASE ~p.valid
      <4>1. q = 1 /\ found' = found /\ code[w[Len(w)]].op \notin Transfers
        BY <1>3, <1>5, <1>6, <1>9, <3>2
      <4> QED BY <1>3, <1>4, <2>2, <2>3, <4>1, ListedPassed
    <3> QED BY <3>1, <3>2
  <2>5. \E u, x : /\ Path(code', u, x) /\ u[Len(u)] = at'
                  /\ pc' # "done" => Listed(code', u, found', FALSE)
                  /\ pc' = "done" => Listed(code', u, found', TRUE)
    BY <1>5, <2>1, <2>2, <2>3, <2>4
  <2>6. Placed(code', at', seen')
    BY <2>1 DEF Placed
  <2>7. IsFiniteSet(Coded(code')) /\ Cardinality(Coded(code')) <= MaxCode
    BY <1>2, <1>5
  <2> QED BY <1>11, <2>1, <2>5, <2>6, <2>7 DEF ListInv, Entries
<1> QED BY <1>5, <1>13, <1>14

LEMMA ListAct == ChainInv /\ ListInv /\ Act => ListInv'
<1> SUFFICES ASSUME ChainInv, ListInv, Act PROVE ListInv'
  OBVIOUS
<1>1. CASE asked # "all"
  <2>1. asked' = asked
    BY <1>1 DEF Act
  <2> QED BY <1>1, <2>1 DEF ListInv
<1>2. CASE asked = "all" /\ seen[1] # NoInstr
  BY <1>2, ListTurn DEF Act
<1>3. CASE asked = "all" /\ seen[1] = NoInstr
  <2>1. /\ UNCHANGED <<code, asked, at, seen, found>> /\ pc' = "done" /\ pc = "act"
    BY <1>3 DEF Act, EndList, Stop
  <2>2. seen \in Seq(Instr \cup {NoInstr}) /\ seen # <<>> /\ 1 \in 1 .. Len(seen)
    BY <2>1 DEF ChainInv, TypeOK, Reading
  <2>3. PICK w, off : /\ Path(code, w, off) /\ w[Len(w)] = at
                      /\ Listed(code, w, found, FALSE)
    BY <1>3, <2>1 DEF ListInv
  <2>4. w \in Seq(Word) /\ Len(w) >= 1 /\ at \in Word
    BY <2>3 DEF Path
  <2>5. code[at] = NoInstr
    <3>1. code[Spot(at, seen, 1 - 1)] = seen[1]
      BY <1>3, <2>2 DEF ListInv, Placed
    <3> QED BY <1>3, <2>2, <2>4, <3>1, SpotFirst
  <2>6. code[w[Len(w)]].op \notin Transfers
    BY <2>3, <2>5, NoneRead DEF Transfers
  <2>7. Listed(code, w, found, TRUE)
    BY <2>3, <2>4, <2>6, ListedEnd
  <2>8. \E v, o : /\ Path(code', v, o) /\ v[Len(v)] = at'
                  /\ pc' # "done" => Listed(code', v, found', FALSE)
                  /\ pc' = "done" => Listed(code', v, found', TRUE)
    BY <2>1, <2>3, <2>7
  <2>9. /\ IsFiniteSet(Coded(code')) /\ Cardinality(Coded(code')) <= MaxCode
        /\ Placed(code', at', seen') /\ found' \in Seq([at : Word, count : Nat])
    BY <1>3, <2>1 DEF ListInv
  <2> QED BY <2>1, <2>2, <2>8, <2>9 DEF ListInv
<1> QED BY <1>1, <1>2, <1>3

LEMMA ListStep == ChainInv /\ ListInv /\ [Next]_vars => ListInv'
<1> SUFFICES ASSUME ChainInv, ListInv, [Next]_vars PROVE ListInv'
  OBVIOUS
<1>1. CASE Next
  BY <1>1, ListFetch, ListAct DEF Next
<1>2. CASE UNCHANGED vars
  BY <1>2 DEF vars, ListInv
<1> QED BY <1>1, <1>2

(* What recognize_all has listed is the run that it has passed. *)
THEOREM ListInvariant == Spec => []ListInv
BY ListInit, ListStep, ChainInvariant, PTL DEF Spec

\* At the end, by addresses: no address of the run comes twice.
LEMMA ListPromised ==
  ASSUME Straight, ListInv
  PROVE  TransfersListed
<1> SUFFICES ASSUME pc = "done", asked = "all" PROVE TransfersListed
  BY DEF TransfersListed
<1> DEFINE line == Line(Entry, at)
           Ends(k) == {n + found[k].count - 1 : n \in {m \in DOMAIN line : line[m] = found[k].at}}
<1>1. IsFiniteSet(Coded(code)) /\ Cardinality(Coded(code)) <= MaxCode
  BY DEF ListInv
<1>2. PICK w, off : /\ Path(code, w, off) /\ w[Len(w)] = at
                    /\ Listed(code, w, found, TRUE)
  BY DEF ListInv
<1>3. line = w
  BY <1>1, <1>2, LineIsPath
<1>4. w \in Seq(Word) /\ DOMAIN w = 1 .. Len(w) /\ Len(w) \in Nat
      /\ \A i, j \in 1 .. Len(w) : w[i] = w[j] => i = j
  <2>1. w \in Seq(Word)
    BY <1>2 DEF Path
  <2> QED BY <1>1, <1>2, <2>1, PathDistinct
<1> HIDE DEF line
<1>5. ASSUME NEW j \in 1 .. Len(w), code[w[j]].op \in Transfers
      PROVE  \E k \in DOMAIN found : j \in Ends(k)
  <2>1. PICK k \in DOMAIN found, m \in 1 .. Len(w) : w[m] = found[k].at /\ j = m + found[k].count - 1
    BY <1>2, <1>5 DEF Listed
  <2>2. j \in Ends(k)
    BY <1>3, <1>4, <2>1
  <2> QED BY <2>2
<1>6. ASSUME NEW k \in DOMAIN found
      PROVE  /\ Ends(k) # {}
             /\ \A j \in Ends(k) \cap DOMAIN w : code[w[j]].op \in Transfers
  <2>1. PICK m \in 1 .. Len(w) :
          /\ w[m] = found[k].at
          /\ m + found[k].count - 1 <= Len(w) => code[w[m + found[k].count - 1]].op \in Transfers
    BY <1>2 DEF Listed
  <2>2. Ends(k) = {m + found[k].count - 1}
    BY <1>3, <1>4, <2>1
  <2> HIDE DEF Ends
  <2> QED BY <1>4, <2>1, <2>2
<1> QED BY <1>3, <1>4, <1>5, <1>6 DEF TransfersListed, line

(* recognize_all lists every transfer of a straight run, and nothing else, whatever the
   code holds: a transfer that begins no pattern of its own is the last instruction of
   an idiom, what is read ahead in vain is looked at again, and where the listing ends
   nothing of the run is left out. *)
THEOREM ListIsComplete == Straight => (Spec => []TransfersListed)
<1> SUFFICES ASSUME Straight PROVE Spec => []TransfersListed
  OBVIOUS
<1>1. ListInv => TransfersListed
  BY ListPromised
<1> QED BY <1>1, ListInvariant, PTL

-----------------------------------------------------------------------------
(* Every question is answered in a bounded number of steps *)

\* What is read of an idiom: five instructions, or six if the last is a push.
Short(s) == Len(s) <= 5 \/ (Len(s) = 6 /\ s[6].op = "pushr")

LEMMA ShortLength == ASSUME NEW s, Len(s) \in Nat, Short(s) PROVE Len(s) <= 6
<1> DEFINE n == Len(s)
<1>1. n \in Nat /\ (n <= 5 \/ n = 6)
  BY DEF Short
<1> HIDE DEF n
<1>2. n <= 6
  BY <1>1
<1> QED BY <1>2 DEF n

LEMMA ShortKept ==
  ASSUME NEW o, NEW S, NEW s \in Seq(S), Short(s), NEW i \in S, Recognize(o, Append(s, i)) = More
  PROVE  Short(Append(s, i))
<1> DEFINE t == Append(s, i)
           n == Len(s)
<1>1. /\ Len(t) = n + 1 /\ t[n + 1] = i /\ \A k \in 1 .. n : t[k] = s[k]
      /\ n \in Nat
  BY AppendAt
<1> HIDE DEF t, n
<1>2. CASE n <= 4
  BY <1>1, <1>2 DEF Short, t
<1>3. CASE n >= 5
  <2>1. Recognize(o, t) = More
    BY DEF t
  <2>2. Len(t) \notin {1, 2, 3} /\ Len(t) - 1 = n /\ ~(Len(t) < 6) /\ n \in 1 .. n
    BY <1>1, <1>3
  <2>3. Single(t[1]) # More /\ \A effect : Through(effect, t) # More
    BY SingleFacts, ThroughFacts
  <2>4. t[1].op # "pushi"
    <3>1. t[1].op = "pushi" => PushImm(t) = Single(t[1])
      BY <2>2 DEF PushImm
    <3> QED BY <2>1, <2>3, <3>1 DEF Recognize
  <2>5. t[1].op # "pushr"
    <3>1. t[1].op = "pushr" => PushReg(t) = Single(t[1])
      BY <2>2 DEF PushReg
    <3> QED BY <2>1, <2>3, <3>1 DEF Recognize
  <2>6. Scan(o, t) = More
    <3>1. t[1].op \notin {"pushi", "pushr", "movi", "lea", "load"} => Recognize(o, t) = Single(t[1])
      BY DEF Recognize
    <3>2. t[1].op \in {"movi", "lea", "load"} => Recognize(o, t) = Scan(o, t)
      BY DEF Recognize
    <3> QED BY <2>1, <2>3, <2>4, <2>5, <3>1, <3>2
  <2>7. t[n].op # "pushr" /\ t[n + 1].op = "pushr"
    <3>1. t[Len(t) - 1].op # "pushr" /\ t[Len(t)].op = "pushr"
      BY <2>2, <2>3, <2>6 DEF Scan
    <3> QED BY <1>1, <2>2, <3>1
  <2>8. n = 5
    <3>1. n <= 5 \/ (n = 6 /\ s[n].op = "pushr")
      BY DEF Short, n
    <3>2. s[n] = t[n]
      BY <1>1, <2>2
    <3> QED BY <1>1, <1>3, <2>7, <3>1, <3>2
  <2> QED BY <1>1, <2>7, <2>8 DEF Short, t
<1> QED BY <1>1, <1>2, <1>3

\* A destination is an address, whatever the instructions are.
LEMMA ComputedWord ==
  ASSUME NEW s \in Seq(Instr \cup {NoInstr}), s # <<>>, s[1].op \in {"movi", "lea"}
  PROVE  Computed(s) \in Word
<1> DEFINE n == Len(s)
<1>1. n \in Nat /\ n >= 1 /\ \A k \in 1 .. n : s[k].op # "none" => s[k] \in Instr
  BY NoneRead
<1>2. PICK f : /\ f[1] = Loaded(s[1])
               /\ \A k \in 2 .. n :
                    f[k] = IF s[k].op = "alu" THEN ApplyArith(s[k].f, f[k - 1], s[k].imm) ELSE f[k - 1]
               /\ Computed(s) = f[n]
  BY ComputedFacts
<1> HIDE DEF n
<1> DEFINE T == {l \in Nat : l + 1 <= n => f[l + 1] \in Word}
<1>3. 0 \in T
  <2>1. s[1] \in Instr
    BY <1>1
  <2>2. s[1].imm \in Word
    BY <2>1, InstrFacts
  <2>3. Loaded(s[1]) \in Word
    BY <2>2, LowWord DEF Loaded
  <2> QED BY <1>2, <2>3
<1>4. ASSUME NEW l \in Nat, l \in T PROVE l + 1 \in T
  <2> SUFFICES ASSUME (l + 1) + 1 <= n PROVE f[(l + 1) + 1] \in Word
    OBVIOUS
  <2> DEFINE k == (l + 1) + 1
  <2>1. k \in 2 .. n /\ k \in 1 .. n /\ k - 1 = l + 1 /\ l + 1 <= n
    BY <1>1
  <2> HIDE DEF k
  <2>2. f[k - 1] \in Word
    BY <1>4, <2>1
  <2>3. CASE s[k].op = "alu"
    <3>1. s[k] \in Instr
      BY <1>1, <2>1, <2>3
    <3>2. s[k].f \in Arith /\ s[k].imm \in Word
      BY <2>3, <3>1, InstrFacts
    <3>3. ApplyArith(s[k].f, f[k - 1], s[k].imm) \in Word
      BY <2>2, <3>2, ArithWord
    <3> QED BY <1>2, <2>1, <2>3, <3>3 DEF k
  <2>4. CASE s[k].op # "alu"
    BY <1>2, <2>1, <2>2, <2>4 DEF k
  <2> QED BY <2>3, <2>4
<1> HIDE DEF T
<1>5. n - 1 \in T
  <2>1. n - 1 \in Nat
    BY <1>1
  <2> QED BY <1>3, <1>4, <2>1, AllNats
<1>6. f[(n - 1) + 1] \in Word
  BY <1>1, <1>5 DEF T
<1> QED BY <1>1, <1>2, <1>6

LEMMA TargetWord ==
  ASSUME NEW s \in Seq(Instr \cup {NoInstr}), s # <<>>, NEW p, Named(p, s), p.resolution = "Concrete"
  PROVE  p.target \in Word
<1>1. \A k \in 1 .. Len(s) : s[k].op # "none" => s[k] \in Instr
  BY NoneRead
<1>2. 1 \in 1 .. Len(s)
  OBVIOUS
<1>3. CASE s[1].op \in {"jmp", "jcc", "loop", "call", "pushi"} /\ p.target = s[1].imm
  BY <1>1, <1>2, <1>3, InstrFacts
<1>4. CASE /\ Len(s) = 3 /\ s[1].op = "pushi" /\ s[2].op = "movsp4"
           /\ p.target = Low(s[1].imm) + Half * Low(s[2].imm)
  <2>1. 2 \in 1 .. Len(s)
    BY <1>4
  <2>2. s[1].imm \in Word /\ s[2].imm \in Word
    BY <1>1, <1>2, <1>4, <2>1, InstrFacts
  <2> QED BY <1>4, <2>2, LowWord
<1>5. CASE Idiom(s) /\ s[1].op # "load" /\ p.target = Computed(s)
  <2>1. s[1].op \in {"movi", "lea"}
    BY <1>5 DEF Idiom, Computes
  <2> QED BY <1>5, <2>1, ComputedWord
<1> QED BY <1>3, <1>4, <1>5 DEF Named

LEMMA DestinationWord ==
  ASSUME NEW size, NEW w \in Word, NEW dst \in Destinations(size, w)
  PROVE  dst # Unknown
<1>1. CASE dst = w
  BY <1>1, WordNat
<1>2. ASSUME NEW garbage \in 0 .. Half - 1, dst = Low(w) + Half * garbage
      PROVE  dst # Unknown
  <2> DEFINE l == Low(w)
             h == Half
  <2>1. l \in Nat /\ h \in Nat /\ garbage \in Nat
    <3>1. l \in Nat
      BY LowWord, WordNat
    <3>2. h \in Nat
      BY HalfWords
    <3> HIDE DEF h, l
    <3>3. garbage \in 0 .. h - 1
      BY DEF h
    <3> QED BY <3>1, <3>2, <3>3
  <2> HIDE DEF l, h
  <2>2. h * garbage \in Nat
    BY <2>1
  <2> DEFINE x == h * garbage
  <2> HIDE DEF x
  <2>3. l + x # -1
    BY <2>1, <2>2 DEF x
  <2> QED BY <1>2, <2>3 DEF Unknown, l, h, x
<1> QED BY <1>1, <1>2 DEF Destinations

\* The hops, or the turns of the loop, that are left.
Hops ==
  IF asked = "all" THEN max_transfers - turns
  ELSE IF final = Unknown THEN opt.max_chain_depth + 1 ELSE opt.max_chain_depth - depth

\* An idiom is read in seven steps at most.
StepsLeft == IF pc = "done" THEN 0 ELSE 8 * Hops + (8 - Len(seen))

BoundInv ==
  /\ pc = "fetch" => Short(seen)
  /\ pc = "act" => Len(seen) <= 7
  /\ turns \in Nat /\ depth \in Nat
  /\ pc # "done" => Hops >= 1

LEMMA OptionFacts == opt \in Options => opt.max_chain_depth \in Nat
BY BranchResolveAssumption

LEMMA HopsInt == ChainInv /\ BoundInv => Hops \in Int
<1> SUFFICES ASSUME ChainInv, BoundInv PROVE Hops \in Int
  OBVIOUS
<1>1. opt.max_chain_depth \in Nat /\ turns \in Nat /\ depth \in Nat /\ max_transfers \in Nat
  BY OptionFacts, BranchResolveAssumption DEF ChainInv, TypeOK, BoundInv
<1> QED BY <1>1 DEF Hops

LEMMA BoundInit == Init => BoundInv
<1> SUFFICES ASSUME Init PROVE BoundInv
  OBVIOUS
<1>1. /\ pc = "fetch" /\ seen = <<>> /\ turns = 0 /\ depth = 0 /\ final = Unknown
      /\ opt.max_chain_depth \in Nat /\ max_transfers \in Nat \ {0}
  BY OptionFacts, BranchResolveAssumption DEF Init
<1>2. Hops >= 1
  BY <1>1 DEF Hops
<1>3. Short(seen)
  BY <1>1 DEF Short
<1> QED BY <1>1, <1>2, <1>3 DEF BoundInv

\* What a step makes of the hops and of what was read.
LEMMA FetchBound == ChainInv /\ BoundInv /\ Fetch => BoundInv' /\ StepsLeft' < StepsLeft
<1> SUFFICES ASSUME ChainInv, BoundInv, Fetch PROVE BoundInv' /\ StepsLeft' < StepsLeft
  OBVIOUS
<1> DEFINE Both == Instr \cup {NoInstr}
<1>1. PICK i \in Readable(Plus(at, Length(seen))) :
        /\ seen' = Append(seen, i)
        /\ pc' = IF Recognize(opt, Append(seen, i)) = More THEN "fetch" ELSE "act"
  BY DEF Fetch
<1>2. pc = "fetch" /\ UNCHANGED <<opt, asked, final, depth, turns>>
  BY DEF Fetch
<1>3. seen \in Seq(Both) /\ i \in Both /\ Short(seen) /\ Hops >= 1
  BY <1>2 DEF Readable, ChainInv, TypeOK, BoundInv
<1>4. Hops' = Hops
  BY <1>2 DEF Hops
<1>5. Len(seen') = Len(seen) + 1 /\ Len(seen) \in Nat /\ Len(seen) <= 6
  BY <1>1, <1>3, AppendAt, ShortLength
<1>6. pc' = "fetch" => Short(seen')
  BY <1>1, <1>3, ShortKept
<1>7. pc' \in {"fetch", "act"}
  BY <1>1
<1>8. BoundInv'
  BY <1>2, <1>3, <1>4, <1>5, <1>6, <1>7 DEF BoundInv
<1>9. StepsLeft = 8 * Hops + (8 - Len(seen)) /\ StepsLeft' = 8 * Hops + (8 - Len(seen'))
  BY <1>2, <1>4, <1>7 DEF StepsLeft
<1>10. Hops \in Int
  BY HopsInt
<1>11. StepsLeft' < StepsLeft
  BY <1>5, <1>9, <1>10
<1> QED BY <1>8, <1>11

\* An act ends the question, or begins another turn or hop with one less to come.
LEMMA ActBound == ChainInv /\ BoundInv /\ Act => BoundInv' /\ StepsLeft' < StepsLeft
<1> SUFFICES ASSUME ChainInv, BoundInv, Act PROVE BoundInv' /\ StepsLeft' < StepsLeft
  OBVIOUS
<1>1. /\ pc = "act" /\ Len(seen) \in Nat /\ Len(seen) <= 7 /\ Hops \in Int /\ Hops >= 1
      /\ turns \in Nat /\ depth \in Nat /\ max_transfers \in Nat /\ opt.max_chain_depth \in Nat
      /\ asked \in {"one", "all"}
  BY HopsInt, OptionFacts, BranchResolveAssumption DEF Act, BoundInv, ChainInv, TypeOK
<1>2. StepsLeft = 8 * Hops + (8 - Len(seen))
  BY <1>1 DEF StepsLeft
<1>3. ASSUME pc' = "done", turns' \in Nat, depth' \in Nat
      PROVE  BoundInv' /\ StepsLeft' < StepsLeft
  <2>1. StepsLeft > 0
    BY <1>1, <1>2
  <2> QED BY <1>3, <2>1 DEF BoundInv, StepsLeft
<1>4. ASSUME pc' = "fetch", seen' = <<>>, turns' \in Nat, depth' \in Nat, Hops' = Hops - 1, Hops' >= 1
      PROVE  BoundInv' /\ StepsLeft' < StepsLeft
  <2>1. Len(seen') = 0 /\ Short(seen')
    BY <1>4 DEF Short
  <2>2. StepsLeft' = 8 * Hops' + (8 - Len(seen'))
    BY <1>4 DEF StepsLeft
  <2>3. StepsLeft' < StepsLeft
    BY <1>1, <1>2, <1>4, <2>1, <2>2
  <2> QED BY <1>4, <2>1, <2>3 DEF BoundInv
<1>5. CASE asked = "all"
  <2>1. CASE EndList
    <3>1. pc' = "done" /\ turns' \in Nat /\ depth' \in Nat
      BY <1>1, <2>1 DEF EndList, Stop
    <3> QED BY <1>3, <3>1
  <2>2. CASE ~EndList
    <3>1. /\ turns' = turns + 1 /\ UNCHANGED <<asked, depth>>
          /\ \/ Stop
             \/ turns' < max_transfers /\ pc' = "fetch" /\ seen' = <<>>
      BY <1>1, <1>5, <2>2 DEF Act, List, ListTo, Again
    <3>2. turns' \in Nat /\ depth' \in Nat /\ Hops = max_transfers - turns /\ Hops' = max_transfers - turns'
      BY <1>1, <1>5, <3>1 DEF Hops
    <3>3. CASE Stop
      <4>1. pc' = "done"
        BY <3>3 DEF Stop
      <4> QED BY <1>3, <3>2, <4>1
    <3>4. CASE turns' < max_transfers /\ pc' = "fetch" /\ seen' = <<>>
      <4>1. Hops' = Hops - 1 /\ Hops' >= 1
        BY <1>1, <3>1, <3>2, <3>4
      <4> QED BY <1>4, <3>2, <3>4, <4>1
    <3> QED BY <3>1, <3>3, <3>4
  <2> QED BY <2>1, <2>2
<1>6. CASE asked = "one"
  <2> DEFINE p == Recognize(opt, seen)
  <2>1. UNCHANGED <<opt, asked, turns>>
        /\ \/ ResolveConcrete(p)
           \/ ResolveMemory(p)
           \/ Unresolved(p)
    BY <1>6 DEF Act
  <2>4. Named(p, seen) /\ seen \in Seq(Instr \cup {NoInstr}) /\ seen # <<>>
    BY <1>1 DEF ChainInv, TypeOK, Reading, Recognized
  <2> HIDE DEF p
  <2>5. Quit \/ \E dst : Arrive(p, dst) /\ dst # Unknown
    <3>1. CASE ResolveConcrete(p)
      <4>1. p.target # Unknown
        BY <2>4, <3>1, TargetWord, WordNat DEF ResolveConcrete, HasTarget
      <4> QED BY <3>1, <4>1 DEF ResolveConcrete, Hop
    <3>2. CASE ResolveMemory(p)
      <4>1. PICK w \in Contents(p.slot) :
              IF w = Unknown THEN Quit ELSE \E dst \in Destinations(p.size, w) : Hop(p, dst)
        BY <3>2 DEF ResolveMemory
      <4>2. CASE w = Unknown
        BY <4>1, <4>2
      <4>3. CASE w # Unknown
        <5>1. w \in Word
          BY <4>3, BranchResolveAssumption DEF Contents, Value, ChainInv, TypeOK
        <5>2. PICK dst \in Destinations(p.size, w) : Hop(p, dst)
          BY <4>1, <4>3
        <5>3. dst # Unknown
          BY <5>1, <5>2, DestinationWord
        <5> QED BY <5>2, <5>3 DEF Hop
      <4> QED BY <4>2, <4>3
    <3>3. CASE Unresolved(p)
      BY <3>3 DEF Unresolved
    <3> QED BY <2>1, <3>1, <3>2, <3>3
  <2>2. CASE Quit
    <3>1. pc' = "done" /\ turns' \in Nat /\ depth' \in Nat
      BY <1>1, <2>1, <2>2 DEF Quit, Stop
    <3> QED BY <1>3, <3>1
  <2>3. CASE \E dst : Arrive(p, dst) /\ dst # Unknown
    <3>1. PICK dst : Arrive(p, dst) /\ dst # Unknown
      BY <2>3
    <3>2. /\ final' = dst /\ depth' = IF final = Unknown THEN 0 ELSE depth + 1
          /\ \/ Stop
             \/ depth' < opt.max_chain_depth /\ pc' = "fetch" /\ seen' = <<>>
      BY <3>1 DEF Arrive, Again
    <3>3. turns' \in Nat /\ depth' \in Nat
      BY <1>1, <2>1, <3>2
    <3>4. CASE Stop
      <4>1. pc' = "done"
        BY <3>4 DEF Stop
      <4> QED BY <1>3, <3>3, <4>1
    <3>5. CASE depth' < opt.max_chain_depth /\ pc' = "fetch" /\ seen' = <<>> /\ final' # Unknown
      <4>1. Hops' = opt.max_chain_depth - depth'
        BY <1>6, <2>1, <3>5 DEF Hops
      <4>2. Hops = IF final = Unknown THEN opt.max_chain_depth + 1 ELSE opt.max_chain_depth - depth
        BY <1>6 DEF Hops
      <4>3. Hops' = Hops - 1 /\ Hops' >= 1
        BY <1>1, <3>2, <3>3, <3>5, <4>1, <4>2
      <4> QED BY <1>4, <3>3, <3>5, <4>3
    <3> QED BY <3>1, <3>2, <3>4, <3>5
  <2> QED BY <2>2, <2>3, <2>5
<1> QED BY <1>1, <1>5, <1>6

\* Nothing is done once a question is answered.
LEMMA BoundStep == ChainInv /\ BoundInv /\ [Next]_vars => BoundInv' /\ [StepsLeft' < StepsLeft]_vars
<1> SUFFICES ASSUME ChainInv, BoundInv, [Next]_vars PROVE BoundInv' /\ [StepsLeft' < StepsLeft]_vars
  OBVIOUS
<1>1. CASE Next
  BY <1>1, FetchBound, ActBound DEF Next
<1>2. CASE UNCHANGED vars
  BY <1>2 DEF vars, BoundInv, Hops
<1> QED BY <1>1, <1>2

LEMMA StepsNat == ChainInv /\ BoundInv => StepsLeft \in Nat
<1> SUFFICES ASSUME ChainInv, BoundInv PROVE StepsLeft \in Nat
  OBVIOUS
<1>1. Hops \in Int /\ (pc # "done" => Hops >= 1)
  BY HopsInt DEF BoundInv
<1>2. pc # "done" => Len(seen) \in Nat /\ Len(seen) <= 7
  <2>1. pc \in {"fetch", "act", "done"} /\ seen \in Seq(Instr \cup {NoInstr}) /\ Len(seen) \in Nat
    BY DEF ChainInv, TypeOK
  <2>2. pc = "fetch" => Len(seen) <= 6
    BY <2>1, ShortLength DEF BoundInv
  <2>3. pc = "act" => Len(seen) <= 7
    BY DEF BoundInv
  <2> QED BY <2>1, <2>2, <2>3
<1> QED BY <1>1, <1>2 DEF StepsLeft

(* Every question is answered, however jumps forward to each other: what is left to do
   is a number, bounded by the options and max_transfers, and every step makes it
   smaller. *)
THEOREM ResolutionIsBounded == Spec => [](StepsLeft \in Nat) /\ [][StepsLeft' < StepsLeft]_vars
<1>1. ChainInv /\ BoundInv => StepsLeft \in Nat
  BY StepsNat
<1>2. ChainInv /\ BoundInv /\ [Next]_vars => BoundInv' /\ [StepsLeft' < StepsLeft]_vars
  BY BoundStep
<1> QED BY <1>1, <1>2, BoundInit, ChainInvariant, PTL DEF Spec
=============================================================================

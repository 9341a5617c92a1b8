--------------------------- MODULE EmuFaultsProofs ---------------------------
(***************************************************************************)
(* Proofs about EmuFaults, for any sizes of memory, word and address       *)
(* space, any instructions and any bound on RCX.                           *)
(*                                                                         *)
(* Inv: every access counted as done was in bounds when it was checked,    *)
(* and still is when the effect takes place, since registers do not move   *)
(* in between and memory is never taken away.                              *)
(*                                                                         *)
(* MoveInv: at the instruction, a string instruction has made some         *)
(* iterations of the reference and none of them ended it, and any other    *)
(* has done nothing; behind it, it has done all that was due.              *)
(***************************************************************************)
EXTENDS EmuFaults, WellFoundedInduction, TLAPS

\* What is needed of the types: registers are a record, its pointers are addresses.
IsCpu(c) ==
  /\ c = [rax |-> c.rax, rcx |-> c.rcx, rsi |-> c.rsi, rdi |-> c.rdi, rsp |-> c.rsp,
          zf |-> c.zf, rip |-> c.rip]
  /\ c.rsi \in Address /\ c.rdi \in Address /\ c.rsp \in Address

Shape ==
  /\ instr \in Instr
  /\ IsCpu(cpu)
  /\ mem_size \in 0 .. MaxMem
  /\ accs \in Seq({"done", "dropped"})

DoneInBounds ==
  \A k \in 1 .. Len(accs) : accs[k] = "done" => mem_check(Accesses[k])

\* EMU_CHK lets an instruction go on only with accesses that can be made.
CheckedDone == Checked => \A k \in 1 .. Len(accs) : accs[k] = "done"

IdleIsClean == step = "idle" => accs = <<>>

AccsFit == Len(accs) <= Len(Accesses)

Inv == Shape /\ DoneInBounds /\ CheckedDone /\ IdleIsClean /\ AccsFit

\* The bytes that are not there keep their values in a step.
Untouched == \A a \in Address : a >= mem_size => mem'[a] = mem[a]

-----------------------------------------------------------------------------
(* Addresses *)

LEMMA PlusType ==
  ASSUME NEW a \in Address, NEW n \in 0 .. Space
  PROVE  Plus(a, n) \in Address
BY EmuAssumption DEF Plus, Address

LEMMA MinusType ==
  ASSUME NEW a \in Address
  PROVE  Minus(a, Size) \in Address
<1>1. Space - Size \in 0 .. Space
  BY EmuAssumption
<1> QED
  BY <1>1, PlusType DEF Minus

LEMMA StrideType ==
  ASSUME NEW a \in Address
  PROVE  Stride(a) \in Address
<1>1. Size \in 0 .. Space
  BY EmuAssumption
<1> QED
  BY <1>1, PlusType, MinusType DEF Stride

LEMMA AccessTypes ==
  ASSUME Shape, NEW k \in 1 .. Len(Accesses)
  PROVE  Accesses[k] \in Address
<1>1. Minus(cpu.rsp, Size) \in Address
  BY MinusType DEF Shape, IsCpu
<1> HIDE DEF Address
<1> QED
  BY <1>1 DEF Shape, IsCpu, Accesses

LEMMA AccessesLength == Len(Accesses) \in {1, 2}
BY DEF Accesses

\* A word stored where the check passed lies below mem_size, byte by byte.
LEMMA PutInBounds ==
  ASSUME Shape, NEW a \in Address, mem_check(a), NEW w, NEW b \in Address, b >= mem_size
  PROVE  Put(mem, a, w)[b] = mem[b]
<1>1. a + Size < Space /\ a + Size <= mem_size
  BY EmuAssumption DEF mem_check, Plus, Address, Shape
<1>2. \A j \in 0 .. Size - 1 : Plus(a, j) < mem_size
  BY <1>1, EmuAssumption DEF Plus, Address, Shape
<1>3. ~ \E j \in 0 .. Size - 1 : b = Plus(a, j)
  <2>1. SUFFICES ASSUME NEW j \in 0 .. Size - 1, b = Plus(a, j) PROVE FALSE
    OBVIOUS
  <2>2. Plus(a, j) < mem_size
    BY <1>2
  <2> QED
    BY <2>1, <2>2 DEF Address, Shape
<1> QED
  BY <1>3 DEF Put

\* More memory does not put an access out of bounds.
LEMMA CheckMonotone ==
  ASSUME Shape, NEW n \in Nat, n >= mem_size, NEW a \in Address, mem_check(a)
  PROVE  Plus(a, Size) <= n /\ Plus(a, Size) >= a
BY EmuAssumption DEF mem_check, Plus, Address, Shape

-----------------------------------------------------------------------------
(* Steps *)

\* Between two accesses nothing moves that an address is computed from.
LEMMA InBoundsKeeps == ASSUME Inv, InBounds PROVE Inv' /\ Untouched
<1>1. /\ accs' = Append(accs, "done") /\ mem_check(Wanted)
      /\ UNCHANGED <<instr, cpu, mem, mem_size, step>>
      /\ step = "busy" /\ Len(accs) < Len(Accesses)
  BY DEF InBounds, Working, Wants
<1>2. Shape'
  BY <1>1 DEF Inv, Shape
<1>3. /\ Len(accs') = Len(accs) + 1
      /\ \A k \in 1 .. Len(accs) : accs'[k] = accs[k]
      /\ accs'[Len(accs) + 1] = "done"
  BY <1>1 DEF Inv, Shape
<1>4. Accesses' = Accesses
  BY <1>1 DEF Accesses
<1>5. DoneInBounds'
  <2>1. \A k \in 1 .. Len(accs') : k \in 1 .. Len(accs) \/ k = Len(accs) + 1
    BY <1>3 DEF Inv, Shape
  <2>2. \A k \in 1 .. Len(accs') : accs'[k] = "done" => mem_check(Accesses[k])
    BY <1>1, <1>3, <2>1 DEF Inv, DoneInBounds, Wanted
  <2> QED
    BY <1>1, <1>4, <2>2 DEF DoneInBounds, mem_check
<1>6. CheckedDone'
  BY <1>1, <1>3 DEF Inv, Shape, CheckedDone, Checked
<1>7. AccsFit'
  BY <1>1, <1>3, <1>4, AccessesLength DEF AccsFit, Inv, Shape
<1> QED
  BY <1>1, <1>2, <1>5, <1>6, <1>7 DEF Inv, IdleIsClean, Untouched

\* An access that was given up is not done; where EMU_CHK would let it pass there is none.
LEMMA DroppedKeeps ==
  ASSUME Inv, Faults, ~Checked, accs' = Append(accs, "dropped"),
         UNCHANGED <<instr, cpu, mem, mem_size, step>>
  PROVE  Inv' /\ Untouched
<1>1. Shape'
  BY DEF Inv, Shape
<1>2. /\ Len(accs') = Len(accs) + 1
      /\ \A k \in 1 .. Len(accs) : accs'[k] = accs[k]
      /\ accs'[Len(accs) + 1] = "dropped"
  BY DEF Inv, Shape
<1>3. Accesses' = Accesses
  BY DEF Accesses
<1>4. DoneInBounds'
  <2>1. \A k \in 1 .. Len(accs') : k \in 1 .. Len(accs) \/ k = Len(accs) + 1
    BY <1>2 DEF Inv, Shape
  <2>2. \A k \in 1 .. Len(accs') : accs'[k] = "done" => mem_check(Accesses[k])
    BY <1>2, <2>1 DEF Inv, DoneInBounds
  <2> QED
    BY <1>3, <2>2 DEF DoneInBounds, mem_check
<1>5. ~Checked' /\ step' = "busy" /\ Len(accs) < Len(Accesses)
  BY DEF Checked, Faults, Working, Wants
<1>6. AccsFit'
  BY <1>2, <1>3, <1>5, AccessesLength DEF AccsFit, Inv, Shape
<1> QED
  BY <1>1, <1>4, <1>5, <1>6 DEF Inv, CheckedDone, IdleIsClean, Untouched

\* A step that ends, or starts a new iteration, leaves no access behind.
LEMMA CleanKeeps ==
  ASSUME Inv, Shape', accs' = <<>>
  PROVE  Inv'
<1>1. Len(accs') = 0 /\ Len(Accesses') \in {1, 2}
  BY DEF Accesses
<1> QED
  BY <1>1 DEF Inv, DoneInBounds, CheckedDone, IdleIsClean, AccsFit

LEMMA AdvanceCpu ==
  ASSUME NEW c, IsCpu(c)
  PROVE  IsCpu(Advance(c))
<1>1. Advance(c) = [rax |-> c.rax, rcx |-> c.rcx, rsi |-> c.rsi, rdi |-> c.rdi, rsp |-> c.rsp,
                    zf |-> c.zf, rip |-> IF c.rip = cpu.rip THEN Plus(c.rip, 1) ELSE c.rip]
  BY DEF Advance, IsCpu
<1> QED
  BY <1>1 DEF IsCpu

LEMMA EmptyAccs == <<>> \in Seq({"done", "dropped"})
OBVIOUS

\* Registers stay registers when one of them is set.
LEMMA SetData ==
  ASSUME NEW c, IsCpu(c), NEW v, NEW d,
         d = [c EXCEPT !.rax = v] \/ d = [c EXCEPT !.rcx = v] \/ d = [c EXCEPT !.zf = v]
  PROVE  IsCpu(d)
BY DEF IsCpu

LEMMA SetPointer ==
  ASSUME NEW c, IsCpu(c), NEW v \in Address, NEW d,
         d = [c EXCEPT !.rsi = v] \/ d = [c EXCEPT !.rdi = v]
  PROVE  IsCpu(d)
<1> HIDE DEF Address
<1> QED
  BY DEF IsCpu

LEMMA IteratedCpu ==
  ASSUME NEW c, IsCpu(c), NEW rax, NEW rsi \in Address, NEW rdi \in Address, NEW rcx, NEW zf
  PROVE  IsCpu([c EXCEPT !.rax = rax, !.rsi = rsi, !.rdi = rdi, !.rcx = rcx, !.zf = zf])
<1> HIDE DEF Address
<1> DEFINE c1 == [c EXCEPT !.rax = rax]
           c2 == [c1 EXCEPT !.rsi = rsi]
           c3 == [c2 EXCEPT !.rdi = rdi]
           c4 == [c3 EXCEPT !.rcx = rcx]
           c5 == [c4 EXCEPT !.zf = zf]
<1>1. IsCpu(c1)
  BY SetData
<1> HIDE DEF c1
<1>2. IsCpu(c2)
  BY <1>1, SetPointer
<1> HIDE DEF c2
<1>3. IsCpu(c3)
  BY <1>2, SetPointer
<1> HIDE DEF c3
<1>4. IsCpu(c4)
  BY <1>3, SetData
<1> HIDE DEF c4
<1>5. IsCpu(c5)
  BY <1>4, SetData
<1> QED BY <1>5 DEF c1, c2, c3, c4

\* A string instruction stores only through RDI, once the check of that access passed.
LEMMA IterateKeeps == ASSUME Inv, Iterate PROVE Inv' /\ Untouched
<1> DEFINE done(zf, rcx) ==
             [cpu EXCEPT !.rax = IF instr.op = "LODS" THEN Get(mem, cpu.rsi) ELSE @,
                         !.rsi = IF MovesSource THEN Stride(@) ELSE @,
                         !.rdi = IF MovesDest THEN Stride(@) ELSE @,
                         !.rcx = rcx, !.zf = zf]
<1>1. PICK zf, rcx : /\ cpu' = done(zf, rcx) \/ cpu' = Advance(done(zf, rcx))
                     /\ accs' = <<>>
  BY DEF Iterate, Returns
<1>2. IsCpu(done(zf, rcx))
  <2> DEFINE rax == IF instr.op = "LODS" THEN Get(mem, cpu.rsi) ELSE cpu.rax
             rsi == IF MovesSource THEN Stride(cpu.rsi) ELSE cpu.rsi
             rdi == IF MovesDest THEN Stride(cpu.rdi) ELSE cpu.rdi
  <2>1. IsCpu(cpu) /\ rsi \in Address /\ rdi \in Address
    BY StrideType DEF Inv, Shape, IsCpu
  <2> HIDE DEF Address, rax, rsi, rdi
  <2>2. IsCpu([cpu EXCEPT !.rax = rax, !.rsi = rsi, !.rdi = rdi, !.rcx = rcx, !.zf = zf])
    BY <2>1, IteratedCpu
  <2> QED BY <2>2 DEF rax, rsi, rdi
<1> HIDE DEF done
<1>3. IsCpu(cpu')
  BY <1>1, <1>2, AdvanceCpu
<1>4. UNCHANGED <<instr, mem_size>> /\ instr.op \in Strings /\ Len(accs) = Len(Accesses)
      /\ mem' = IF instr.op = "STOS" THEN Put(mem, cpu.rdi, cpu.rax)
                ELSE IF instr.op = "MOVS" THEN Put(mem, cpu.rdi, Get(mem, cpu.rsi)) ELSE mem
  BY DEF Iterate, Ready
<1>5. Inv'
  BY <1>1, <1>3, <1>4, CleanKeeps, EmptyAccs DEF Inv, Shape
<1>6. instr.op \in {"STOS", "MOVS"} => mem_check(cpu.rdi)
  <2>1. ASSUME instr.op = "STOS" PROVE mem_check(cpu.rdi)
    <3>1. Accesses = <<cpu.rdi>>
      BY <2>1 DEF Accesses
    <3>2. 1 \in 1 .. Len(accs) /\ Accesses[1] = cpu.rdi
      BY <1>4, <3>1
    <3> QED
      BY <1>4, <3>2 DEF Inv, DoneInBounds, CheckedDone, Checked
  <2>2. ASSUME instr.op = "MOVS" PROVE mem_check(cpu.rdi)
    <3>1. Accesses = <<cpu.rsi, cpu.rdi>>
      BY <2>2 DEF Accesses
    <3>2. 2 \in 1 .. Len(accs) /\ Accesses[2] = cpu.rdi
      BY <1>4, <3>1
    <3> QED
      BY <1>4, <3>2 DEF Inv, DoneInBounds, CheckedDone, Checked
  <2> QED
    BY <2>1, <2>2
<1>7. Untouched
  <2>1. SUFFICES ASSUME NEW a \in Address, a >= mem_size PROVE mem'[a] = mem[a]
    BY DEF Untouched
  <2>2. cpu.rdi \in Address
    BY DEF Inv, Shape, IsCpu
  <2>3. instr.op \in {"STOS", "MOVS"} => \A w : Put(mem, cpu.rdi, w)[a] = mem[a]
    BY <1>6, <2>1, <2>2, PutInBounds DEF Inv
  <2> QED
    BY <1>4, <2>3
<1> QED
  BY <1>5, <1>7

\* The others store through mem_write, which does without an access that was dropped.
LEMMA MemWriteInBounds ==
  ASSUME Inv, NEW k \in 1 .. Len(accs), Len(accs) = Len(Accesses), NEW w,
         NEW a \in Address, a >= mem_size
  PROVE  mem_write(k, w)[a] = mem[a]
<1>1. Accesses[k] \in Address
  BY AccessTypes DEF Inv
<1>2. accs[k] = "done" => Put(mem, Accesses[k], w)[a] = mem[a]
  BY <1>1, PutInBounds DEF Inv, DoneInBounds
<1> QED
  BY <1>2 DEF mem_write

LEMMA ExecuteKeeps == ASSUME Inv, Execute PROVE Inv' /\ Untouched
<1>1. /\ UNCHANGED <<instr, mem_size>> /\ accs' = <<>> /\ Len(accs) = Len(Accesses)
      /\ instr.op \in Plain
  BY DEF Execute, Returns, Ready, Inv, Shape, Instr
<1>2. IsCpu(cpu) /\ Pushed \in Address /\ Popped \in Address
  <2>1. IsCpu(cpu) /\ Size \in 0 .. Space
    BY EmuAssumption DEF Inv, Shape
  <2> QED
    BY <2>1, MinusType, PlusType DEF IsCpu, Pushed, Popped
<1>3. PICK c : /\ cpu' = Advance(c)
               /\ \/ c = cpu
                  \/ \E v : c = [cpu EXCEPT !.rax = v]
                  \/ c = [cpu EXCEPT !.rsp = Pushed]
                  \/ \E v : c = [cpu EXCEPT !.rsp = Popped, !.rax = v]
                  \/ \E v : c = [cpu EXCEPT !.rsp = Pushed, !.rip = v]
                  \/ \E v : c = [cpu EXCEPT !.rsp = Popped, !.rip = v]
  <2> DEFINE c == CASE instr.op = "LOAD" -> [cpu EXCEPT !.rax = mem_read(1)]
                    [] instr.op = "XCHG" -> [cpu EXCEPT !.rax = mem_read(1)]
                    [] instr.op = "PUSH" -> [cpu EXCEPT !.rsp = Pushed]
                    [] instr.op = "POP" -> [cpu EXCEPT !.rsp = Popped, !.rax = mem_read(1)]
                    [] instr.op = "CALL" -> [cpu EXCEPT !.rsp = Pushed, !.rip = instr.target]
                    [] instr.op = "RETN" -> [cpu EXCEPT !.rsp = Popped, !.rip = Number[mem_read(1)]]
                    [] OTHER -> cpu
  <2>1. cpu' = Advance(c)
    BY DEF Execute
  <2>2. \/ c = cpu
        \/ \E v : c = [cpu EXCEPT !.rax = v]
        \/ c = [cpu EXCEPT !.rsp = Pushed]
        \/ \E v : c = [cpu EXCEPT !.rsp = Popped, !.rax = v]
        \/ \E v : c = [cpu EXCEPT !.rsp = Pushed, !.rip = v]
        \/ \E v : c = [cpu EXCEPT !.rsp = Popped, !.rip = v]
    OBVIOUS
  <2> HIDE DEF c
  <2> QED
    BY <2>1, <2>2
<1>4. IsCpu(c)
  <2> HIDE DEF Address
  <2> QED
    BY <1>2, <1>3 DEF IsCpu
<1>5. Inv'
  BY <1>1, <1>3, <1>4, AdvanceCpu, CleanKeeps, EmptyAccs DEF Inv, Shape
<1>6. Untouched
  <2>1. SUFFICES ASSUME NEW a \in Address, a >= mem_size PROVE mem'[a] = mem[a]
    BY DEF Untouched
  <2>2. CASE instr.op \in {"STORE", "PUSH", "CALL", "PUSHF"}
    <3>1. 1 \in 1 .. Len(accs)
      BY <1>1, <2>2 DEF Accesses
    <3>2. \A w : mem_write(1, w)[a] = mem[a]
      BY <1>1, <2>1, <3>1, MemWriteInBounds
    <3>3. \E w : mem' = mem_write(1, w)
      BY <2>2 DEF Execute
    <3> QED
      BY <3>2, <3>3
  <2>3. CASE instr.op = "XCHG"
    <3>1. 2 \in 1 .. Len(accs)
      BY <1>1, <2>3 DEF Accesses
    <3>2. \A w : mem_write(2, w)[a] = mem[a]
      BY <1>1, <2>1, <3>1, MemWriteInBounds
    <3>3. \E w : mem' = mem_write(2, w)
      BY <2>3 DEF Execute
    <3> QED
      BY <3>2, <3>3
  <2>4. CASE instr.op \in {"LOAD", "POP", "RETN"}
    BY <2>4 DEF Execute
  <2> QED
    BY <1>1, <2>2, <2>3, <2>4 DEF Plain
<1> QED
  BY <1>5, <1>6

\* Memory that is provided is added at the end.
LEMMA GrowKeeps ==
  ASSUME Inv, mem_size' \in mem_size + 1 .. MaxMem, UNCHANGED <<instr, cpu, mem, step, accs>>
  PROVE  Inv' /\ Untouched
<1>1. Accesses' = Accesses /\ Checked' = Checked
  BY DEF Accesses, Checked
<1>2. Shape' /\ mem_size' \in Nat /\ mem_size' >= mem_size
  BY EmuAssumption DEF Inv, Shape, IsCpu
<1>3. DoneInBounds'
  <2>1. SUFFICES ASSUME NEW k \in 1 .. Len(accs), accs[k] = "done"
                 PROVE  Plus(Accesses[k], Size) <= mem_size' /\ Plus(Accesses[k], Size) >= Accesses[k]
    BY <1>1 DEF DoneInBounds, mem_check
  <2>2. mem_check(Accesses[k])
    BY <2>1 DEF Inv, DoneInBounds
  <2>3. Accesses[k] \in Address
    <3>1. k \in 1 .. Len(Accesses)
      BY AccessesLength DEF Inv, AccsFit, Shape
    <3> QED
      BY <3>1, AccessTypes DEF Inv
  <2> QED
    BY <1>2, <2>2, <2>3, CheckMonotone DEF Inv
<1> QED
  BY <1>1, <1>2, <1>3 DEF Inv, CheckedDone, IdleIsClean, AccsFit, Untouched

LEMMA FrameKeeps ==
  ASSUME Inv, UNCHANGED <<instr, cpu, mem, mem_size, step, accs>>
  PROVE  Inv' /\ Untouched
<1>1. Accesses' = Accesses
  BY DEF Accesses
<1> QED
  BY <1>1 DEF Inv, Shape, DoneInBounds, CheckedDone, Checked, IdleIsClean, AccsFit, Untouched,
    mem_check

LEMMA BeginKeeps == ASSUME Inv, Begin PROVE Inv' /\ Untouched
<1>1. /\ UNCHANGED <<instr, mem, mem_size, accs>> /\ accs = <<>>
      /\ cpu' = IF instr.op = "PUSHF" THEN [cpu EXCEPT !.rsp = Minus(@, Size)] ELSE cpu
  BY DEF Begin, Inv, IdleIsClean
<1>2. IsCpu(cpu) /\ Minus(cpu.rsp, Size) \in Address
  BY MinusType DEF Inv, Shape, IsCpu
<1>3. IsCpu(cpu')
  <2> HIDE DEF Address
  <2> QED
    BY <1>1, <1>2 DEF IsCpu
<1>4. Shape'
  BY <1>1, <1>3 DEF Inv, Shape
<1> QED
  BY <1>1, <1>4, CleanKeeps DEF Untouched

LEMMA InvNext == ASSUME Inv, Next PROVE Inv' /\ Untouched
<1>1. CASE FetchFault
  <2>1. Shape' /\ accs' = <<>> /\ mem' = mem
    BY <1>1, EmptyAccs DEF FetchFault, Returns, Inv, Shape
  <2> QED
    BY <2>1, CleanKeeps DEF Untouched
<1>2. CASE Begin
  BY <1>2, BeginKeeps
<1>3. CASE NothingToDo
  <2>1. IsCpu(cpu') /\ accs' = <<>> /\ UNCHANGED <<instr, mem, mem_size>>
    BY <1>3, AdvanceCpu DEF NothingToDo, Returns, Inv, Shape
  <2>2. Shape'
    BY <2>1, EmptyAccs DEF Inv, Shape
  <2> QED
    BY <2>1, <2>2, CleanKeeps DEF Untouched
<1>4. CASE InBounds
  BY <1>4, InBoundsKeeps
<1>5. CASE Abort
  <2>1. CASE Checked
    <3>1. Shape' /\ accs' = <<>> /\ mem' = mem
      BY <1>5, <2>1, EmptyAccs DEF Abort, Returns, Inv, Shape
    <3> QED
      BY <3>1, CleanKeeps DEF Untouched
  <2>2. CASE ~Checked
    BY <1>5, <2>2, DroppedKeeps DEF Abort
  <2> QED
    BY <2>1, <2>2
<1>6. CASE Skip
  <2>1. CASE Checked
    <3>1. IsCpu(cpu') /\ accs' = <<>> /\ UNCHANGED <<instr, mem, mem_size>>
      BY <1>6, <2>1, AdvanceCpu DEF Skip, Returns, Inv, Shape
    <3>2. Shape'
      BY <3>1, EmptyAccs DEF Inv, Shape
    <3> QED
      BY <3>1, <3>2, CleanKeeps DEF Untouched
  <2>2. CASE ~Checked
    BY <1>6, <2>2, DroppedKeeps DEF Skip
  <2> QED
    BY <2>1, <2>2
<1>7. CASE Retry
  BY <1>7, GrowKeeps DEF Retry
<1>8. CASE Iterate
  BY <1>8, IterateKeeps
<1>9. CASE Execute
  BY <1>9, ExecuteKeeps
<1>10. CASE Provide
  BY <1>10, GrowKeeps DEF Provide
<1>11. CASE set_mem_fault_handler
  BY <1>11, FrameKeeps DEF set_mem_fault_handler, state
<1> QED
  BY <1>1, <1>2, <1>3, <1>4, <1>5, <1>6, <1>7, <1>8, <1>9, <1>10, <1>11 DEF Next

LEMMA InvInit == Init => Inv
<1>1. SUFFICES ASSUME Init PROVE Inv
  OBVIOUS
<1>2. start.cpu \in Cpu /\ instr \in Instr
  BY <1>1, EmuAssumption DEF Init
<1>3. IsCpu(cpu)
  <2> HIDE DEF Address, Word
  <2> QED
    BY <1>1, <1>2 DEF Init, Cpu, IsCpu
<1>4. Shape /\ accs = <<>>
  BY <1>1, <1>2, <1>3, EmptyAccs DEF Init, Shape
<1> QED
  BY <1>4, AccessesLength DEF Inv, DoneInBounds, CheckedDone, IdleIsClean, AccsFit

LEMMA Invariance == Spec => []Inv
<1>1. Inv /\ UNCHANGED vars => Inv'
  BY FrameKeeps DEF vars, state
<1> QED
  BY <1>1, InvInit, InvNext, PTL DEF Spec

\* Whatever faults, however they are handled: no step changes a byte beyond mem_size.
THEOREM NoWildWrite == Spec => UnmappedUntouched
<1>1. Inv /\ [Next]_vars => [\A a \in Address : a >= mem_size => mem'[a] = mem[a]]_vars
  BY InvNext DEF Untouched
<1> QED
  BY <1>1, Invariance, PTL DEF Spec, UnmappedUntouched

-----------------------------------------------------------------------------
(* Strings of accesses *)

LEMMA LeastNat ==
  ASSUME NEW T \in SUBSET Nat, T # {}
  PROVE  \E m \in T : \A n \in T : m <= n
<1> DEFINE R == {p \in Nat \X Nat : p[1] < p[2]}
<1>1. R = OpToRel(<, Nat)
  BY DEF OpToRel
<1>2. IsWellFoundedOn(R, Nat)
  BY <1>1, NatLessThanWellFounded
<1> HIDE DEF R
<1>3. \E m \in T : \A n \in T : ~(<<n, m>> \in R)
  BY <1>2, WFMin
<1>4. PICK m \in T : \A n \in T : ~(n < m)
  BY <1>3 DEF R
<1> QED BY <1>4

LEMMA AllNats ==
  ASSUME NEW T, 0 \in T, \A n \in Nat : n \in T => n + 1 \in T
  PROVE  \A n \in Nat : n \in T
<1> SUFFICES ASSUME Nat \ T # {} PROVE FALSE
  OBVIOUS
<1>1. PICK m \in Nat \ T : \A n \in Nat \ T : m <= n
  <2> DEFINE U == Nat \ T
  <2>1. U \in SUBSET Nat /\ U # {}
    OBVIOUS
  <2> HIDE DEF U
  <2>2. \E m \in U : \A n \in U : m <= n
    BY <2>1, LeastNat
  <2> QED BY <2>2 DEF U
<1>2. m # 0 /\ m - 1 \in Nat /\ ~(m <= m - 1)
  BY <1>1
<1>3. m - 1 \in T
  BY <1>1, <1>2
<1>4. (m - 1) + 1 = m
  BY <1>1
<1> QED BY <1>1, <1>2, <1>3, <1>4

\* An address D further on, where the sum of what came before has wrapped or not.
LEMMA WrapOnce ==
  ASSUME NEW S \in Nat \ {0}, NEW x \in Nat, NEW D \in 0 .. S - 1
  PROVE  /\ x % S \in 0 .. S - 1
         /\ (x + D) % S = IF (x % S) + D >= S THEN (x % S) + D - S ELSE (x % S) + D
<1> DEFINE q == x \div S
           r == x % S
           y == x + D
           u == y \div S
           t == y % S
           e == u - q
<1>1. /\ q \in Int /\ r \in 0 .. S - 1 /\ x = S * q + r
      /\ u \in Int /\ t \in 0 .. S - 1 /\ y = S * u + t
  OBVIOUS
<1> HIDE DEF q, r, u, t
<1>2. S * u = S * q + (r + D - t)
  BY <1>1
<1>3. r + D - t \in Int /\ r + D - t < S + S /\ r + D - t > 0 - S
  BY <1>1
<1>4. e \in Int /\ S * u = S * q + S * e
  BY <1>1
<1>5. S * e = r + D - t
  BY <1>1, <1>2, <1>4
<1> HIDE DEF e
<1>6. e \in {0, 1}
  <2>1. CASE e >= 2
    <3>1. S * e >= S * 2
      BY <1>4, <2>1
    <3> QED BY <1>3, <1>5, <3>1
  <2>2. CASE e <= -1
    <3>1. S * e <= S * (-1)
      BY <1>4, <2>2
    <3> QED BY <1>3, <1>5, <3>1
  <2> QED BY <1>4, <2>1, <2>2
<1>7. t = r + D \/ t = r + D - S
  BY <1>1, <1>5, <1>6
<1>8. t = IF r + D >= S THEN r + D - S ELSE r + D
  BY <1>1, <1>7
<1> QED BY <1>1, <1>8 DEF r, t

\* From one element of a string to the next.
LEMMA AlongFacts ==
  ASSUME NEW i, i.df \in BOOLEAN, NEW a \in Address, NEW k \in Nat
  PROVE  /\ Along(i, a, 0) = a
         /\ Along(i, a, k) \in Address
         /\ Along(i, a, k + 1) = IF i.df THEN Minus(Along(i, a, k), Size)
                                 ELSE Plus(Along(i, a, k), Size)
<1> DEFINE D == IF i.df THEN Space - Size ELSE Size
           x == a + k * D
           r == x % Space
<1>1. D \in 0 .. Space - 1 /\ Space \in Nat \ {0} /\ a \in Nat /\ a < Space
  BY EmuAssumption DEF Address
<1>2. Along(i, a, k) = r /\ Along(i, a, 0) = (a + 0 * D) % Space
      /\ Along(i, a, k + 1) = (a + (k + 1) * D) % Space
  BY DEF Along
<1> HIDE DEF D
<1>3. a + 0 * D = a /\ a % Space = a
  BY <1>1
<1>4. x \in Nat
  <2>1. k * D \in Nat
    BY <1>1
  <2> HIDE DEF D
  <2> QED BY <1>1, <2>1
<1>5. a + (k + 1) * D = x + D
  BY <1>1
<1> HIDE DEF x
<1>6. r \in 0 .. Space - 1
      /\ (x + D) % Space = IF r + D >= Space THEN r + D - Space ELSE r + D
  BY <1>1, <1>4, WrapOnce
<1> HIDE DEF r
<1>7. Along(i, a, k + 1) = Plus(r, D)
  BY <1>2, <1>5, <1>6 DEF Plus
<1>8. Plus(r, D) = IF i.df THEN Minus(r, Size) ELSE Plus(r, Size)
  BY DEF D, Minus
<1> QED BY <1>2, <1>3, <1>6, <1>7, <1>8 DEF Address

\* The memory after one iteration more.
Later(i, s, m, k) ==
  IF i.op \notin {"STOS", "MOVS"} THEN s.mem
  ELSE Put(m, Along(i, s.cpu.rdi, k),
           IF i.op = "STOS" THEN s.cpu.rax ELSE Get(m, Along(i, s.cpu.rsi, k)))

LEMMA AfterFacts ==
  ASSUME NEW i, NEW s
  PROVE  /\ After(i, s)[0] = s.mem
         /\ \A k \in 0 .. MaxCount - 1 : After(i, s)[k + 1] = Later(i, s, After(i, s)[k], k)
<1> DEFINE Term(f, k) == IF k = 0 THEN s.mem ELSE Later(i, s, f[k - 1], k - 1)
           T == {l \in Nat : \E f : f = [k \in 0 .. l |-> Term(f, k)]}
<1>1. 0 \in T
  <2> DEFINE f == [k \in 0 .. 0 |-> s.mem]
  <2>1. f = [k \in 0 .. 0 |-> Term(f, k)]
    OBVIOUS
  <2> QED BY <2>1
<1>2. ASSUME NEW l \in Nat, l \in T PROVE l + 1 \in T
  <2>1. PICK f : f = [k \in 0 .. l |-> Term(f, k)]
    BY <1>2
  <2> DEFINE g == [k \in 0 .. l + 1 |-> Term(f, k)]
  <2>2. \A k \in 0 .. l : f[k] = Term(f, k)
    <3> DEFINE h == [k \in 0 .. l |-> Term(f, k)]
    <3>1. f = h
      BY <2>1
    <3>2. \A k \in 0 .. l : h[k] = Term(f, k)
      OBVIOUS
    <3> HIDE DEF h, Term
    <3> QED BY <3>1, <3>2
  <2>3. \A k \in 0 .. l + 1 : g[k] = Term(f, k)
    OBVIOUS
  <2>4. \A k \in 0 .. l : f[k] = g[k]
    <3> TAKE k \in 0 .. l
    <3>1. k \in 0 .. l + 1
      OBVIOUS
    <3> HIDE DEF g, Term
    <3> QED BY <2>2, <2>3, <3>1
  <2> HIDE DEF g
  <2>5. \A k \in 0 .. l + 1 : Term(f, k) = Term(g, k)
    <3> TAKE k \in 0 .. l + 1
    <3>1. CASE k = 0
      BY <3>1
    <3>2. CASE k # 0
      <4>1. k - 1 \in 0 .. l
        BY <3>2
      <4>2. f[k - 1] = g[k - 1]
        BY <2>4, <4>1
      <4> QED BY <3>2, <4>2
    <3> QED BY <3>1, <3>2
  <2>6. g = [k \in 0 .. l + 1 |-> Term(g, k)]
    <3>1. g = [k \in 0 .. l + 1 |-> Term(f, k)]
      BY DEF g
    <3> HIDE DEF Term
    <3> QED BY <2>5, <3>1
  <2>7. l + 1 \in Nat
    OBVIOUS
  <2> QED BY <2>6, <2>7
<1>3. MaxCount \in T
  <2> HIDE DEF T
  <2>1. \A n \in Nat : n \in T
    BY <1>1, <1>2, AllNats
  <2> QED BY <2>1, EmuAssumption
<1> DEFINE r == After(i, s)
<1>4. r = [k \in 0 .. MaxCount |-> Term(r, k)]
  <2>1. \A f, k : Term(f, k) =
          IF k = 0 \/ i.op \notin {"STOS", "MOVS"} THEN s.mem
          ELSE Put(f[k - 1], Along(i, s.cpu.rdi, k - 1),
                   IF i.op = "STOS" THEN s.cpu.rax
                   ELSE Get(f[k - 1], Along(i, s.cpu.rsi, k - 1)))
    BY DEF Later
  <2>2. r = CHOOSE f : f = [k \in 0 .. MaxCount |-> Term(f, k)]
    BY <2>1 DEF After
  <2> HIDE DEF r, Term
  <2> QED BY <1>3, <2>2
<1>5. \A k \in 0 .. MaxCount : r[k] = Term(r, k)
  <2> DEFINE h == [k \in 0 .. MaxCount |-> Term(r, k)]
  <2>1. r = h
    BY <1>4
  <2>2. \A k \in 0 .. MaxCount : h[k] = Term(r, k)
    OBVIOUS
  <2> HIDE DEF h, r, Term
  <2> QED BY <2>1, <2>2
<1> HIDE DEF r
<1>6. MaxCount \in Nat
  BY EmuAssumption
<1>7. r[0] = s.mem
  BY <1>5, <1>6
<1>8. ASSUME NEW k \in 0 .. MaxCount - 1 PROVE r[k + 1] = Later(i, s, r[k], k)
  <2>1. k + 1 \in 0 .. MaxCount /\ k + 1 # 0 /\ (k + 1) - 1 = k
    BY <1>6
  <2> QED BY <1>5, <2>1
<1> QED BY <1>7, <1>8 DEF r

-----------------------------------------------------------------------------
(* Whole iterations *)

\* At the instruction nothing was given up, no element ended the scan, and where an
\* access is under way there is an iteration to do.
StringInv ==
  instr.op \in Strings =>
    /\ WholeIterations
    /\ cpu.rcx \in 0 .. start.cpu.rcx
    /\ AtInstr => /\ ~dropped
                  /\ Repeated => \A j \in 1 .. Count : ~Ends(instr, start, j)
                  /\ accs # <<>> => ~CountedOut
    /\ ~AtInstr /\ ~dropped => Due(instr, start, Count)

\* At the instruction nothing has happened yet.
PlainInv ==
  instr.op \in Plain \ {"PUSHF"} =>
    /\ AtInstr => /\ cpu = start.cpu /\ mem = start.mem
                  /\ (\E k \in DOMAIN accs : accs[k] = "dropped") => dropped
    /\ ~AtInstr /\ ~dropped => Executed(instr, start, cpu, mem)

\* The inductive invariant of what an instruction has done.
MoveInv ==
  /\ instr \in Instrs /\ start \in Starts
  /\ step = "busy" => AtInstr
  /\ StringInv /\ PlainInv

LEMMA StartTypes ==
  ASSUME MoveInv
  PROVE  /\ start.cpu.rip \in Address /\ start.cpu.rsi \in Address /\ start.cpu.rdi \in Address
         /\ start.cpu.rcx \in 0 .. MaxCount
         /\ instr \in Instr /\ instr.df \in BOOLEAN
         /\ instr.op \in Strings \/ instr.op = "PUSHF" \/ instr.op \in Plain \ {"PUSHF"}
<1>1. start.cpu \in Cpu /\ instr \in Instr
  BY EmuAssumption DEF MoveInv
<1> HIDE DEF Address
<1>2. /\ start.cpu.rip \in Address /\ start.cpu.rsi \in Address /\ start.cpu.rdi \in Address
      /\ start.cpu.rcx \in 0 .. MaxCount
  BY <1>1 DEF Cpu
<1>3. instr.df \in BOOLEAN /\ instr.op \in Strings \cup Plain
  BY <1>1 DEF Instr
<1> QED BY <1>1, <1>2, <1>3

\* The next instruction is another one.
LEMMA RipMoves ==
  ASSUME NEW a \in Address
  PROVE  Plus(a, 1) # a
BY EmuAssumption DEF Plus, Address

LEMMA AdvanceFields ==
  ASSUME NEW c, IsCpu(c)
  PROVE  /\ Advance(c).rax = c.rax /\ Advance(c).rcx = c.rcx /\ Advance(c).rsi = c.rsi
         /\ Advance(c).rdi = c.rdi /\ Advance(c).rsp = c.rsp /\ Advance(c).zf = c.zf
         /\ Advance(c).rip = IF c.rip = cpu.rip THEN Plus(cpu.rip, 1) ELSE c.rip
<1>1. Advance(c) = [rax |-> c.rax, rcx |-> c.rcx, rsi |-> c.rsi, rdi |-> c.rdi, rsp |-> c.rsp,
                    zf |-> c.zf, rip |-> IF c.rip = cpu.rip THEN Plus(c.rip, 1) ELSE c.rip]
  BY DEF Advance, IsCpu
<1> QED BY <1>1

\* A step that moves neither registers nor memory.
LEMMA QuietMoves ==
  ASSUME MoveInv, UNCHANGED <<instr, start, cpu, mem, dropped>>,
         step' = "busy" => step = "busy" \/ AtInstr,
         accs' # <<>> => accs # <<>> \/ ~CountedOut,
         (\E k \in DOMAIN accs' : accs'[k] = "dropped") => \E k \in DOMAIN accs : accs[k] = "dropped"
  PROVE  MoveInv'
<1>1. /\ AtInstr' = AtInstr /\ Count' = Count /\ Repeated' = Repeated /\ CountedOut' = CountedOut
      /\ WholeIterations' = WholeIterations
  BY DEF AtInstr, Count, Repeated, CountedOut, WholeIterations
<1>2. StringInv'
  BY <1>1 DEF MoveInv, StringInv
<1>3. PlainInv'
  BY <1>1 DEF MoveInv, PlainInv
<1> QED BY <1>1, <1>2, <1>3 DEF MoveInv

\* An access to a plain operand that is given up.
LEMMA GivenUp ==
  ASSUME MoveInv, ~Checked, dropped' = TRUE, UNCHANGED <<instr, start, cpu, mem, step>>
  PROVE  MoveInv'
<1>1. AtInstr' = AtInstr /\ instr.op \notin Strings
  BY DEF AtInstr, Checked
<1> QED BY <1>1 DEF MoveInv, StringInv, PlainInv

\* A guarded instruction that ends without its access, or without an iteration to do.
LEMMA Leaves ==
  ASSUME MoveInv, Shape, Checked, step = "busy",
         cpu' = Advance(cpu), step' = "idle", accs' = <<>>,
         UNCHANGED <<instr, start, mem>>,
         dropped' = TRUE \/ (dropped' = dropped /\ CountedOut)
  PROVE  MoveInv'
<1>1. AtInstr /\ instr \in Instr /\ start.cpu.rip \in Address
      /\ (instr.op \in Strings \/ instr.op = "PUSHF")
  BY StartTypes DEF MoveInv, Checked, Plain, Strings
<1>2. /\ cpu'.rax = cpu.rax /\ cpu'.rcx = cpu.rcx /\ cpu'.rsi = cpu.rsi
      /\ cpu'.rdi = cpu.rdi /\ cpu'.zf = cpu.zf
      /\ cpu'.rip = Plus(start.cpu.rip, 1) /\ cpu.rip = start.cpu.rip
  BY <1>1, AdvanceFields DEF Shape, AtInstr
<1>3. ~AtInstr' /\ Repeated' = Repeated
  BY <1>1, <1>2, RipMoves DEF AtInstr, Repeated
<1>4. CASE instr.op \in Strings
  <2>1. Count' = Count
    <3>1. CASE Repeated
      BY <1>2, <1>3, <3>1 DEF Count
    <3>2. CASE ~Repeated
      <4>1. dropped' /\ Count = 0
        BY <1>1, <3>2 DEF CountedOut, Count
      <4> QED BY <1>3, <3>2, <4>1 DEF Count
    <3> QED BY <3>1, <3>2
  <2>2. WholeIterations /\ cpu.rcx \in 0 .. start.cpu.rcx
    BY <1>4 DEF MoveInv, StringInv
  <2>3. WholeIterations'
    BY <1>2, <2>1, <2>2 DEF WholeIterations, Registers
  <2>4. ASSUME ~dropped' PROVE Due(instr, start, Count)
    <3>1. CountedOut /\ cpu.rcx = 0 /\ instr.rep # "none"
      BY <2>4 DEF CountedOut, Repeated
    <3>2. start.cpu.rcx \in Nat
      BY StartTypes
    <3>3. Count = start.cpu.rcx
      BY <3>1, <3>2 DEF Count, CountedOut
    <3>4. \A j \in 1 .. Count : ~Ends(instr, start, j)
      BY <1>1, <1>4, <3>1 DEF MoveInv, StringInv, CountedOut
    <3> QED BY <3>1, <3>2, <3>3, <3>4 DEF Due
  <2>5. StringInv'
    BY <1>2, <1>3, <2>1, <2>2, <2>3, <2>4 DEF StringInv
  <2>6. PlainInv'
    BY <1>4 DEF PlainInv, Plain, Strings
  <2> QED BY <2>5, <2>6 DEF MoveInv
<1>5. CASE instr.op = "PUSHF"
  BY <1>5 DEF MoveInv, StringInv, PlainInv, Strings
<1> QED BY <1>1, <1>4, <1>5

LEMMA EndsFacts ==
  ASSUME NEW i, NEW s, NEW k \in Nat
  PROVE  Ends(i, s, k + 1) <=> i.op \in Scans /\ (Equal(i, s, k) <=> i.rep = "F2")
<1>1. (k + 1) - 1 = k
  OBVIOUS
<1>2. Ends(i, s, k + 1) <=> i.op \in Scans /\ Equal(i, s, k) = (i.rep = "F2")
  BY <1>1 DEF Ends
<1>3. (Equal(i, s, k) = (i.rep = "F2")) <=> (Equal(i, s, k) <=> i.rep = "F2")
  BY Zenon DEF Equal
<1> QED BY <1>2, <1>3

\* One iteration does to registers and memory what the next of the reference does.
LEMMA IterateMoves == ASSUME MoveInv, Shape, Iterate PROVE MoveInv'
<1> DEFINE k == Count
           cmp == IF instr.op \in Scans THEN Compared ELSE cpu.zf
           rcx == IF Repeated THEN cpu.rcx - 1 ELSE cpu.rcx
           rsi == IF MovesSource THEN Stride(cpu.rsi) ELSE cpu.rsi
           rdi == IF MovesDest THEN Stride(cpu.rdi) ELSE cpu.rdi
           rax == IF instr.op = "LODS" THEN Get(mem, cpu.rsi) ELSE cpu.rax
           done == [cpu EXCEPT !.rax = rax, !.rsi = rsi, !.rdi = rdi, !.rcx = rcx, !.zf = cmp]
           goes == Repeated /\ rcx # 0 /\ ~Stops(cmp)
<1>1. /\ instr.op \in Strings /\ step = "busy" /\ accs # <<>>
      /\ UNCHANGED <<instr, start, dropped>>
  <2>1. Len(accs) = Len(Accesses) /\ Len(<<>>) = 0
    BY DEF Iterate, Ready
  <2> QED BY <2>1, AccessesLength DEF Iterate, Ready
<1>2. /\ accs' = <<>>
      /\ goes => cpu' = done
      /\ ~goes => cpu' = Advance(done) /\ step' = "idle"
  BY DEF Iterate, Returns
<1>3. AtInstr /\ ~dropped /\ ~CountedOut /\ WholeIterations /\ cpu.rcx \in 0 .. start.cpu.rcx
      /\ (Repeated => \A j \in 1 .. k : ~Ends(instr, start, j))
  BY <1>1 DEF MoveInv, StringInv
<1>4. /\ start.cpu.rip \in Address /\ start.cpu.rsi \in Address /\ start.cpu.rdi \in Address
      /\ start.cpu.rcx \in 0 .. MaxCount /\ instr.df \in BOOLEAN
      /\ instr.rep \in {"none", "F3", "F2"}
      /\ MaxCount \in Nat /\ MaxCount >= 1
  BY StartTypes, EmuAssumption DEF Instr
<1>5. k \in 0 .. MaxCount - 1 /\ (Repeated => rcx \in 0 .. start.cpu.rcx /\ start.cpu.rcx - rcx = k + 1)
      /\ (~Repeated => k = 0)
  BY <1>3, <1>4 DEF Count, CountedOut
<1>6. IsCpu(done)
  <2>1. rsi \in Address /\ rdi \in Address /\ cpu.rsp \in Address
    BY StrideType DEF Shape, IsCpu
  <2> HIDE DEF cmp, rcx, rsi, rdi, rax, Address
  <2> QED BY <2>1, IteratedCpu DEF Shape
<1>7. /\ done.rax = rax /\ done.rcx = rcx /\ done.rsi = rsi /\ done.rdi = rdi
      /\ done.rip = cpu.rip
  <2> HIDE DEF cmp, rcx, rsi, rdi, rax
  <2> QED BY DEF Shape, IsCpu
<1>8. done.zf = cmp
  <2> HIDE DEF cmp, rcx, rsi, rdi, rax
  <2> QED BY DEF Shape, IsCpu
<1>9. mem = After(instr, start)[k] /\ Registers(instr, start, k, cpu)
  BY <1>1, <1>3 DEF WholeIterations
<1>10. instr.op \notin {"STOS", "MOVS"} => mem = start.mem
  <2>1. ASSUME instr.op \notin {"STOS", "MOVS"}, NEW j \in 0 .. MaxCount - 1, k = j + 1
        PROVE  mem = start.mem
    BY <1>9, <2>1, AfterFacts DEF Later
  <2>2. CASE k = 0
    BY <1>9, <2>2, AfterFacts
  <2>3. CASE k # 0
    <3>1. k - 1 \in 0 .. MaxCount - 1 /\ k = (k - 1) + 1
      BY <1>4, <1>5, <2>3
    <3> QED BY <2>1, <3>1
  <2> QED BY <2>2, <2>3
<1>11. mem' = After(instr, start)[k + 1]
  <2>1. After(instr, start)[k + 1] = Later(instr, start, mem, k)
    BY <1>5, <1>9, AfterFacts
  <2>2. instr.op \in {"STOS", "MOVS"} => cpu.rdi = Along(instr, start.cpu.rdi, k)
    BY <1>9 DEF Registers
  <2>3. instr.op = "MOVS" => cpu.rsi = Along(instr, start.cpu.rsi, k)
    BY <1>9 DEF Registers
  <2>4. instr.op = "STOS" => cpu.rax = start.cpu.rax
    BY <1>9 DEF Registers
  <2>5. mem' = IF instr.op = "STOS" THEN Put(mem, cpu.rdi, cpu.rax)
               ELSE IF instr.op = "MOVS" THEN Put(mem, cpu.rdi, Get(mem, cpu.rsi)) ELSE mem
    BY DEF Iterate
  <2> HIDE DEF k
  <2> QED BY <1>10, <2>1, <2>2, <2>3, <2>4, <2>5 DEF Later
<1>12. instr.op \in Scans => (cmp <=> Equal(instr, start, k))
  <2> SUFFICES ASSUME instr.op \in Scans PROVE Compared <=> Equal(instr, start, k)
    OBVIOUS
  <2>1. mem = start.mem /\ cpu.rax = start.cpu.rax /\ cpu.rdi = Along(instr, start.cpu.rdi, k)
        /\ (instr.op = "CMPS" => cpu.rsi = Along(instr, start.cpu.rsi, k))
    BY <1>9, <1>10 DEF Registers, Scans
  <2> HIDE DEF k
  <2> QED BY <2>1 DEF Compared, Equal, Scans
<1>13. Registers(instr, start, k + 1, done)
  <2>1. k \in Nat /\ k + 1 > 0 /\ (k + 1) - 1 = k
    BY <1>5, <1>4
  <2> HIDE DEF k
  <2>2. \A a \in Address : Along(instr, a, k + 1) = Stride(Along(instr, a, k))
    BY <1>4, <2>1, AlongFacts DEF Stride
  <2>3. rsi = IF instr.op \in {"LODS", "MOVS", "CMPS"} THEN Along(instr, start.cpu.rsi, k + 1)
              ELSE start.cpu.rsi
    BY <1>4, <1>9, <2>2 DEF Registers, MovesSource
  <2>4. rdi = IF instr.op = "LODS" THEN start.cpu.rdi ELSE Along(instr, start.cpu.rdi, k + 1)
    BY <1>1, <1>4, <1>9, <2>2 DEF Registers, MovesDest
  <2>5. rax = IF instr.op = "LODS" THEN Get(start.mem, Along(instr, start.cpu.rsi, k))
              ELSE start.cpu.rax
    BY <1>9, <1>10 DEF Registers
  <2>6. done.zf = IF instr.op \in Scans THEN Equal(instr, start, k) ELSE start.cpu.zf
    <3>1. CASE instr.op \in Scans
      <4>1. done.zf = Compared
        BY <1>8, <3>1
      <4>2. Compared = Equal(instr, start, k)
        BY <1>12, <3>1 DEF Compared, Equal
      <4> QED BY <3>1, <4>1, <4>2
    <3>2. CASE instr.op \notin Scans
      BY <1>8, <1>9, <3>2 DEF Registers
    <3> QED BY <3>1, <3>2
  <2> HIDE DEF rsi, rdi, rax, rcx, cmp, done
  <2> QED BY <1>7, <2>1, <2>3, <2>4, <2>5, <2>6 DEF Registers
<1> HIDE DEF k, cmp, rcx, rsi, rdi, rax
<1>14. CASE goes
  <2> HIDE DEF done
  <2>1. cpu' = done /\ cpu'.rip = start.cpu.rip
    BY <1>2, <1>3, <1>7, <1>14 DEF AtInstr
  <2>2. AtInstr' /\ Repeated /\ Repeated' /\ Count' = k + 1
    BY <1>1, <1>5, <1>7, <1>14, <2>1 DEF AtInstr, Repeated, Count
  <2>3. WholeIterations'
    BY <1>1, <1>11, <1>13, <2>1, <2>2 DEF WholeIterations
  <2>4. ~Ends(instr, start, k + 1)
    <3>1. (k + 1) - 1 = k
      BY <1>5
    <3>2. CASE instr.op \notin Scans
      BY <3>2 DEF Ends
    <3>3. CASE instr.op \in Scans
      <4>1. instr.rep \in {"F3", "F2"} /\ ~Stops(cmp)
        BY <1>4, <1>14 DEF Repeated
      <4>2. instr.rep = "F3" => Equal(instr, start, k)
        BY <1>12, <3>3, <4>1 DEF Stops
      <4>3. instr.rep = "F2" => ~Equal(instr, start, k)
        BY <1>12, <3>3, <4>1 DEF Stops
      <4> QED BY <3>1, <4>1, <4>2, <4>3 DEF Ends
    <3> QED BY <3>2, <3>3
  <2>5. \A j \in 1 .. k + 1 : ~Ends(instr, start, j)
    <3>1. \A j \in 1 .. k + 1 : j \in 1 .. k \/ j = k + 1
      BY <1>5
    <3> QED BY <1>3, <2>2, <2>4, <3>1
  <2>6. cpu'.rcx \in 0 .. start.cpu.rcx
    BY <1>5, <1>7, <2>1, <2>2
  <2>7. StringInv'
    BY <1>1, <1>2, <1>3, <2>2, <2>3, <2>5, <2>6 DEF StringInv
  <2>8. PlainInv'
    BY <1>1 DEF PlainInv, Plain, Strings
  <2> QED BY <1>1, <2>2, <2>7, <2>8 DEF MoveInv
<1>15. CASE ~goes
  <2> HIDE DEF done
  <2>1. /\ cpu'.rax = done.rax /\ cpu'.rcx = rcx /\ cpu'.rsi = done.rsi
        /\ cpu'.rdi = done.rdi /\ cpu'.zf = done.zf
        /\ cpu'.rip = Plus(start.cpu.rip, 1)
    BY <1>2, <1>3, <1>6, <1>7, <1>15, AdvanceFields DEF AtInstr
  <2>2. ~AtInstr' /\ Repeated' = Repeated /\ ~dropped'
    BY <1>1, <1>3, <1>4, <2>1, RipMoves DEF AtInstr, Repeated
  <2>3. Count' = k + 1
    BY <1>1, <1>5, <2>1, <2>2 DEF Count
  <2>4. Registers(instr, start, k + 1, cpu')
    BY <1>13, <2>1 DEF Registers
  <2>5. WholeIterations'
    BY <1>1, <1>11, <2>1, <2>3, <2>4 DEF WholeIterations
  <2>6. Due(instr, start, k + 1)
    <3>1. CASE ~Repeated
      <4>1. instr.rep = "none" /\ k = 0
        BY <1>1, <1>5, <3>1 DEF Repeated
      <4> QED BY <4>1 DEF Due
    <3>2. CASE Repeated
      <4>1. (k + 1) - 1 = k /\ k + 1 > 0 /\ instr.rep # "none"
        BY <1>5, <3>2 DEF Repeated
      <4>2. CASE rcx = 0
        <5>1. k + 1 = start.cpu.rcx
          BY <1>4, <1>5, <3>2, <4>2
        <5> QED BY <1>3, <3>2, <4>1, <5>1 DEF Due
      <4>3. CASE Stops(cmp)
        <5>1. instr.op \in Scans
          BY <4>3 DEF Stops
        <5>2. instr.rep = "F3" => ~Equal(instr, start, k)
          BY <1>12, <4>3, <5>1 DEF Stops
        <5>3. instr.rep = "F2" => Equal(instr, start, k)
          BY <1>12, <4>3, <5>1 DEF Stops
        <5>4. instr.rep \in {"F3", "F2"}
          BY <1>4, <4>1
        <5>5. Ends(instr, start, k + 1)
          <6>1. Equal(instr, start, k) <=> instr.rep = "F2"
            BY <5>2, <5>3, <5>4
          <6> QED BY <1>5, <5>1, <6>1, EndsFacts
        <5> QED BY <1>3, <3>2, <4>1, <5>5 DEF Due
      <4> QED BY <1>15, <3>2, <4>2, <4>3
    <3> QED BY <3>1, <3>2
  <2>7. cpu'.rcx \in 0 .. start.cpu.rcx
    BY <1>3, <1>5, <2>1 DEF rcx
  <2>8. StringInv'
    BY <1>1, <2>2, <2>3, <2>5, <2>6, <2>7 DEF StringInv
  <2>9. PlainInv'
    BY <1>1 DEF PlainInv, Plain, Strings
  <2>10. step' = "idle"
    BY <1>2, <1>15
  <2> QED BY <1>1, <2>8, <2>9, <2>10 DEF MoveInv
<1> QED BY <1>14, <1>15

\* The effect of an instruction with plain operands; what follows of accesses that were
\* given up is not said.
LEMMA ExecuteMoves == ASSUME MoveInv, Inv, Execute PROVE MoveInv'
<1> DEFINE done == CASE instr.op = "LOAD" -> [cpu EXCEPT !.rax = mem_read(1)]
                    [] instr.op = "XCHG" -> [cpu EXCEPT !.rax = mem_read(1)]
                    [] instr.op = "PUSH" -> [cpu EXCEPT !.rsp = Pushed]
                    [] instr.op = "POP" -> [cpu EXCEPT !.rsp = Popped, !.rax = mem_read(1)]
                    [] instr.op = "CALL" -> [cpu EXCEPT !.rsp = Pushed, !.rip = instr.target]
                    [] instr.op = "RETN" -> [cpu EXCEPT !.rsp = Popped, !.rip = Number[mem_read(1)]]
                    [] OTHER -> cpu
<1>1. /\ instr.op \notin Strings /\ step = "busy" /\ Len(accs) = Len(Accesses)
      /\ cpu' = Advance(done) /\ step' = "idle"
      /\ UNCHANGED <<instr, start, dropped>>
  BY DEF Execute, Ready, Returns
<1>2. AtInstr /\ start.cpu.rip \in Address /\ IsCpu(cpu) /\ cpu.rip = start.cpu.rip
  BY <1>1, StartTypes DEF MoveInv, Inv, Shape, AtInstr
<1>3. /\ instr.op \in {"STORE", "CALL", "PUSHF"} => done = cpu
           \/ done = [cpu EXCEPT !.rsp = Pushed, !.rip = instr.target]
      /\ instr.op \in {"LOAD", "XCHG"} => done = [cpu EXCEPT !.rax = mem_read(1)]
      /\ instr.op = "PUSH" => done = [cpu EXCEPT !.rsp = Pushed]
      /\ instr.op = "POP" => done = [cpu EXCEPT !.rsp = Popped, !.rax = mem_read(1)]
      /\ instr.op = "RETN" => done = [cpu EXCEPT !.rsp = Popped, !.rip = Number[mem_read(1)]]
  OBVIOUS
<1>4. instr.op \in {"LOAD", "STORE", "XCHG", "PUSH", "POP", "CALL", "RETN", "PUSHF"}
  BY <1>1, StartTypes DEF Plain
<1> HIDE DEF done
<1>5. IsCpu(done)
  <2>1. Pushed \in Address /\ Popped \in Address
    <3>1. Size \in 0 .. Space
      BY EmuAssumption
    <3> QED BY <1>2, <3>1, MinusType, PlusType DEF IsCpu, Pushed, Popped
  <2> HIDE DEF Address
  <2> QED BY <1>2, <1>3, <1>4, <2>1 DEF IsCpu
<1>6. /\ cpu'.rax = done.rax /\ cpu'.rsp = done.rsp
      /\ cpu'.rip = IF done.rip = cpu.rip THEN Plus(cpu.rip, 1) ELSE done.rip
  BY <1>1, <1>5, AdvanceFields
<1>7. ~AtInstr'
  BY <1>1, <1>2, <1>6, RipMoves DEF AtInstr
<1>8. ASSUME ~dropped, instr.op # "PUSHF" PROVE Executed(instr, start, cpu', mem')
  <2>1. cpu = start.cpu /\ mem = start.mem /\ \A j \in DOMAIN accs : accs[j] # "dropped"
    BY <1>2, <1>4, <1>8 DEF MoveInv, PlainInv, Plain
  <2>2. \A j \in 1 .. Len(Accesses) : accs[j] = "done"
    BY <1>1, <2>1 DEF Inv, Shape
  <2>3. mem_read(1) = Get(start.mem, Accesses[1])
    BY <2>1, <2>2, AccessesLength DEF mem_read
  <2>4. CASE instr.op = "LOAD"
    <3>1. Accesses[1] = start.cpu.rsi
      BY <2>1, <2>4 DEF Accesses
    <3>2. done.rax = mem_read(1)
      BY <1>2, <1>3, <2>4 DEF IsCpu
    <3> QED BY <1>6, <2>3, <2>4, <3>1, <3>2 DEF Executed
  <2>5. CASE instr.op = "STORE"
    <3>1. Accesses[1] = start.cpu.rdi
      BY <2>1, <2>5 DEF Accesses
    <3>2. done.rax = cpu.rax
      BY <1>2, <1>3, <2>5 DEF IsCpu
    <3>3. mem' = Put(start.mem, start.cpu.rdi, start.cpu.rax)
      BY <2>1, <2>2, <2>5, <3>1, AccessesLength DEF Execute, mem_write
    <3> QED BY <1>6, <2>1, <2>5, <3>2, <3>3 DEF Executed
  <2>6. CASE instr.op = "XCHG"
    <3>1. Accesses = <<cpu.rdi, cpu.rdi>>
      BY <2>6 DEF Accesses
    <3>2. Accesses[1] = start.cpu.rdi /\ Accesses[2] = start.cpu.rdi /\ 2 \in 1 .. Len(Accesses)
      BY <2>1, <3>1
    <3>3. done.rax = mem_read(1)
      BY <1>2, <1>3, <2>6 DEF IsCpu
    <3>4. mem' = Put(start.mem, start.cpu.rdi, start.cpu.rax)
      BY <2>1, <2>2, <2>6, <3>2 DEF Execute, mem_write
    <3> QED BY <1>6, <2>3, <2>6, <3>2, <3>3, <3>4 DEF Executed
  <2>7. CASE instr.op = "PUSH"
    <3>1. Accesses[1] = Minus(start.cpu.rsp, Size)
      BY <2>1, <2>7 DEF Accesses
    <3>2. done.rax = cpu.rax /\ done.rsp = Minus(start.cpu.rsp, Size)
      BY <1>2, <1>3, <2>1, <2>7 DEF IsCpu, Pushed
    <3>3. mem' = Put(start.mem, Minus(start.cpu.rsp, Size), start.cpu.rax)
      BY <2>1, <2>2, <2>7, <3>1, AccessesLength DEF Execute, mem_write
    <3> QED BY <1>6, <2>1, <2>7, <3>2, <3>3 DEF Executed
  <2>8. CASE instr.op = "POP"
    <3>1. Accesses[1] = start.cpu.rsp
      BY <2>1, <2>8 DEF Accesses
    <3>2. done.rax = mem_read(1)
      BY <1>2, <1>3, <2>8 DEF IsCpu
    <3> QED BY <1>6, <2>3, <2>8, <3>1, <3>2 DEF Executed
  <2>9. CASE instr.op = "CALL"
    <3>1. done.rax = cpu.rax
      BY <1>2, <1>3, <2>9 DEF IsCpu
    <3> QED BY <1>6, <2>1, <2>9, <3>1 DEF Executed
  <2>10. CASE instr.op = "RETN"
    <3>1. Accesses[1] = start.cpu.rsp
      BY <2>1, <2>10 DEF Accesses
    <3>2. done.rax = cpu.rax /\ done.rip = Number[mem_read(1)]
      BY <1>2, <1>3, <2>10 DEF IsCpu
    <3> QED BY <1>2, <1>6, <2>1, <2>3, <2>10, <3>1, <3>2 DEF Executed
  <2> QED BY <1>4, <1>8, <2>4, <2>5, <2>6, <2>7, <2>8, <2>9, <2>10
<1>9. StringInv'
  BY <1>1 DEF StringInv
<1>10. PlainInv'
  BY <1>1, <1>7, <1>8 DEF PlainInv
<1> QED BY <1>1, <1>9, <1>10 DEF MoveInv

LEMMA MoveNext == ASSUME MoveInv, Inv, Next PROVE MoveInv'
<1>1. Shape /\ accs \in Seq({"done", "dropped"})
  BY DEF Inv, Shape
<1>2. DOMAIN <<>> = {}
  OBVIOUS
<1>3. CASE FetchFault
  BY <1>2, <1>3, QuietMoves DEF FetchFault, Returns
<1>4. CASE Begin
  <2>1. CASE instr.op # "PUSHF"
    BY <1>4, <2>1, QuietMoves DEF Begin
  <2>2. CASE instr.op = "PUSHF"
    <3>1. cpu'.rip = cpu.rip /\ UNCHANGED <<instr, start>> /\ AtInstr
      BY <1>1, <1>4, <2>2 DEF Begin, Shape, IsCpu
    <3> QED BY <2>2, <3>1 DEF MoveInv, AtInstr, StringInv, PlainInv, Strings
  <2> QED BY <2>1, <2>2
<1>5. CASE NothingToDo
  <2>1. Checked
    BY <1>5 DEF NothingToDo, CountedOut, Repeated, Checked
  <2> QED BY <1>1, <1>5, <2>1, Leaves DEF NothingToDo, Wants, Returns
<1>6. CASE InBounds
  <2>1. accs' = Append(accs, "done") /\ ~CountedOut
    BY <1>6 DEF InBounds, Working
  <2>2. \A k \in DOMAIN accs' : accs'[k] = "dropped" => k \in DOMAIN accs /\ accs[k] = "dropped"
    BY <1>1, <2>1
  <2> QED BY <1>6, <2>1, <2>2, QuietMoves DEF InBounds
<1>7. CASE Abort
  <2>1. CASE Checked
    BY <1>2, <1>7, <2>1, QuietMoves DEF Abort, Returns
  <2>2. CASE ~Checked
    BY <1>7, <2>2, GivenUp DEF Abort
  <2> QED BY <2>1, <2>2
<1>8. CASE Skip
  <2>1. CASE Checked
    BY <1>1, <1>8, <2>1, Leaves DEF Skip, Faults, Working, Wants, Returns
  <2>2. CASE ~Checked
    BY <1>8, <2>2, GivenUp DEF Skip
  <2> QED BY <2>1, <2>2
<1>9. CASE Retry
  BY <1>9, QuietMoves DEF Retry
<1>10. CASE Iterate
  BY <1>1, <1>10, IterateMoves
<1>11. CASE Execute
  BY <1>11, ExecuteMoves
<1>12. CASE Provide
  BY <1>12, QuietMoves DEF Provide
<1>13. CASE set_mem_fault_handler
  BY <1>13, QuietMoves DEF set_mem_fault_handler
<1> QED
  BY <1>3, <1>4, <1>5, <1>6, <1>7, <1>8, <1>9, <1>10, <1>11, <1>12, <1>13 DEF Next

LEMMA MoveInit == Init => MoveInv
<1> SUFFICES ASSUME Init PROVE MoveInv
  OBVIOUS
<1>1. /\ instr \in Instrs /\ start \in Starts /\ cpu = start.cpu /\ mem = start.mem
      /\ step = "idle" /\ accs = <<>> /\ ~dropped /\ AtInstr
  BY DEF Init, AtInstr
<1>2. start.cpu \in Cpu /\ instr \in Instr
  BY <1>1, EmuAssumption
<1>3. /\ start.cpu.rsi \in Address /\ start.cpu.rdi \in Address
      /\ start.cpu.rcx \in 0 .. MaxCount /\ instr.df \in BOOLEAN
  <2> HIDE DEF Address
  <2> QED BY <1>2 DEF Cpu, Instr
<1>4. Count = 0
  BY <1>1, <1>3 DEF Count
<1>5. /\ Along(instr, start.cpu.rsi, 0) = start.cpu.rsi
      /\ Along(instr, start.cpu.rdi, 0) = start.cpu.rdi
  BY <1>3, AlongFacts
<1>6. Registers(instr, start, 0, cpu)
  BY <1>1, <1>5 DEF Registers
<1>7. WholeIterations
  BY <1>1, <1>4, <1>6, AfterFacts DEF WholeIterations
<1>8. StringInv
  BY <1>1, <1>3, <1>4, <1>7 DEF StringInv
<1>9. PlainInv
  <2>1. DOMAIN accs = {}
    BY <1>1
  <2> QED BY <1>1, <2>1 DEF PlainInv
<1> QED BY <1>1, <1>8, <1>9 DEF MoveInv

LEMMA MoveInvariance == Spec => []MoveInv
<1>1. MoveInv /\ Inv /\ UNCHANGED vars => MoveInv'
  <2> SUFFICES ASSUME MoveInv, UNCHANGED vars PROVE MoveInv'
    OBVIOUS
  <2> QED BY QuietMoves DEF vars, state
<1> QED
  BY <1>1, MoveInit, MoveNext, Invariance, PTL DEF Spec

\* Wherever a string instruction stands, in the middle of a fault, after one or after it
\* was skipped, it has done a whole number of iterations and they are those of a run
\* without faults, for any memory, word size and count.
THEOREM IterationsAreWhole == Spec => []WholeIterations
<1>1. MoveInv => WholeIterations
  BY DEF MoveInv, StringInv, WholeIterations
<1> QED
  BY <1>1, MoveInvariance, PTL

\* However often an instruction faulted and was called again or retried, once it is over
\* with no access given up it has done exactly what it does on memory that was there from
\* the start: the iterations that are due, or its effect on its operands.
THEOREM FaultsAreInvisible == Spec => []CompletesExactly
<1>1. MoveInv => CompletesExactly
  <2> SUFFICES ASSUME MoveInv, ~AtInstr, ~dropped
               PROVE  IF instr.op \in Strings THEN Due(instr, start, Count)
                      ELSE instr.op # "PUSHF" => Executed(instr, start, cpu, mem)
    BY DEF CompletesExactly
  <2> QED BY StartTypes DEF MoveInv, StringInv, PlainInv
<1> QED
  BY <1>1, MoveInvariance, PTL
=============================================================================

------------------------------ MODULE EmuFaults ------------------------------
(***************************************************************************)
(* One instruction of the emulator in lib/emu/emu.cpp on a memory of which *)
(* only the first mem_size bytes are there.  An access beyond them asks    *)
(* the fault handler, if there is one, which may give up, skip the access  *)
(* or provide memory and retry; and the caller may provide memory between  *)
(* two calls of emu_step and call it again.  The instruction is a string   *)
(* instruction, repeated or not, or one of those with plain operands.      *)
(*                                                                         *)
(* An action is a call of emu_step, one pass of an access through          *)
(* emu_mem_dispatch, or the effect of the instruction or of one iteration  *)
(* of it.  All accesses are Size bytes wide; addresses wrap at Space.  The *)
(* instruction's own bytes are not overwritten.                            *)
(***************************************************************************)
EXTENDS Naturals, Sequences

CONSTANTS
  Space,    \* number of addresses
  MaxMem,   \* bytes the caller or the handler can provide
  Size, Byte,
  MaxCount, \* bound on RCX
  Number,   \* the address that Size bytes are
  Instrs,   \* instructions
  Starts    \* memories, with what is yet to be provided, and registers

Address == 0 .. Space - 1
Word == [0 .. Size - 1 -> Byte]
Memory == [Address -> Byte]

Strings == {"STOS", "LODS", "MOVS", "SCAS", "CMPS"}
Scans == {"SCAS", "CMPS"}
\* MOV from and to memory, XCHG with memory, and the stack.
Plain == {"LOAD", "STORE", "XCHG", "PUSH", "POP", "CALL", "RETN", "PUSHF"}

\* rep is the prefix F3 or F2; df the direction flag; target that of a CALL.
Instr == [op : Strings \cup Plain, rep : {"none", "F3", "F2"}, df : BOOLEAN, target : Address]

Cpu == [rax : Word, rcx : 0 .. MaxCount, rsi : Address, rdi : Address, rsp : Address,
        zf : BOOLEAN, rip : Address]

ASSUME EmuAssumption ==
  /\ Size \in Nat \ {0} /\ Space \in Nat /\ MaxMem \in Nat
  /\ Size < Space /\ MaxMem < Space
  /\ MaxCount \in Nat \ {0}
  /\ 0 \in Byte
  /\ Number \in [Word -> Address]
  /\ Instrs \subseteq Instr
  /\ Starts \subseteq [cpu : Cpu, mem : Memory]

VARIABLES
  instr,
  cpu, mem, mem_size,
  handler,   \* mem_fault_handler is installed
  step,      \* emu_step is "idle" or "busy"
  accs,      \* of the iteration's accesses so far: "done", or "dropped" for those that
             \* mem_read or mem_write gave up
  result,    \* of the last emu_step
  start,     \* cpu and mem before the instruction
  dropped,   \* an access of this instruction was skipped or given up
  faulted    \* an emu_step of this instruction ended in MemFault

state == <<instr, cpu, mem, mem_size, handler, step, accs, result>>
vars == <<state, start, dropped, faulted>>

Init ==
  /\ instr \in Instrs
  /\ start \in Starts
  /\ cpu = start.cpu /\ mem = start.mem
  /\ mem_size \in 0 .. MaxMem
  /\ handler \in BOOLEAN
  /\ step = "idle" /\ accs = <<>> /\ result = "none"
  /\ dropped = FALSE /\ faulted = FALSE

-----------------------------------------------------------------------------
Plus(a, n) == IF a + n >= Space THEN a + n - Space ELSE a + n
Minus(a, n) == Plus(a, Space - n)

Get(m, a) == [j \in 0 .. Size - 1 |-> m[Plus(a, j)]]
Put(m, a, w) ==
  [b \in Address |-> IF \E j \in 0 .. Size - 1 : b = Plus(a, j)
                     THEN w[CHOOSE j \in 0 .. Size - 1 : b = Plus(a, j)] ELSE m[b]]

zero == [j \in 0 .. Size - 1 |-> 0]

\* Slip: the end of the access may wrap.
mem_check_NoWrap(addr) == Plus(addr, Size) <= mem_size

mem_check(addr) == Plus(addr, Size) <= mem_size /\ Plus(addr, Size) >= addr

Repeated == instr.op \in Strings /\ instr.rep # "none"
\* Accesses that EMU_CHK guards; the others go to mem_read and mem_write directly.
Checked == instr.op \in Strings \cup {"PUSHF"}

\* Addresses of the accesses of an instruction or iteration, in order.
Accesses ==
  LET top == Minus(cpu.rsp, Size)
  IN CASE instr.op \in {"STOS", "SCAS", "STORE"} -> <<cpu.rdi>>
       [] instr.op \in {"LODS", "LOAD"} -> <<cpu.rsi>>
       [] instr.op \in {"MOVS", "CMPS"} -> <<cpu.rsi, cpu.rdi>>
       [] instr.op = "XCHG" -> <<cpu.rdi, cpu.rdi>>
       [] instr.op \in {"PUSH", "CALL"} -> <<top>>
       [] OTHER -> <<cpu.rsp>>

Ready == step = "busy" /\ Len(accs) = Len(Accesses)
Wants == step = "busy" /\ Len(accs) < Len(Accesses)
Wanted == Accesses[Len(accs) + 1]

Returns(r) == step' = "idle" /\ result' = r /\ accs' = <<>>

\* The end of emu_step: RIP moves on unless the instruction moved it.
Advance(c) == [c EXCEPT !.rip = IF @ = cpu.rip THEN Plus(@, 1) ELSE @]

-----------------------------------------------------------------------------
(* emu_step up to the first access *)

AtInstr == cpu.rip = start.cpu.rip

Unfetched == cpu.rip >= mem_size

FetchFault ==
  /\ step = "idle" /\ AtInstr
  /\ Unfetched
  /\ Returns("MemFault")
  /\ faulted' = TRUE
  /\ UNCHANGED <<instr, cpu, mem, mem_size, handler, start, dropped>>

\* PUSHF moves the stack pointer before it checks the access.
Begin ==
  /\ step = "idle" /\ AtInstr
  /\ ~Unfetched
  /\ step' = "busy"
  /\ cpu' = IF instr.op = "PUSHF" THEN [cpu EXCEPT !.rsp = Minus(@, Size)] ELSE cpu
  /\ UNCHANGED <<instr, mem, mem_size, handler, accs, result, start, dropped, faulted>>

\* The condition of the loop over a repeated instruction.
CountedOut == Repeated /\ cpu.rcx = 0

NothingToDo ==
  /\ Wants /\ CountedOut
  /\ cpu' = Advance(cpu)
  /\ Returns("OK")
  /\ UNCHANGED <<instr, mem, mem_size, handler, start, dropped, faulted>>

Working == Wants /\ ~CountedOut

-----------------------------------------------------------------------------
(* emu_mem_dispatch *)

InBounds ==
  /\ Working /\ mem_check(Wanted)
  /\ accs' = Append(accs, "done")
  /\ UNCHANGED <<instr, cpu, mem, mem_size, handler, step, result, start, dropped, faulted>>

Faults == Working /\ ~mem_check(Wanted)

\* No handler, or FaultAction::Abort.
Abort ==
  /\ Faults
  /\ IF Checked THEN Returns("MemFault") /\ faulted' = TRUE /\ UNCHANGED dropped
     ELSE /\ accs' = Append(accs, "dropped")
          /\ dropped' = TRUE
          /\ UNCHANGED <<step, result, faulted>>
  /\ UNCHANGED <<instr, cpu, mem, mem_size, handler, start>>

\* FaultAction::Skip: EMU_CHK leaves the instruction, the others do without the access.
Skip ==
  /\ Faults /\ handler
  /\ dropped' = TRUE
  /\ IF Checked THEN Returns("OK") /\ cpu' = Advance(cpu)
     ELSE accs' = Append(accs, "dropped") /\ UNCHANGED <<cpu, step, result>>
  /\ UNCHANGED <<instr, mem, mem_size, handler, start, faulted>>

\* FaultAction::Retry, after the handler provided memory; enough of it or not.
Retry ==
  /\ Faults /\ handler
  /\ mem_size' \in mem_size + 1 .. MaxMem
  /\ UNCHANGED <<instr, cpu, mem, handler, step, accs, result, start, dropped, faulted>>

-----------------------------------------------------------------------------
(* The effect *)

Stride(a) == IF instr.df THEN Minus(a, Size) ELSE Plus(a, Size)

Compared ==
  IF instr.op = "SCAS" THEN cpu.rax = Get(mem, cpu.rdi) ELSE Get(mem, cpu.rsi) = Get(mem, cpu.rdi)

\* Slip: REPNE goes on as REPE does.
Stops_OneWay(zf) == instr.op \in Scans /\ ~zf

Stops(zf) ==
  instr.op \in Scans /\ ((instr.rep = "F3" /\ ~zf) \/ (instr.rep = "F2" /\ zf))

\* Slip: CMPS moves one pointer.
MovesDest_ButCmps == instr.op \in Strings \ {"LODS", "CMPS"}

MovesSource == instr.op \in {"LODS", "MOVS", "CMPS"}
MovesDest == instr.op \in Strings \ {"LODS"}

Iterate ==
  /\ Ready /\ instr.op \in Strings
  /\ LET zf == IF instr.op \in Scans THEN Compared ELSE cpu.zf
         rcx == IF Repeated THEN cpu.rcx - 1 ELSE cpu.rcx
         done == [cpu EXCEPT !.rax = IF instr.op = "LODS" THEN Get(mem, cpu.rsi) ELSE @,
                             !.rsi = IF MovesSource THEN Stride(@) ELSE @,
                             !.rdi = IF MovesDest THEN Stride(@) ELSE @,
                             !.rcx = rcx, !.zf = zf]
     IN IF Repeated /\ rcx # 0 /\ ~Stops(zf)
        THEN cpu' = done /\ accs' = <<>> /\ UNCHANGED <<step, result>>
        ELSE cpu' = Advance(done) /\ Returns("OK")
  /\ mem' = IF instr.op = "STOS" THEN Put(mem, cpu.rdi, cpu.rax)
            ELSE IF instr.op = "MOVS" THEN Put(mem, cpu.rdi, Get(mem, cpu.rsi)) ELSE mem
  /\ UNCHANGED <<instr, mem_size, handler, start, dropped, faulted>>

\* mem_read and mem_write of the k-th access.
mem_read(k) == IF accs[k] = "done" THEN Get(mem, Accesses[k]) ELSE zero
mem_write(k, w) == IF accs[k] = "done" THEN Put(mem, Accesses[k], w) ELSE mem

Pushed == Minus(cpu.rsp, Size)
Popped == Plus(cpu.rsp, Size)

\* What a CALL pushes.
ReturnAddress == CHOOSE w \in Word : Number[w] = Plus(cpu.rip, 1)

Execute ==
  /\ Ready /\ instr.op \notin Strings
  /\ LET done ==
           CASE instr.op = "LOAD" -> [cpu EXCEPT !.rax = mem_read(1)]
             [] instr.op = "XCHG" -> [cpu EXCEPT !.rax = mem_read(1)]
             [] instr.op = "PUSH" -> [cpu EXCEPT !.rsp = Pushed]
             [] instr.op = "POP" -> [cpu EXCEPT !.rsp = Popped, !.rax = mem_read(1)]
             [] instr.op = "CALL" -> [cpu EXCEPT !.rsp = Pushed, !.rip = instr.target]
             [] instr.op = "RETN" -> [cpu EXCEPT !.rsp = Popped, !.rip = Number[mem_read(1)]]
             [] OTHER -> cpu
     IN cpu' = Advance(done)
  /\ mem' = CASE instr.op \in {"STORE", "PUSH"} -> mem_write(1, cpu.rax)
              [] instr.op = "XCHG" -> mem_write(2, cpu.rax)
              [] instr.op = "CALL" -> mem_write(1, ReturnAddress)
              [] instr.op = "PUSHF" -> mem_write(1, zero)
              [] OTHER -> mem
  /\ Returns("OK")
  /\ UNCHANGED <<instr, mem_size, handler, start, dropped, faulted>>

-----------------------------------------------------------------------------
(* The caller, between two calls *)

Provide ==
  /\ step = "idle" /\ AtInstr
  /\ mem_size' \in mem_size + 1 .. MaxMem
  /\ UNCHANGED <<instr, cpu, mem, handler, step, accs, result, start, dropped, faulted>>

set_mem_fault_handler ==
  /\ step = "idle" /\ AtInstr
  /\ handler' = ~handler
  /\ UNCHANGED <<instr, cpu, mem, mem_size, step, accs, result, start, dropped, faulted>>

Next ==
  \/ FetchFault \/ Begin \/ NothingToDo
  \/ InBounds \/ Abort \/ Skip \/ Retry
  \/ Iterate \/ Execute
  \/ Provide \/ set_mem_fault_handler

Spec == Init /\ [][Next]_vars

-----------------------------------------------------------------------------
(* What a fault may and may not do *)

TypeOK ==
  /\ instr \in Instrs /\ start \in Starts
  /\ cpu \in Cpu /\ mem \in Memory /\ mem_size \in 0 .. MaxMem
  /\ {handler, dropped, faulted} \subseteq BOOLEAN
  /\ step \in {"idle", "busy"} /\ result \in {"none", "OK", "MemFault"}
  /\ accs \in Seq({"done", "dropped"}) /\ Len(accs) <= Len(Accesses)

\* Iterations done.
Count ==
  IF Repeated THEN start.cpu.rcx - cpu.rcx ELSE IF AtInstr \/ dropped THEN 0 ELSE 1

\* The address k elements on from a.
Along(i, a, k) == (a + k * (IF i.df THEN Space - Size ELSE Size)) % Space

\* The memory after k iterations of the instruction i from s on memory that is all there.
After(i, s) ==
  LET after[k \in 0 .. MaxCount] ==
        IF k = 0 \/ i.op \notin {"STOS", "MOVS"} THEN s.mem
        ELSE Put(after[k - 1], Along(i, s.cpu.rdi, k - 1),
                 IF i.op = "STOS" THEN s.cpu.rax
                 ELSE Get(after[k - 1], Along(i, s.cpu.rsi, k - 1)))
  IN after

Equal(i, s, k) ==
  Get(s.mem, Along(i, s.cpu.rdi, k)) =
    IF i.op = "SCAS" THEN s.cpu.rax ELSE Get(s.mem, Along(i, s.cpu.rsi, k))

\* The registers after k iterations, but for RCX and RIP.
Registers(i, s, k, c) ==
  /\ c.rsi = IF i.op \in {"LODS", "MOVS", "CMPS"} THEN Along(i, s.cpu.rsi, k) ELSE s.cpu.rsi
  /\ c.rdi = IF i.op = "LODS" THEN s.cpu.rdi ELSE Along(i, s.cpu.rdi, k)
  /\ c.rax = IF i.op = "LODS" /\ k > 0 THEN Get(s.mem, Along(i, s.cpu.rsi, k - 1))
             ELSE s.cpu.rax
  /\ c.zf = IF i.op \in Scans /\ k > 0 THEN Equal(i, s, k - 1) ELSE s.cpu.zf

\* At every moment, so at every call of the handler, at every MemFault and after a Skip, a
\* string instruction has done a whole number of iterations: registers, memory and RCX are
\* those of one that ran without faults for as long, and RIP is still at it or behind.
WholeIterations ==
  instr.op \in Strings =>
    /\ mem = After(instr, start)[Count]
    /\ Registers(instr, start, Count, cpu)
    /\ cpu.rip \in {start.cpu.rip, Plus(start.cpu.rip, 1)}

\* The k-th iteration is the one that ends a scan.
Ends(i, s, k) == i.op \in Scans /\ Equal(i, s, k - 1) = (i.rep = "F2")

\* A string instruction makes k iterations if nothing stops it: to the end of RCX, or to
\* the first element that ends a scan.
Due(i, s, k) ==
  IF i.rep = "none" THEN k = 1
  ELSE /\ k = s.cpu.rcx \/ (k > 0 /\ Ends(i, s, k))
       /\ \A j \in 1 .. k - 1 : ~Ends(i, s, j)

\* The effect of an instruction with plain operands on memory that is all there.
Executed(i, s, c, m) ==
  LET top == Minus(s.cpu.rsp, Size)
      source == IF i.op = "LOAD" THEN s.cpu.rsi
                ELSE IF i.op = "XCHG" THEN s.cpu.rdi ELSE s.cpu.rsp
  IN /\ c.rax = IF i.op \in {"LOAD", "XCHG", "POP"} THEN Get(s.mem, source) ELSE s.cpu.rax
     /\ i.op \in {"STORE", "XCHG"} => m = Put(s.mem, s.cpu.rdi, s.cpu.rax)
     /\ i.op = "PUSH" => m = Put(s.mem, top, s.cpu.rax) /\ c.rsp = top
     /\ i.op = "RETN" /\ Number[Get(s.mem, s.cpu.rsp)] # s.cpu.rip =>
          c.rip = Number[Get(s.mem, s.cpu.rsp)]

\* However often an instruction faulted, was called again or retried: once it is over, and
\* no access was skipped or given up, it has done all of what it does on memory that was
\* there from the start.
CompletesExactly ==
  ~AtInstr /\ ~dropped =>
    IF instr.op \in Strings THEN Due(instr, start, Count)
    ELSE instr.op # "PUSHF" => Executed(instr, start, cpu, mem)

\* No step writes a byte that is not there, at an address that wraps or otherwise.
UnmappedUntouched ==
  [][\A a \in Address : a >= mem_size => mem'[a] = mem[a]]_vars

=============================================================================

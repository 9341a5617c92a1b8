------------------------------- MODULE CfgWalk -------------------------------
(***************************************************************************)
(* Control-flow recovery: classify_flow, walk_basic_block and walk_cfg of  *)
(* lib/branch_follow/branch_follow.cpp.                                    *)
(*                                                                         *)
(* One walk over one memory.  The bytes are abstracted to the instruction  *)
(* that decodes at each address, which may be any function of the address: *)
(* instructions may overlap, run into unmapped memory or jump into the     *)
(* middle of others.  Addresses wrap like the code's uint64_t.             *)
(***************************************************************************)
EXTENDS Integers, Sequences, Functions

CONSTANTS
  Size,         \* number of addresses (2^64 in the code)
  Memories,     \* the memories to walk: functions from Addr to Instr or Unmapped
  Entries,      \* the entry addresses to start from
  Unmapped,     \* an address read_byte refuses
  max_blocks,   \* caps passed to walk_cfg
  max_insns

Addr == 0 .. Size - 1

\* What decode tells of the instruction at an address. "Jcc" is any mnemonic with
\* a RelOffset operand that is not JMP or CALL, "OTHER" any that the classifier
\* does not name, "BAD" bytes that do not decode.
Mnemonics == {"RET", "JMP", "CALL", "Jcc", "UD2", "INT", "HLT", "OTHER", "BAD"}
Instr ==
  {i \in [mnemonic : Mnemonics, length : 1 .. 15, rel : BOOLEAN, immediate : Addr] :
     /\ i.rel => i.mnemonic \in {"JMP", "CALL", "Jcc"}
     /\ i.mnemonic = "Jcc" => i.rel}

ASSUME CfgAssumption ==
  /\ Size \in Nat \ {0}
  /\ Unmapped \notin Instr
  /\ Memories \subseteq [Addr -> Instr \cup {Unmapped}]
  /\ Entries \subseteq Addr
  /\ max_blocks \in Nat
  /\ max_insns \in Nat

VARIABLES
  mem,        \* the memory behind read_byte
  entry,      \* the entry passed to walk_cfg
  pc,         \* "pop", "insn", "push" or "done": where walk_cfg is
  worklist,
  visited,
  cfg,        \* blocks found so far
  bb          \* the block walk_basic_block is building

vars == <<mem, entry, pc, worklist, visited, cfg, bb>>

-----------------------------------------------------------------------------
(* decode and classify_flow *)

Plus(a, n) == (a + n) % Size

Readable(m, a) == m[a] # Unmapped

\* The walker reads bytes until the first unreadable one, so an instruction that
\* runs into unmapped memory does not decode.
Decodes(m, a) ==
  /\ Readable(m, a)
  /\ m[a].mnemonic # "BAD"
  /\ \A j \in 0 .. m[a].length - 1 : Readable(m, Plus(a, j))

FlowType(m, a) ==
  IF ~Decodes(m, a) THEN "Unknown"
  ELSE CASE m[a].mnemonic = "RET" -> "Return"
         [] m[a].mnemonic = "JMP" -> "Branch"
         [] m[a].mnemonic = "CALL" -> "Call"
         [] m[a].mnemonic = "Jcc" -> "ConditionalBranch"
         [] m[a].mnemonic \in {"UD2", "INT", "HLT"} -> "Exception"
         [] OTHER -> "Sequential"

Length(m, a) == IF Decodes(m, a) THEN m[a].length ELSE 1

IsBranch(m, a) == FlowType(m, a) \in {"Branch", "Call", "ConditionalBranch"}

\* 0 when there is no static target: also when the target is address 0.
Target(m, a) ==
  IF IsBranch(m, a) /\ m[a].rel THEN Plus(Plus(a, m[a].length), m[a].immediate) ELSE 0

HasFallthrough(m, a) ==
  \/ FlowType(m, a) \in {"Sequential", "Call", "ConditionalBranch"}
  \/ FlowType(m, a) = "Exception" /\ m[a].mnemonic = "INT"

NextAddr(m, a) == Plus(a, Length(m, a))

-----------------------------------------------------------------------------
(* walk_cfg, with walk_basic_block step by step *)

NewBlock(a) == [start |-> a, end |-> a, instructions |-> <<>>, successors |-> <<>>]

Init ==
  /\ mem \in Memories
  /\ entry \in Entries
  /\ pc = "pop"
  /\ worklist = <<entry>>
  /\ visited = {}
  /\ cfg = <<>>
  /\ bb = NewBlock(entry)

Last(s) == s[Len(s)]
Front(s) == SubSeq(s, 1, Len(s) - 1)

\* Slip: an address popped twice is walked twice.
SkipVisited_Never ==
  /\ pc = "pop" /\ worklist # <<>> /\ Len(cfg) < max_blocks
  /\ Last(worklist) \in visited /\ worklist' = worklist
  /\ UNCHANGED <<mem, entry, pc, visited, cfg, bb>>

\* if (visited.count(addr)) continue
SkipVisited ==
  /\ pc = "pop" /\ worklist # <<>> /\ Len(cfg) < max_blocks
  /\ Last(worklist) \in visited
  /\ worklist' = Front(worklist)
  /\ UNCHANGED <<mem, entry, pc, visited, cfg, bb>>

\* Slip: the block is not entered into visited.
BeginBlock_Forgets ==
  /\ pc = "pop" /\ worklist # <<>> /\ Len(cfg) < max_blocks
  /\ Last(worklist) \notin visited
  /\ worklist' = Front(worklist)
  /\ bb' = NewBlock(Last(worklist))
  /\ pc' = "insn"
  /\ UNCHANGED <<mem, entry, cfg, visited>>

BeginBlock ==
  /\ pc = "pop" /\ worklist # <<>> /\ Len(cfg) < max_blocks
  /\ Last(worklist) \notin visited
  /\ worklist' = Front(worklist)
  /\ visited' = visited \cup {Last(worklist)}
  /\ bb' = NewBlock(Last(worklist))
  /\ pc' = "insn"
  /\ UNCHANGED <<mem, entry, cfg>>

\* The block ends without successors: max_insns reached or nothing readable.
StopBlock ==
  /\ pc = "insn"
  /\ Len(bb.instructions) = max_insns \/ ~Readable(mem, bb.end)
  /\ pc' = "push"
  /\ UNCHANGED <<mem, entry, worklist, visited, cfg, bb>>

Successors(m, a) ==
  (IF Target(m, a) # 0 THEN <<Target(m, a)>> ELSE <<>>)
    \o (IF HasFallthrough(m, a) THEN <<NextAddr(m, a)>> ELSE <<>>)

\* Slip: where the last instruction that max_insns allows leads is not recorded.
ReadInsn_CapFirst ==
  /\ pc = "insn" /\ Len(bb.instructions) < max_insns /\ Readable(mem, bb.end)
  /\ LET a == bb.end
         ends == FlowType(mem, a) # "Sequential"
     IN /\ bb' = [bb EXCEPT !.end = NextAddr(mem, a),
                            !.instructions = Append(@, a),
                            !.successors = IF ends /\ Len(bb.instructions) + 1 < max_insns
                                          THEN Successors(mem, a) ELSE @]
        /\ pc' = IF ends THEN "push" ELSE "insn"
  /\ UNCHANGED <<mem, entry, worklist, visited, cfg>>

\* One instruction of the block; the first that is not sequential ends it.
ReadInsn ==
  /\ pc = "insn" /\ Len(bb.instructions) < max_insns /\ Readable(mem, bb.end)
  /\ LET a == bb.end
         ends == FlowType(mem, a) # "Sequential"
     IN /\ bb' = [bb EXCEPT !.end = NextAddr(mem, a),
                            !.instructions = Append(@, a),
                            !.successors = IF ends THEN Successors(mem, a) ELSE @]
        /\ pc' = IF ends THEN "push" ELSE "insn"
  /\ UNCHANGED <<mem, entry, worklist, visited, cfg>>

Keep(a) == IF a \in visited THEN <<>> ELSE <<a>>

\* Slip: only the branch target is followed.
Unvisited_First(succ) == IF Len(succ) > 0 THEN Keep(succ[1]) ELSE <<>>

\* The loop over bb.successors, which are two at most.
Unvisited(succ) ==
  (IF Len(succ) > 0 THEN Keep(succ[1]) ELSE <<>>)
    \o (IF Len(succ) > 1 THEN Keep(succ[2]) ELSE <<>>)

PushSuccessors ==
  /\ pc = "push"
  /\ worklist' = worklist \o Unvisited(bb.successors)
  /\ cfg' = Append(cfg, bb)
  /\ pc' = "pop"
  /\ UNCHANGED <<mem, entry, visited, bb>>

Return ==
  /\ pc = "pop" /\ (worklist = <<>> \/ Len(cfg) >= max_blocks)
  /\ pc' = "done"
  /\ UNCHANGED <<mem, entry, worklist, visited, cfg, bb>>

Next ==
  \/ SkipVisited
  \/ BeginBlock
  \/ StopBlock
  \/ ReadInsn
  \/ PushSuccessors
  \/ Return

Spec == Init /\ [][Next]_vars
FairSpec == Spec /\ WF_vars(Next)

-----------------------------------------------------------------------------
(* What the walk promises *)

Block == [start : Addr, end : Addr, instructions : Seq(Addr), successors : Seq(Addr)]

\* Shape of the variables: only addresses are recorded, and at most max_blocks blocks.
TypeOK ==
  /\ mem \in Memories
  /\ entry \in Entries
  /\ pc \in {"pop", "insn", "push", "done"}
  /\ worklist \in Seq(Addr)
  /\ visited \subseteq Addr
  /\ cfg \in Seq(Block)
  /\ Len(cfg) <= max_blocks
  /\ bb \in Block
  /\ Len(bb.instructions) <= max_insns

\* Where control can go from a, said of the instruction itself: this is the
\* meaning of the code, and takes no part in the walk.
JumpsTo(m, a) ==
  IF Decodes(m, a) /\ m[a].mnemonic \in {"JMP", "CALL", "Jcc"} /\ m[a].rel
    THEN {Plus(Plus(a, m[a].length), m[a].immediate)} ELSE {}

FallsTo(m, a) ==
  IF Decodes(m, a) /\ m[a].mnemonic \notin {"RET", "JMP", "UD2", "HLT"}
    THEN {Plus(a, m[a].length)} ELSE {}

Flows(m, a) == JumpsTo(m, a) \cup FallsTo(m, a)

Closed(m, e, S) == e \in S /\ \A a \in S : Flows(m, a) \subseteq S

\* The addresses static control flow reaches from the entry.
ReachableFrom(m, e) ==
  {a \in Addr : \A S \in SUBSET Addr : Closed(m, e, S) => a \in S}

Reachable == ReachableFrom(mem, entry)

Covered == UNION {Range(b.instructions) : b \in Range(cfg)}

\* A block max_insns cut off after a sequential instruction.
Cut(b) == /\ Len(b.instructions) = max_insns
          /\ max_insns > 0 => FlowType(mem, Last(b.instructions)) = "Sequential"

\* No block goes on behind a, because the cap cut off each that got there.
CutOff(a) ==
  \A b \in Range(cfg) : a \in Range(b.instructions) => Cut(b) /\ Last(b.instructions) = a

\* The walk gives up two things: what follows where the cap cuts, and jumps to address 0.
Pursued(a) == (JumpsTo(mem, a) \ {0}) \cup (IF CutOff(a) THEN {} ELSE FallsTo(mem, a))

PursuedFrom(e) ==
  {a \in Addr : \A S \in SUBSET Addr :
                  e \in S /\ (\A x \in S : Pursued(x) \subseteq S) => a \in S}

Finished == pc = "done" /\ worklist = <<>>

\* A start identifies a block, although the worklist may hold an address any
\* number of times.
BlocksDistinct ==
  \A i, j \in DOMAIN cfg : cfg[i].start = cfg[j].start => i = j

OnlyReachable == Covered \subseteq Reachable

\* What is reported is code that control flow can reach, and no block of it is
\* reported twice.
ReportSound == BlocksDistinct /\ OnlyReachable

\* A walk that ends with its worklist empty has found all the code there is, but for what
\* is reached only behind an instruction at which the cap cut every block that holds it, or
\* only by a jump to address 0: neither loses anything else.
CompleteButForCuts ==
  Finished /\ max_insns > 0 =>
    \A a \in PursuedFrom(entry) : Readable(mem, a) => a \in Covered

\* Such a walk also starts a block at every successor any block names.
SuccessorsAreBlocks ==
  Finished => \A b \in Range(cfg) : \A s \in Range(b.successors) :
                \E c \in Range(cfg) : c.start = s

\* The walk ends, on any code.
WalkEnds == <>(pc = "done")
=============================================================================

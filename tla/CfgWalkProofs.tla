---------------------------- MODULE CfgWalkProofs ----------------------------
(***************************************************************************)
(* Proofs about CfgWalk for every memory, entry and pair of caps.          *)
(***************************************************************************)
EXTENDS CfgWalk, TLAPS

-----------------------------------------------------------------------------
(* Addresses and flow *)

\* Addresses wrap.
LEMMA PlusType ==
  ASSUME NEW a \in Nat, NEW n \in Nat
  PROVE  Plus(a, n) \in Addr /\ Plus(a, n) \in Nat
<1>1. Size \in Nat /\ Size > 0
  BY CfgAssumption
<1>2. a + n \in Nat
  OBVIOUS
<1> DEFINE k == a + n
<1>3. k % Size \in 0 .. Size - 1
  <2> HIDE DEF k
  <2>1. k \in Nat
    BY <1>2 DEF k
  <2>2. QED
    BY <1>1, <2>1
<1>4. Plus(a, n) \in 0 .. Size - 1
  BY <1>3 DEF Plus
<1>5. QED
  BY <1>4 DEF Addr

\* The fields of an instruction the memory holds.
LEMMA InstrType ==
  ASSUME NEW m \in Memories, NEW a \in Addr, Readable(m, a)
  PROVE  /\ m[a].mnemonic \in Mnemonics
         /\ m[a].length \in 1 .. 15
         /\ m[a].rel \in BOOLEAN
         /\ m[a].immediate \in Addr
         /\ m[a].rel => m[a].mnemonic \in {"JMP", "CALL", "Jcc"}
         /\ m[a].mnemonic = "Jcc" => m[a].rel
<1>1. m[a] \in Instr
  BY CfgAssumption DEF Readable
<1>2. QED
  BY <1>1 DEF Instr

\* The walker only computes addresses.
LEMMA FlowTypes ==
  ASSUME NEW m \in Memories, NEW a \in Addr, Readable(m, a)
  PROVE  NextAddr(m, a) \in Addr /\ Successors(m, a) \in Seq(Addr)
<1>1. a \in Nat /\ 1 \in Nat /\ 0 \in Addr
  BY CfgAssumption DEF Addr
<1>2. m[a].length \in Nat /\ m[a].immediate \in Nat
  BY InstrType DEF Addr
<1>3. NextAddr(m, a) \in Addr
  BY <1>1, <1>2, PlusType DEF NextAddr, Length
<1>4. Plus(a, m[a].length) \in Addr /\ Plus(a, m[a].length) \in Nat
  BY <1>1, <1>2, PlusType
<1>5. Target(m, a) \in Addr
  BY <1>1, <1>2, <1>4, PlusType DEF Target
<1>6. QED
  BY <1>3, <1>5 DEF Successors

\* Concatenation keeps the elements of both sequences.
LEMMA ConcatFacts ==
  ASSUME NEW S, NEW s \in Seq(S), NEW t \in Seq(S)
  PROVE  s \o t \in Seq(S) /\ Range(s \o t) = Range(s) \cup Range(t)
<1> DEFINE r == s \o t
<1>1. /\ r \in Seq(S)
      /\ DOMAIN r = 1 .. Len(s) + Len(t)
      /\ DOMAIN s = 1 .. Len(s)
      /\ DOMAIN t = 1 .. Len(t)
      /\ Len(s) \in Nat /\ Len(t) \in Nat
      /\ \A i \in 1 .. Len(s) + Len(t) : r[i] = IF i <= Len(s) THEN s[i] ELSE t[i - Len(s)]
  OBVIOUS
<1> HIDE DEF r
<1>2. ASSUME NEW i \in 1 .. Len(s) + Len(t)
      PROVE  r[i] \in Range(s) \cup Range(t)
  <2>1. CASE i <= Len(s)
    BY <1>1, <2>1 DEF Range
  <2>2. CASE i > Len(s)
    <3>1. i - Len(s) \in 1 .. Len(t) /\ r[i] = t[i - Len(s)]
      BY <1>1, <2>2
    <3>2. QED
      BY <1>1, <3>1 DEF Range
  <2>3. QED
    BY <1>1, <2>1, <2>2
<1>3. ASSUME NEW i \in 1 .. Len(s)
      PROVE  s[i] \in Range(r)
  BY <1>1 DEF Range
<1>4. ASSUME NEW i \in 1 .. Len(t)
      PROVE  t[i] \in Range(r)
  <2>1. /\ Len(s) + i \in 1 .. Len(s) + Len(t)
        /\ ~(Len(s) + i <= Len(s))
        /\ (Len(s) + i) - Len(s) = i
    BY <1>1
  <2>2. r[Len(s) + i] = t[i]
    BY <1>1, <2>1
  <2>3. QED
    BY <1>1, <2>1, <2>2 DEF Range
<1>5. Range(r) = Range(s) \cup Range(t)
  BY <1>1, <1>2, <1>3, <1>4 DEF Range
<1>6. QED
  BY <1>1, <1>5 DEF r

\* The empty sequence.
LEMMA EmptyRange == Range(<<>>) = {}
BY DEF Range

\* A sequence of one element.
LEMMA SingletonRange ==
  ASSUME NEW x
  PROVE  Range(<<x>>) = {x}
<1>1. DOMAIN <<x>> = {1} /\ <<x>>[1] = x
  OBVIOUS
<1>2. QED
  BY <1>1 DEF Range

\* The elements of the sequences Successors builds.
LEMMA ConcatRange ==
  ASSUME NEW x, NEW y
  PROVE  /\ Range(<<x>> \o <<y>>) = {x, y}
         /\ Range(<<x>> \o <<>>) = {x}
         /\ Range(<<>> \o <<y>>) = {y}
<1> DEFINE s == <<x>> \o <<y>>
<1>1. DOMAIN s = 1 .. 2 /\ s[1] = x /\ s[2] = y
  OBVIOUS
<1>2. Range(s) = {x, y}
  <2> HIDE DEF s
  <2>1. QED
    BY <1>1 DEF Range
<1>3. <<x>> \o <<>> = <<x>> /\ <<>> \o <<y>> = <<y>>
  OBVIOUS
<1>4. DOMAIN <<x>> = {1} /\ DOMAIN <<y>> = {1} /\ <<x>>[1] = x /\ <<y>>[1] = y
  OBVIOUS
<1>5. Range(<<x>>) = {x} /\ Range(<<y>>) = {y}
  BY <1>4 DEF Range
<1>6. QED
  BY <1>2, <1>3, <1>5

\* What classify_flow calls sequential goes on to the next instruction only, and
\* what ends a block goes exactly to the successors it names, but for address 0.
LEMMA FlowsOfSuccessors ==
  ASSUME NEW m \in Memories, NEW a \in Addr, Readable(m, a)
  PROVE  /\ FlowType(m, a) = "Sequential" => Flows(m, a) = {NextAddr(m, a)}
         /\ Range(Successors(m, a)) \subseteq Flows(m, a)
         /\ Flows(m, a) \subseteq Range(Successors(m, a)) \cup (JumpsTo(m, a) \cap {0})
<1>1. /\ m[a].mnemonic \in Mnemonics
      /\ m[a].rel \in BOOLEAN
      /\ m[a].rel => m[a].mnemonic \in {"JMP", "CALL", "Jcc"}
      /\ m[a].mnemonic = "Jcc" => m[a].rel
  BY InstrType
<1>2. Decodes(m, a) => NextAddr(m, a) = Plus(a, m[a].length)
  BY DEF NextAddr, Length
<1>3. FlowType(m, a) = "Sequential" => Flows(m, a) = {NextAddr(m, a)}
  BY <1>1, <1>2 DEF FlowType, Flows, JumpsTo, FallsTo, Mnemonics
<1>4. HasFallthrough(m, a) => FallsTo(m, a) = {NextAddr(m, a)}
  BY <1>1, <1>2 DEF HasFallthrough, FlowType, FallsTo
<1>5. ~HasFallthrough(m, a) => FallsTo(m, a) = {}
  BY <1>1 DEF HasFallthrough, FlowType, FallsTo, Mnemonics, Decodes
<1>6. Target(m, a) # 0 => JumpsTo(m, a) = {Target(m, a)}
  BY <1>1 DEF Target, IsBranch, FlowType, JumpsTo
<1>7. Target(m, a) = 0 => JumpsTo(m, a) \subseteq {0}
  BY <1>1 DEF Target, IsBranch, FlowType, JumpsTo
<1>8. Range(Successors(m, a)) = (IF Target(m, a) # 0 THEN {Target(m, a)} ELSE {})
                               \cup (IF HasFallthrough(m, a) THEN {NextAddr(m, a)} ELSE {})
  <2> DEFINE T == IF Target(m, a) # 0 THEN <<Target(m, a)>> ELSE <<>>
             F == IF HasFallthrough(m, a) THEN <<NextAddr(m, a)>> ELSE <<>>
  <2>1. Successors(m, a) = T \o F
    BY DEF Successors
  <2>2. CASE Target(m, a) # 0 /\ HasFallthrough(m, a)
    <3>1. Successors(m, a) = <<Target(m, a)>> \o <<NextAddr(m, a)>>
      BY <2>2 DEF Successors
    <3>2. Range(<<Target(m, a)>> \o <<NextAddr(m, a)>>) = {Target(m, a), NextAddr(m, a)}
      BY ConcatRange
    <3>3. Range(Successors(m, a)) = {Target(m, a), NextAddr(m, a)}
      BY <3>1, <3>2, Zenon
    <3>4. QED
      BY <2>2, <3>3
  <2>3. CASE Target(m, a) # 0 /\ ~HasFallthrough(m, a)
    <3>1. T = <<Target(m, a)>> /\ F = <<>>
      BY <2>3
    <3>2. QED
      BY <2>1, <2>3, <3>1, ConcatRange
  <2>4. CASE Target(m, a) = 0 /\ HasFallthrough(m, a)
    <3>1. T = <<>> /\ F = <<NextAddr(m, a)>>
      BY <2>4
    <3>2. QED
      BY <2>1, <2>4, <3>1, ConcatRange
  <2>5. CASE Target(m, a) = 0 /\ ~HasFallthrough(m, a)
    <3>1. T = <<>> /\ F = <<>>
      BY <2>5
    <3>2. QED
      BY <2>1, <2>5, <3>1 DEF Range
  <2>6. QED
    BY <2>2, <2>3, <2>4, <2>5
<1>9. QED
  BY <1>3, <1>4, <1>5, <1>6, <1>7, <1>8 DEF Flows

\* Flow leads to addresses.
LEMMA FlowsType ==
  ASSUME NEW m \in Memories, NEW a \in Addr
  PROVE  Flows(m, a) \subseteq Addr
<1>1. CASE ~Decodes(m, a)
  BY <1>1 DEF Flows, JumpsTo, FallsTo
<1>2. CASE Decodes(m, a)
  <2>1. Readable(m, a)
    BY <1>2 DEF Decodes
  <2>2. m[a].length \in Nat /\ m[a].immediate \in Nat /\ a \in Nat
    BY <2>1, InstrType DEF Addr
  <2>3. Plus(a, m[a].length) \in Addr /\ Plus(a, m[a].length) \in Nat
    BY <2>2, PlusType
  <2>4. Plus(Plus(a, m[a].length), m[a].immediate) \in Addr
    BY <2>2, <2>3, PlusType
  <2>5. QED
    BY <2>3, <2>4 DEF Flows, JumpsTo, FallsTo
<1>3. QED
  BY <1>1, <1>2

\* Reachable is closed: the entry is reachable and so is what a reachable
\* instruction flows to; and it is contained in every closed set.
LEMMA ReachableClosed ==
  ASSUME NEW m \in Memories, NEW e \in Addr
  PROVE  /\ e \in ReachableFrom(m, e)
         /\ ReachableFrom(m, e) \subseteq Addr
         /\ \A a \in ReachableFrom(m, e) : Flows(m, a) \subseteq ReachableFrom(m, e)
         /\ \A S \in SUBSET Addr : Closed(m, e, S) => ReachableFrom(m, e) \subseteq S
<1>1. e \in ReachableFrom(m, e)
  BY DEF ReachableFrom, Closed
<1>2. ASSUME NEW a \in ReachableFrom(m, e), NEW b \in Flows(m, a)
      PROVE  b \in ReachableFrom(m, e)
  <2>1. a \in Addr /\ b \in Addr
    BY <1>2, FlowsType DEF ReachableFrom
  <2>2. ASSUME NEW S \in SUBSET Addr, Closed(m, e, S)
        PROVE  b \in S
    BY <1>2, <2>2 DEF ReachableFrom, Closed
  <2>3. QED
    BY <2>1, <2>2 DEF ReachableFrom
<1>3. QED
  BY <1>1, <1>2 DEF ReachableFrom

\* What is left out of the successors pushed on the worklist has been visited.
LEMMA UnvisitedFacts ==
  ASSUME NEW s \in Seq(Addr), Len(s) <= 2
  PROVE  /\ Unvisited(s) \in Seq(Addr)
         /\ Range(Unvisited(s)) = Range(s) \ visited
<1>0. Len(s) \in Nat /\ DOMAIN s = 1 .. Len(s) /\ \A i \in 1 .. Len(s) : s[i] \in Addr
  OBVIOUS
<1>1. \A a \in Addr : Keep(a) \in Seq(Addr)
  BY DEF Keep
<1>2. \A a : Range(Keep(a)) = {a} \ visited
  BY SingletonRange DEF Keep, Range
<1>3. CASE Len(s) = 0
  <2>1. Unvisited(s) = <<>> /\ Unvisited(s) \in Seq(Addr)
    BY <1>3 DEF Unvisited
  <2>2. Range(s) = {}
    BY <1>0, <1>3 DEF Range
  <2>3. Range(Unvisited(s)) = {}
    BY <2>1, EmptyRange
  <2>4. QED
    BY <2>1, <2>2, <2>3
<1>4. CASE Len(s) = 1
  <2>0. s[1] \in Addr
    BY <1>0, <1>4
  <2>1. Unvisited(s) = Keep(s[1])
    <3>1. Keep(s[1]) \in Seq(Addr)
      BY <1>1, <2>0
    <3>2. Unvisited(s) = Keep(s[1]) \o <<>>
      BY <1>4 DEF Unvisited
    <3>3. QED
      BY <3>1, <3>2
  <2>2. Range(s) = {s[1]}
    BY <1>0, <1>4 DEF Range
  <2>3. QED
    BY <1>1, <1>2, <2>0, <2>1, <2>2
<1>5. CASE Len(s) = 2
  <2>1. s[1] \in Addr /\ s[2] \in Addr
    BY <1>0, <1>5
  <2>2. Keep(s[1]) \in Seq(Addr) /\ Keep(s[2]) \in Seq(Addr)
    BY <1>1, <2>1
  <2>3. Unvisited(s) = Keep(s[1]) \o Keep(s[2])
    BY <1>5 DEF Unvisited
  <2>4. /\ Unvisited(s) \in Seq(Addr)
        /\ Range(Unvisited(s)) = Range(Keep(s[1])) \cup Range(Keep(s[2]))
    BY <2>2, <2>3, ConcatFacts
  <2>5. Range(s) = {s[1], s[2]}
    BY <1>0, <1>5 DEF Range
  <2>6. QED
    BY <1>2, <2>4, <2>5
<1>6. QED
  BY <1>0, <1>3, <1>4, <1>5

\* pop_back and back.
LEMMA FrontLast ==
  ASSUME NEW S, NEW s \in Seq(S), s # <<>>
  PROVE  /\ Front(s) \in Seq(S)
         /\ Last(s) \in S
         /\ Range(s) = Range(Front(s)) \cup {Last(s)}
<1>1. /\ DOMAIN s = 1 .. Len(s)
      /\ Len(s) \in Nat /\ Len(s) > 0
      /\ \A i \in 1 .. Len(s) : s[i] \in S
  OBVIOUS
<1> DEFINE f == Front(s)
<1>2. /\ f \in Seq(S)
      /\ DOMAIN f = 1 .. Len(s) - 1
      /\ \A i \in 1 .. Len(s) - 1 : f[i] = s[i]
  BY <1>1 DEF Front
<1>3. Last(s) = s[Len(s)]
  BY DEF Last
<1> HIDE DEF f
<1>4. Range(s) = Range(f) \cup {Last(s)}
  BY <1>1, <1>2, <1>3 DEF Range
<1>5. QED
  BY <1>1, <1>2, <1>3, <1>4 DEF f

\* A block names at most two successors.
LEMMA SuccessorsFew ==
  ASSUME NEW m \in Memories, NEW a \in Addr, Readable(m, a)
  PROVE  Len(Successors(m, a)) <= 2
BY DEF Successors

-----------------------------------------------------------------------------
(* The inductive invariant *)

\* The instructions of b follow one another, and all but the last are sequential.
Path(m, b) ==
  /\ \A i \in DOMAIN b.instructions : Readable(m, b.instructions[i])
  /\ \A i \in DOMAIN b.instructions :
       IF i = Len(b.instructions)
         THEN b.end = NextAddr(m, b.instructions[i])
         ELSE /\ FlowType(m, b.instructions[i]) = "Sequential"
              /\ b.instructions[i + 1] = NextAddr(m, b.instructions[i])
  /\ IF Len(b.instructions) = 0 THEN b.end = b.start ELSE b.instructions[1] = b.start

AllSequential(m, b) ==
  \A i \in DOMAIN b.instructions : FlowType(m, b.instructions[i]) = "Sequential"

\* A block still being built.
Open(m, b) == Path(m, b) /\ AllSequential(m, b) /\ b.successors = <<>>

\* A block walk_basic_block has left by one of its exits.
Terminated(m, b) ==
  /\ Len(b.instructions) > 0
  /\ FlowType(m, Last(b.instructions)) # "Sequential"
  /\ b.successors = Successors(m, Last(b.instructions))

Stopped(m, b) ==
  /\ AllSequential(m, b)
  /\ b.successors = <<>>
  /\ Len(b.instructions) = max_insns \/ ~Readable(m, b.end)

Complete(m, b) == Path(m, b) /\ (Terminated(m, b) \/ Stopped(m, b))

\* Only addresses of R are read or remembered.
Within(R, b) ==
  /\ b.start \in R
  /\ Range(b.instructions) \subseteq R
  /\ Range(b.successors) \subseteq R

InProgress == pc \in {"insn", "push"}

\* What a step of the loop may rely on: room for the block, and no more than two
\* successors.
Room == InProgress => Len(cfg) < max_blocks /\ Len(bb.successors) <= 2

BlockShapes ==
  /\ \A i \in DOMAIN cfg : Complete(mem, cfg[i])
  /\ pc = "insn" => Open(mem, bb)
  /\ pc = "push" => Complete(mem, bb)

VisitedAreStarts ==
  /\ \A a \in visited :
       \/ \E i \in DOMAIN cfg : cfg[i].start = a
       \/ InProgress /\ bb.start = a
  /\ \A i \in DOMAIN cfg : cfg[i].start \in visited
  /\ InProgress => /\ bb.start \in visited
                   /\ \A i \in DOMAIN cfg : cfg[i].start # bb.start

Known == visited \cup Range(worklist)

NothingLost ==
  /\ entry \in Known
  /\ \A i \in DOMAIN cfg : Range(cfg[i].successors) \subseteq Known

Sound ==
  /\ Range(worklist) \subseteq Reachable
  /\ \A i \in DOMAIN cfg : Within(Reachable, cfg[i])
  /\ InProgress => Within(Reachable, bb)
  /\ pc = "insn" => bb.end \in Reachable

IInv == TypeOK /\ Room /\ BlockShapes /\ VisitedAreStarts /\ BlocksDistinct
          /\ NothingLost /\ Sound

\* The walk starts in the invariant.
LEMMA InitIInv == ASSUME Init PROVE IInv
<1>1. mem \in Memories /\ entry \in Addr /\ pc = "pop"
  BY CfgAssumption DEF Init
<1>2. TypeOK
  BY <1>1, CfgAssumption DEF Init, TypeOK, NewBlock, Block
<1>3. ~InProgress
  BY <1>1 DEF InProgress
<1>4. BlockShapes /\ VisitedAreStarts /\ BlocksDistinct /\ Room
  BY <1>1, <1>3 DEF Init, BlockShapes, VisitedAreStarts, BlocksDistinct, Room
<1>5. Range(worklist) = {entry}
  BY SingletonRange DEF Init
<1>6. NothingLost
  BY <1>5 DEF Init, NothingLost, Known
<1>7. entry \in Reachable
  BY <1>1, ReachableClosed DEF Reachable
<1>8. Sound
  BY <1>1, <1>3, <1>5, <1>7 DEF Init, Sound
<1>9. QED
  BY <1>2, <1>4, <1>6, <1>8 DEF IInv

\* Types are preserved by every step.
LEMMA TypeStep ==
  ASSUME TypeOK, Room, [Next]_vars
  PROVE  TypeOK'
<1> USE CfgAssumption DEF TypeOK
<1>1. ASSUME SkipVisited PROVE TypeOK'
  <2>1. Front(worklist) \in Seq(Addr)
    BY <1>1 DEF SkipVisited, Front
  <2>2. QED
    BY <1>1, <2>1 DEF SkipVisited
<1>2. ASSUME BeginBlock PROVE TypeOK'
  <2>1. Front(worklist) \in Seq(Addr) /\ Last(worklist) \in Addr
    BY <1>2 DEF BeginBlock, Front, Last
  <2>2. NewBlock(Last(worklist)) \in Block /\ Len(NewBlock(Last(worklist)).instructions) = 0
    BY <2>1 DEF NewBlock, Block
  <2>3. QED
    BY <1>2, <2>1, <2>2 DEF BeginBlock
<1>3. ASSUME StopBlock PROVE TypeOK'
  BY <1>3 DEF StopBlock
<1>4. ASSUME ReadInsn PROVE TypeOK'
  <2>1. bb.end \in Addr /\ bb.start \in Addr /\ bb.instructions \in Seq(Addr)
          /\ bb.successors \in Seq(Addr)
    BY DEF Block
  <2>2. NextAddr(mem, bb.end) \in Addr /\ Successors(mem, bb.end) \in Seq(Addr)
    BY <1>4, <2>1, FlowTypes DEF ReadInsn
  <2>3. /\ Append(bb.instructions, bb.end) \in Seq(Addr)
        /\ Len(Append(bb.instructions, bb.end)) <= max_insns
    BY <1>4, <2>1 DEF ReadInsn
  <2>4. /\ bb'.start = bb.start
        /\ bb'.end = NextAddr(mem, bb.end)
        /\ bb'.instructions = Append(bb.instructions, bb.end)
        /\ bb' \in Block
    BY <1>4, <2>1, <2>2, <2>3 DEF ReadInsn, Block
  <2>5. QED
    BY <1>4, <2>3, <2>4 DEF ReadInsn
<1>5. ASSUME PushSuccessors PROVE TypeOK'
  <2>1. Unvisited(bb.successors) \in Seq(Addr)
    BY <1>5, UnvisitedFacts DEF Block, PushSuccessors, Room, InProgress
  <2>2. /\ worklist' \in Seq(Addr)
        /\ cfg' \in Seq(Block)
        /\ Len(cfg') <= max_blocks
    BY <1>5, <2>1 DEF PushSuccessors, Room, InProgress
  <2>3. QED
    BY <1>5, <2>2 DEF PushSuccessors
<1>6. ASSUME Return PROVE TypeOK'
  BY <1>6 DEF Return
<1>7. CASE UNCHANGED vars
  BY <1>7 DEF vars
<1>8. QED
  BY <1>1, <1>2, <1>3, <1>4, <1>5, <1>6, <1>7 DEF Next

\* A worklist entry seen before can be dropped: it stays known.
LEMMA SkipVisitedStep ==
  ASSUME IInv, SkipVisited, TypeOK'
  PROVE  IInv'
<1>1. /\ mem' = mem /\ entry' = entry /\ pc = "pop" /\ pc' = "pop"
      /\ visited' = visited /\ cfg' = cfg /\ bb' = bb
      /\ worklist # <<>> /\ worklist' = Front(worklist)
      /\ Last(worklist) \in visited
  BY DEF SkipVisited
<1>2. ~InProgress /\ ~InProgress'
  BY <1>1 DEF InProgress
<1>3. Range(worklist) = Range(worklist') \cup {Last(worklist)}
  BY <1>1, FrontLast DEF IInv, TypeOK
<1>4. Room' /\ BlockShapes'
  BY <1>1, <1>2 DEF IInv, Room, BlockShapes
<1>5. VisitedAreStarts' /\ BlocksDistinct'
  BY <1>1, <1>2 DEF IInv, VisitedAreStarts, BlocksDistinct
<1>6. NothingLost'
  BY <1>1, <1>3 DEF IInv, NothingLost, Known
<1>7. Reachable' = Reachable
  BY <1>1 DEF Reachable
<1>8. Sound'
  BY <1>1, <1>2, <1>3, <1>7 DEF IInv, Sound
<1>9. QED
  BY <1>4, <1>5, <1>6, <1>8 DEF IInv

\* A new block takes its start off the worklist and marks it visited.
LEMMA BeginBlockStep ==
  ASSUME IInv, BeginBlock, TypeOK'
  PROVE  IInv'
<1> DEFINE a == Last(worklist)
<1>1. /\ mem' = mem /\ entry' = entry /\ pc = "pop" /\ pc' = "insn"
      /\ visited' = visited \cup {a} /\ cfg' = cfg /\ bb' = NewBlock(a)
      /\ worklist # <<>> /\ worklist' = Front(worklist)
      /\ a \notin visited /\ Len(cfg) < max_blocks
  BY DEF BeginBlock
<1>2. ~InProgress /\ InProgress'
  BY <1>1 DEF InProgress
<1>3. Range(worklist) = Range(worklist') \cup {a}
  BY <1>1, FrontLast DEF IInv, TypeOK
<1> HIDE DEF a
<1>4. /\ bb'.start = a /\ bb'.end = a /\ bb'.instructions = <<>> /\ bb'.successors = <<>>
  BY <1>1 DEF NewBlock
<1>5. Room'
  BY <1>1, <1>4 DEF Room
<1>6. Open(mem, bb')
  BY <1>4 DEF Open, Path, AllSequential
<1>7. BlockShapes'
  BY <1>1, <1>6 DEF IInv, BlockShapes
<1>8. VisitedAreStarts' /\ BlocksDistinct'
  BY <1>1, <1>2, <1>4 DEF IInv, VisitedAreStarts, BlocksDistinct
<1>9. NothingLost'
  BY <1>1, <1>3 DEF IInv, NothingLost, Known
<1>10. Reachable' = Reachable
  BY <1>1 DEF Reachable
<1>11. a \in Reachable
  BY <1>3 DEF IInv, Sound
<1>12. Within(Reachable, bb')
  BY <1>4, <1>11, EmptyRange DEF Within
<1>13. Sound'
  BY <1>1, <1>2, <1>3, <1>4, <1>10, <1>11, <1>12 DEF IInv, Sound
<1>14. QED
  BY <1>5, <1>7, <1>8, <1>9, <1>13 DEF IInv

\* A block that stops has its shape already.
LEMMA StopBlockStep ==
  ASSUME IInv, StopBlock, TypeOK'
  PROVE  IInv'
<1>1. /\ mem' = mem /\ entry' = entry /\ pc = "insn" /\ pc' = "push"
      /\ visited' = visited /\ cfg' = cfg /\ bb' = bb /\ worklist' = worklist
      /\ Len(bb.instructions) = max_insns \/ ~Readable(mem, bb.end)
  BY DEF StopBlock
<1>2. InProgress /\ InProgress'
  BY <1>1 DEF InProgress
<1>3. Complete(mem, bb)
  BY <1>1 DEF IInv, BlockShapes, Open, Complete, Stopped
<1>4. Room' /\ BlockShapes'
  BY <1>1, <1>2, <1>3 DEF IInv, Room, BlockShapes
<1>5. VisitedAreStarts' /\ BlocksDistinct' /\ NothingLost'
  BY <1>1, <1>2 DEF IInv, VisitedAreStarts, BlocksDistinct, NothingLost, Known
<1>6. Reachable' = Reachable
  BY <1>1 DEF Reachable
<1>7. Sound'
  BY <1>1, <1>2, <1>6 DEF IInv, Sound
<1>8. QED
  BY <1>4, <1>5, <1>7 DEF IInv

\* The part of the invariant that is not about the shape of blocks, for ReadInsn.
LEMMA ReadInsnRest ==
  ASSUME IInv, ReadInsn, TypeOK', BlockShapes', Room'
  PROVE  IInv'
<1> DEFINE a == bb.end
<1>1. /\ mem' = mem /\ entry' = entry /\ pc = "insn" /\ pc' \in {"insn", "push"}
      /\ visited' = visited /\ cfg' = cfg /\ worklist' = worklist
      /\ Readable(mem, a)
      /\ pc' = "insn" => FlowType(mem, a) = "Sequential"
  BY DEF ReadInsn
<1>2. InProgress /\ InProgress'
  BY <1>1 DEF InProgress
<1>3. mem \in Memories /\ entry \in Addr /\ a \in Addr /\ bb.instructions \in Seq(Addr)
  BY CfgAssumption DEF IInv, TypeOK, Block
<1>4. /\ bb'.start = bb.start /\ bb'.end = NextAddr(mem, a)
      /\ bb'.instructions = bb.instructions \o <<a>>
      /\ bb'.successors = bb.successors \/ bb'.successors = Successors(mem, a)
  BY DEF ReadInsn, IInv, TypeOK, Block
<1>5. VisitedAreStarts' /\ BlocksDistinct' /\ NothingLost'
  BY <1>1, <1>2, <1>4 DEF IInv, VisitedAreStarts, BlocksDistinct, NothingLost, Known
<1>6. Reachable' = Reachable
  BY <1>1 DEF Reachable
<1>7. a \in Reachable /\ Within(Reachable, bb)
  BY <1>1, <1>2 DEF IInv, Sound
<1> HIDE DEF a
<1>8. Flows(mem, a) \subseteq Reachable
  BY <1>3, <1>7, ReachableClosed DEF Reachable
<1>9. Range(bb'.instructions) \subseteq Reachable
  <2>1. <<a>> \in Seq(Addr)
    BY <1>3
  <2>2. Range(bb.instructions \o <<a>>) = Range(bb.instructions) \cup Range(<<a>>)
    BY <1>3, <2>1, ConcatFacts
  <2>3. QED
    BY <1>4, <1>7, <2>2, SingletonRange DEF Within
<1>10. Range(bb'.successors) \subseteq Reachable
  BY <1>1, <1>3, <1>4, <1>7, <1>8, FlowsOfSuccessors DEF Within
<1>11. pc' = "insn" => bb'.end \in Reachable
  BY <1>1, <1>3, <1>4, <1>8, FlowsOfSuccessors
<1>12. Within(Reachable, bb')
  BY <1>4, <1>7, <1>9, <1>10 DEF Within
<1>13. Sound'
  BY <1>1, <1>2, <1>6, <1>11, <1>12 DEF IInv, Sound
<1>14. QED
  BY <1>5, <1>13 DEF IInv

\* One more instruction extends the path of the block.
LEMMA ReadInsnStep ==
  ASSUME IInv, ReadInsn, TypeOK'
  PROVE  IInv'
<1> DEFINE a == bb.end
           ins == bb.instructions
           n == Len(ins)
           ins2 == bb'.instructions
<1>1. /\ mem' = mem /\ entry' = entry /\ pc = "insn" /\ pc' \in {"insn", "push"}
      /\ visited' = visited /\ cfg' = cfg /\ worklist' = worklist
      /\ Readable(mem, a)
      /\ pc' = IF FlowType(mem, a) # "Sequential" THEN "push" ELSE "insn"
  BY DEF ReadInsn
<1>2. InProgress /\ InProgress'
  BY <1>1 DEF InProgress
<1>3. mem \in Memories /\ entry \in Addr /\ a \in Addr /\ ins \in Seq(Addr)
  BY CfgAssumption DEF IInv, TypeOK, Block
<1>4. /\ bb'.start = bb.start /\ bb'.end = NextAddr(mem, a)
      /\ ins2 = Append(ins, a)
      /\ bb'.successors = IF FlowType(mem, a) # "Sequential"
                           THEN Successors(mem, a) ELSE bb.successors
  BY DEF ReadInsn, IInv, TypeOK, Block
<1>5. /\ n \in Nat /\ DOMAIN ins = 1 .. n
      /\ Len(ins2) = n + 1 /\ DOMAIN ins2 = 1 .. n + 1
      /\ ins2[n + 1] = a
      /\ \A i \in 1 .. n : ins2[i] = ins[i]
      /\ Last(ins2) = a
  BY <1>3, <1>4 DEF Last
<1>6. Open(mem, bb)
  BY <1>1 DEF IInv, BlockShapes
<1> HIDE DEF a, n, ins2
<1>7. Path(mem, bb')
  <2>1. \A i \in DOMAIN ins2 : Readable(mem, ins2[i])
    BY <1>1, <1>5, <1>6 DEF Open, Path
  <2>2. ASSUME NEW i \in 1 .. n + 1, i # n + 1
        PROVE  /\ FlowType(mem, ins2[i]) = "Sequential"
               /\ ins2[i + 1] = NextAddr(mem, ins2[i])
    <3>1. i \in 1 .. n /\ ins2[i] = ins[i]
      BY <1>5, <2>2
    <3>2. FlowType(mem, ins[i]) = "Sequential"
      BY <1>5, <1>6, <3>1 DEF Open, AllSequential
    <3>3. CASE i = n
      BY <1>5, <1>6, <3>1, <3>2, <3>3 DEF Open, Path, a, n
    <3>4. CASE i # n
      <4>1. i + 1 \in 1 .. n
        BY <1>5, <3>1, <3>4
      <4>2. ins[i + 1] = NextAddr(mem, ins[i])
        BY <1>5, <1>6, <3>1, <3>4 DEF Open, Path, n
      <4>3. QED
        BY <1>5, <3>1, <3>2, <4>1, <4>2
    <3>5. QED
      BY <3>3, <3>4
  <2>3. ins2[1] = bb'.start
    <3>1. CASE n = 0
      BY <1>4, <1>5, <1>6, <3>1 DEF Open, Path, a, n
    <3>2. CASE n > 0
      BY <1>4, <1>5, <1>6, <3>2 DEF Open, Path, n
    <3>3. QED
      BY <1>5, <3>1, <3>2
  <2>4. QED
    BY <1>4, <1>5, <2>1, <2>2, <2>3 DEF Path, ins2
<1>8. CASE FlowType(mem, a) = "Sequential"
  <2>1. Open(mem, bb')
    BY <1>4, <1>5, <1>6, <1>7, <1>8 DEF Open, AllSequential, ins2
  <2>2. QED
    <3>1. BlockShapes' /\ Room'
      BY <1>1, <1>2, <1>4, <1>8, <2>1 DEF IInv, BlockShapes, Room
    <3>2. QED
      BY <1>1, <1>2, <1>4, <1>8, <3>1, ReadInsnRest DEF a
<1>9. CASE FlowType(mem, a) # "Sequential"
  <2>1. Complete(mem, bb')
    BY <1>4, <1>5, <1>7, <1>9 DEF Complete, Terminated, ins2
  <2>2. Len(bb'.successors) <= 2
    BY <1>1, <1>3, <1>4, <1>9, SuccessorsFew
  <2>3. BlockShapes' /\ Room'
    BY <1>1, <1>2, <1>9, <2>1, <2>2 DEF IInv, BlockShapes, Room
  <2>4. QED
    BY <1>1, <1>2, <1>4, <2>3, ReadInsnRest DEF a
<1>10. QED
  BY <1>8, <1>9

\* A finished block joins cfg, and its successors the worklist unless visited.
LEMMA PushSuccessorsStep ==
  ASSUME IInv, PushSuccessors, TypeOK'
  PROVE  IInv'
<1>1. /\ mem' = mem /\ entry' = entry /\ pc = "push" /\ pc' = "pop"
      /\ visited' = visited /\ bb' = bb
      /\ worklist' = worklist \o Unvisited(bb.successors)
      /\ cfg' = Append(cfg, bb)
  BY DEF PushSuccessors
<1>2. InProgress /\ ~InProgress'
  BY <1>1 DEF InProgress
<1>3. /\ cfg \in Seq(Block) /\ bb \in Block /\ worklist \in Seq(Addr)
      /\ bb.successors \in Seq(Addr) /\ Len(bb.successors) <= 2
  BY <1>2 DEF IInv, TypeOK, Block, Room
<1>4. Range(worklist') = Range(worklist) \cup (Range(bb.successors) \ visited)
  <2>1. /\ Unvisited(bb.successors) \in Seq(Addr)
        /\ Range(Unvisited(bb.successors)) = Range(bb.successors) \ visited
    BY <1>3, UnvisitedFacts
  <2>2. QED
    BY <1>1, <1>3, <2>1, ConcatFacts
<1>5. /\ Len(cfg) \in Nat
      /\ DOMAIN cfg = 1 .. Len(cfg)
      /\ DOMAIN cfg' = 1 .. Len(cfg) + 1
      /\ cfg'[Len(cfg) + 1] = bb
      /\ \A i \in 1 .. Len(cfg) : cfg'[i] = cfg[i]
  BY <1>1, <1>3
<1>6. \A i \in DOMAIN cfg' : (i \in DOMAIN cfg /\ cfg'[i] = cfg[i]) \/ cfg'[i] = bb
  BY <1>5
<1>7. Room' /\ BlockShapes'
  BY <1>1, <1>2, <1>6 DEF IInv, Room, BlockShapes
<1>8. VisitedAreStarts'
  <2>1. ASSUME NEW v \in visited
        PROVE  \E i \in DOMAIN cfg' : cfg'[i].start = v
    BY <1>5 DEF IInv, VisitedAreStarts
  <2>2. \A i \in DOMAIN cfg' : cfg'[i].start \in visited
    BY <1>2, <1>6 DEF IInv, VisitedAreStarts
  <2>3. QED
    BY <1>1, <1>2, <2>1, <2>2 DEF VisitedAreStarts
<1>9. BlocksDistinct'
  <2>1. /\ \A i, j \in 1 .. Len(cfg) : cfg[i].start = cfg[j].start => i = j
        /\ \A i \in 1 .. Len(cfg) : cfg[i].start # bb.start
    BY <1>2, <1>5 DEF IInv, BlocksDistinct, VisitedAreStarts
  <2>2. ASSUME NEW i \in 1 .. Len(cfg) + 1, NEW j \in 1 .. Len(cfg) + 1,
               cfg'[i].start = cfg'[j].start
        PROVE  i = j
    BY <1>5, <2>1, <2>2
  <2>3. QED
    BY <1>5, <2>2 DEF BlocksDistinct
<1>10. NothingLost'
  <2>1. Known \subseteq Known' /\ Range(bb.successors) \subseteq Known'
    BY <1>1, <1>4 DEF Known
  <2>2. QED
    BY <1>1, <1>6, <2>1 DEF IInv, NothingLost
<1>11. Reachable' = Reachable
  BY <1>1 DEF Reachable
<1>12. Within(Reachable, bb) /\ Range(bb.successors) \subseteq Reachable
  BY <1>2 DEF IInv, Sound, Within
<1>13. Sound'
  BY <1>1, <1>2, <1>4, <1>6, <1>11, <1>12 DEF IInv, Sound
<1>14. QED
  BY <1>7, <1>8, <1>9, <1>10, <1>13 DEF IInv

\* Returning changes nothing but the program counter.
LEMMA ReturnStep ==
  ASSUME IInv, Return, TypeOK'
  PROVE  IInv'
<1>1. /\ mem' = mem /\ entry' = entry /\ pc = "pop" /\ pc' = "done"
      /\ visited' = visited /\ cfg' = cfg /\ bb' = bb /\ worklist' = worklist
  BY DEF Return
<1>2. ~InProgress /\ ~InProgress'
  BY <1>1 DEF InProgress
<1>3. Reachable' = Reachable
  BY <1>1 DEF Reachable
<1>4. QED
  BY <1>1, <1>2, <1>3
    DEF IInv, Room, BlockShapes, VisitedAreStarts, BlocksDistinct, NothingLost,
        Known, Sound

\* Every step preserves the invariant.
LEMMA NextIInv ==
  ASSUME IInv, [Next]_vars
  PROVE  IInv'
<1>1. TypeOK'
  BY TypeStep DEF IInv
<1>2. CASE UNCHANGED vars
  <2>1. Reachable' = Reachable /\ InProgress' = InProgress
    BY <1>2 DEF vars, Reachable, InProgress
  <2>2. QED
    BY <1>1, <1>2, <2>1
      DEF vars, IInv, Room, BlockShapes, VisitedAreStarts, BlocksDistinct,
          NothingLost, Known, Sound
<1>3. QED
  BY <1>1, <1>2, SkipVisitedStep, BeginBlockStep, StopBlockStep, ReadInsnStep,
     PushSuccessorsStep, ReturnStep DEF Next

-----------------------------------------------------------------------------
(* The theorems *)

\* IInv holds throughout every walk.
LEMMA Invariance == Spec => []IInv
<1>1. Init => IInv
  BY InitIInv
<1>2. IInv /\ [Next]_vars => IInv'
  BY NextIInv
<1>3. QED
  BY <1>1, <1>2, PTL DEF Spec

\* Every walk keeps the types of walk_cfg's variables and both of its caps.
THEOREM TypeCorrect == Spec => []TypeOK
<1>1. IInv => TypeOK
  BY DEF IInv
<1>2. QED
  BY <1>1, Invariance, PTL

\* The elements of the blocks found.
LEMMA CoveredFacts ==
  ASSUME NEW a
  PROVE  a \in Covered <=> \E i \in DOMAIN cfg :
                             \E j \in DOMAIN cfg[i].instructions : cfg[i].instructions[j] = a
BY DEF Covered, Range

\* walk_cfg reports nothing that control flow cannot reach from the entry, and
\* no block twice, whatever the code and however often an address is pushed.
THEOREM WalkIsSound == Spec => []ReportSound
<1>1. IInv => ReportSound
  <2>1. ASSUME IInv, NEW a \in Covered
        PROVE  a \in Reachable
    BY <2>1, CoveredFacts DEF IInv, Sound, Within, Range
  <2>2. QED
    BY <2>1 DEF ReportSound, OnlyReachable, IInv
<1>2. QED
  BY <1>1, Invariance, PTL

\* walk_cfg that ends with an empty worklist has a block at every successor.
THEOREM WalkIsClosed == Spec => []SuccessorsAreBlocks
<1>1. IInv => SuccessorsAreBlocks
  <2>1. ASSUME IInv, Finished, NEW i \in DOMAIN cfg, NEW s \in Range(cfg[i].successors)
        PROVE  \E c \in Range(cfg) : c.start = s
    <3>1. s \in visited /\ ~InProgress
      BY <2>1, EmptyRange DEF IInv, NothingLost, Known, Finished, InProgress
    <3>2. QED
      BY <2>1, <3>1 DEF IInv, VisitedAreStarts, Range
  <2>2. QED
    BY <2>1 DEF SuccessorsAreBlocks, Range
<1>2. QED
  BY <1>1, Invariance, PTL

\* A block covers its start, unless the start is unreadable.
LEMMA StartCovered ==
  ASSUME IInv, max_insns > 0, NEW i \in DOMAIN cfg
  PROVE  cfg[i].start \in Covered \/ ~Readable(mem, cfg[i].start)
<1> DEFINE b == cfg[i]
<1>1. Complete(mem, b) /\ b \in Block
  BY DEF IInv, TypeOK, BlockShapes, Range
<1>2. Len(b.instructions) \in Nat /\ DOMAIN b.instructions = 1 .. Len(b.instructions)
  BY <1>1 DEF Block
<1>3. CASE Len(b.instructions) > 0
  <2>1. b.instructions[1] = b.start /\ 1 \in DOMAIN b.instructions
    BY <1>1, <1>2, <1>3 DEF Complete, Path
  <2>2. QED
    BY <2>1, CoveredFacts
<1>4. CASE Len(b.instructions) = 0
  <2>1. b.end = b.start /\ ~Terminated(mem, b)
    BY <1>1, <1>4 DEF Complete, Path, Terminated
  <2>2. ~Readable(mem, b.end)
    BY <1>1, <1>4, <2>1, CfgAssumption DEF Complete, Stopped
  <2>3. QED
    BY <2>1, <2>2
<1>5. QED
  BY <1>2, <1>3, <1>4

\* An instruction that falls through into the next block names it as a successor.
LEMMA FallsToSuccessor ==
  ASSUME NEW m \in Memories, NEW a \in Addr, NEW f \in FallsTo(m, a),
         FlowType(m, a) # "Sequential"
  PROVE  f \in Range(Successors(m, a))
<1>1. Decodes(m, a) /\ f = NextAddr(m, a) /\ m[a].mnemonic \notin {"RET", "JMP", "UD2", "HLT"}
  BY DEF FallsTo, NextAddr, Length
<1>2. HasFallthrough(m, a)
  BY <1>1 DEF HasFallthrough, FlowType
<1>3. CASE Target(m, a) = 0
  <2>1. Successors(m, a) = <<f>>
    BY <1>1, <1>2, <1>3 DEF Successors
  <2>2. QED
    BY <2>1 DEF Range
<1>4. CASE Target(m, a) # 0
  <2>1. Successors(m, a) = <<Target(m, a)>> \o <<f>>
    BY <1>1, <1>2, <1>4 DEF Successors
  <2>2. Successors(m, a)[2] = f /\ 2 \in DOMAIN Successors(m, a)
    BY <2>1
  <2>3. QED
    BY <2>2 DEF Range
<1>5. QED
  BY <1>3, <1>4

\* What is pursued of a covered instruction is covered, starts a block, or cannot be read.
LEMMA FlowCovered ==
  ASSUME IInv, Finished, NEW a \in Covered, NEW f \in Pursued(a)
  PROVE  f \in Covered \/ f \in visited \/ ~Readable(mem, f)
<1>1. PICK i \in DOMAIN cfg :
        /\ \E j \in DOMAIN cfg[i].instructions : cfg[i].instructions[j] = a
        /\ \/ f \in JumpsTo(mem, a) \ {0}
           \/ f \in FallsTo(mem, a) /\ ~(Cut(cfg[i]) /\ Last(cfg[i].instructions) = a)
  <2>1. CASE f \in JumpsTo(mem, a) \ {0}
    BY <2>1, CoveredFacts
  <2>2. CASE f \in FallsTo(mem, a) /\ ~CutOff(a)
    <3>1. PICK b \in Range(cfg) :
            a \in Range(b.instructions) /\ ~(Cut(b) /\ Last(b.instructions) = a)
      BY <2>2 DEF CutOff
    <3>2. PICK i \in DOMAIN cfg : cfg[i] = b
      BY DEF Range
    <3>3. \E j \in DOMAIN cfg[i].instructions : cfg[i].instructions[j] = a
      BY <3>1, <3>2 DEF Range
    <3>4. QED
      BY <2>2, <3>1, <3>2, <3>3
  <2>3. QED
    BY <2>1, <2>2 DEF Pursued
<1>2. PICK j \in DOMAIN cfg[i].instructions : cfg[i].instructions[j] = a
  BY <1>1
<1> DEFINE b == cfg[i]
           n == Len(b.instructions)
<1>3. Complete(mem, b) /\ b \in Block /\ b.instructions \in Seq(Addr)
  <2>1. Complete(mem, b) /\ b \in Block
    BY DEF IInv, TypeOK, BlockShapes, Range
  <2>2. QED
    BY <2>1 DEF Block
<1>4. /\ n \in Nat /\ DOMAIN b.instructions = 1 .. n /\ j \in 1 .. n /\ a \in Addr
      /\ Readable(mem, a) /\ mem \in Memories /\ f \in Flows(mem, a)
  BY <1>1, <1>2, <1>3 DEF Complete, Path, IInv, TypeOK, Flows
<1>5. /\ \/ f \in JumpsTo(mem, a) \ {0}
         \/ f \in FallsTo(mem, a) /\ ~(Cut(b) /\ Last(b.instructions) = a)
      /\ b.instructions[j] = a
  BY <1>1, <1>2
<1>6. worklist = <<>> /\ Range(b.successors) \subseteq Known
  BY DEF IInv, NothingLost, Finished
<1>7. CASE j # n
  <2>1. /\ FlowType(mem, a) = "Sequential"
        /\ b.instructions[j + 1] = NextAddr(mem, a)
        /\ j + 1 \in DOMAIN b.instructions
    <3> HIDE DEF b
    <3> QED
      BY <1>3, <1>4, <1>5, <1>7 DEF Complete, Path
  <2>2. f = b.instructions[j + 1]
    BY <1>4, <2>1, FlowsOfSuccessors
  <2>3. QED
    BY <2>1, <2>2, CoveredFacts
<1> HIDE DEF b, n
<1>8. CASE j = n /\ Terminated(mem, b)
  <2>1. b.successors = Successors(mem, a) /\ FlowType(mem, a) # "Sequential"
    BY <1>5, <1>8 DEF Terminated, Last, n
  <2>2. f \in Range(b.successors)
    <3>1. CASE f \in JumpsTo(mem, a) \ {0}
      BY <1>4, <2>1, <3>1, FlowsOfSuccessors
    <3>2. CASE f \in FallsTo(mem, a)
      BY <1>4, <2>1, <3>2, FallsToSuccessor
    <3>3. QED
      BY <1>5, <3>1, <3>2
  <2>3. QED
    BY <1>6, <2>2, EmptyRange DEF Known
<1>9. CASE j = n /\ Stopped(mem, b)
  <2>1. FlowType(mem, a) = "Sequential" /\ a = Last(b.instructions)
    BY <1>4, <1>5, <1>9 DEF Stopped, AllSequential, Last, n
  <2>2. b.end = NextAddr(mem, a)
    BY <1>3, <1>4, <1>5, <1>9 DEF Complete, Path, n
  <2>3. f = b.end
    BY <1>4, <2>1, <2>2, FlowsOfSuccessors
  <2>4. JumpsTo(mem, a) = {}
    BY <2>1 DEF JumpsTo, FlowType
  <2>5. ~Readable(mem, b.end)
    BY <1>3, <1>5, <1>9, <2>1, <2>4 DEF Stopped, Cut
  <2>6. QED
    BY <2>3, <2>5
<1>10. QED
  BY <1>3, <1>7, <1>8, <1>9 DEF Complete

\* A walk that ends with an empty worklist has covered all the readable code it pursued:
\* only where the instruction cap cuts, and at jumps to address 0, is anything given up.
THEOREM WalkIsComplete == Spec => []CompleteButForCuts
<1>1. ASSUME IInv, Finished, max_insns > 0, NEW r \in PursuedFrom(entry), Readable(mem, r)
      PROVE  r \in Covered
  <2> DEFINE S == {a \in Addr : a \in Covered \/ ~Readable(mem, a)}
  <2>1. mem \in Memories /\ entry \in Addr /\ ~InProgress /\ worklist = <<>>
    BY <1>1, CfgAssumption DEF IInv, TypeOK, Finished, InProgress
  <2>2. ASSUME NEW v \in visited
        PROVE  v \in Covered \/ ~Readable(mem, v)
    <3>1. PICK i \in DOMAIN cfg : cfg[i].start = v
      BY <1>1, <2>1 DEF IInv, VisitedAreStarts
    <3>2. QED
      BY <1>1, <3>1, StartCovered
  <2>3. entry \in S
    <3>1. entry \in visited
      BY <1>1, <2>1, EmptyRange DEF IInv, NothingLost, Known
    <3>2. QED
      BY <2>1, <2>2, <3>1
  <2>4. ASSUME NEW a \in S, NEW f \in Pursued(a)
        PROVE  f \in S
    <3>1. f \in Addr
      BY <2>1, <2>4, FlowsType DEF Pursued, Flows
    <3>2. CASE ~Readable(mem, a)
      BY <2>4, <3>2 DEF Pursued, JumpsTo, FallsTo, Decodes
    <3>3. CASE a \in Covered
      <4>1. f \in Covered \/ f \in visited \/ ~Readable(mem, f)
        BY <1>1, <2>4, <3>3, FlowCovered
      <4>2. QED
        BY <2>2, <3>1, <4>1
    <3>4. QED
      BY <2>4, <3>2, <3>3
  <2>5. r \in S
    BY <1>1, <2>3, <2>4 DEF PursuedFrom
  <2>6. QED
    BY <1>1, <2>5
<1>2. IInv => CompleteButForCuts
  BY <1>1 DEF CompleteButForCuts
<1>3. QED
  BY <1>2, Invariance, PTL

-----------------------------------------------------------------------------
(* The walk is bounded *)

BlocksLeft == max_blocks - Len(cfg) - (IF InProgress THEN 1 ELSE 0)

\* Steps the block under construction may still take, with room for the two
\* successors it may push.
Stage ==
  CASE pc = "done" -> 0
    [] pc = "pop" -> 1
    [] pc = "push" -> 4
    [] pc = "insn" -> 5 + max_insns - Len(bb.instructions)

PerBlock == max_insns + 4

StepsLeft == BlocksLeft * PerBlock + Len(worklist) + Stage

StepBound == max_blocks * PerBlock + 2

\* The part of the sum that counts blocks.
LEMMA OneBlockLess ==
  ASSUME NEW n \in Int, NEW k \in Int
  PROVE  (n - 1) * k = n * k - k
OBVIOUS

\* At most two addresses are pushed for a block.
LEMMA UnvisitedFew ==
  ASSUME NEW s \in Seq(Addr)
  PROVE  Len(Unvisited(s)) \in 0 .. 2
BY DEF Unvisited, Keep

LEMMA FrontShorter ==
  ASSUME NEW s \in Seq(Addr), s # <<>>
  PROVE  Len(s) \in Nat /\ Len(Front(s)) = Len(s) - 1
<1>1. Len(s) \in Nat /\ Len(s) > 0
  OBVIOUS
<1> DEFINE n == Len(s)
           f == SubSeq(s, 1, n - 1)
<1>2. f \in Seq(Addr) /\ DOMAIN f = 1 .. n - 1 /\ DOMAIN f = 1 .. Len(f) /\ Len(f) \in Nat
  BY <1>1
<1>3. Front(s) = f /\ n \in Nat /\ n > 0
  BY <1>1 DEF Front
<1> HIDE DEF f, n
<1>4. Len(f) = n - 1
  BY <1>2, <1>3
<1>5. QED
  BY <1>3, <1>4 DEF n

\* The terms of the sum.
LEMMA TermTypes ==
  ASSUME IInv
  PROVE  BlocksLeft \in Nat /\ PerBlock \in Nat /\ Len(worklist) \in Nat /\ Stage \in Nat
<1>1. /\ max_blocks \in Nat /\ max_insns \in Nat /\ Len(cfg) \in Nat /\ Len(cfg) <= max_blocks
      /\ pc \in {"pop", "insn", "push", "done"}
      /\ Len(worklist) \in Nat
  BY CfgAssumption DEF IInv, TypeOK
<1>2. InProgress => Len(cfg) < max_blocks
  BY DEF IInv, Room
<1>3. Len(bb.instructions) \in Nat /\ Len(bb.instructions) <= max_insns
  BY DEF IInv, TypeOK, Block
<1>4. BlocksLeft \in Nat /\ PerBlock \in Nat
  BY <1>1, <1>2 DEF BlocksLeft, PerBlock
<1>5. Stage \in Nat
  BY <1>1, <1>3 DEF Stage
<1>6. QED
  BY <1>1, <1>4, <1>5

LEMMA ProductType ==
  ASSUME NEW n \in Nat, NEW k \in Nat
  PROVE  n * k \in Nat
OBVIOUS

\* The sum is a natural number.
LEMMA StepsNat == IInv => StepsLeft \in Nat
<1> SUFFICES ASSUME IInv PROVE StepsLeft \in Nat
  OBVIOUS
<1> DEFINE p == BlocksLeft * PerBlock
<1>1. p \in Nat
  BY TermTypes, ProductType
<1> HIDE DEF p
<1>2. p + Len(worklist) + Stage \in Nat
  BY <1>1, TermTypes
<1>3. QED
  BY <1>2 DEF StepsLeft, p

\* Between blocks it is the worklist and the stage that count.
LEMMA SameBlocks ==
  ASSUME IInv, BlocksLeft' = BlocksLeft,
         NEW w \in Nat, NEW s \in Nat, NEW v \in Nat, NEW t \in Nat,
         Len(worklist) = w, Len(worklist') = v, Stage = s, Stage' = t,
         v + t < w + s
  PROVE  StepsLeft' < StepsLeft
<1> DEFINE p == BlocksLeft * PerBlock
<1>1. PerBlock' = PerBlock
  BY DEF PerBlock
<1>2. p \in Nat
  BY TermTypes, ProductType
<1>3. StepsLeft = p + w + s /\ StepsLeft' = p + v + t
  BY <1>1 DEF StepsLeft
<1> HIDE DEF p
<1>4. QED
  BY <1>2, <1>3

\* Every step of the walk leaves less to do.
LEMMA StepsFall ==
  ASSUME IInv, Next
  PROVE  StepsLeft' < StepsLeft
<1> DEFINE w == Len(worklist)
           n == Len(bb.instructions)
<1>0. /\ max_blocks \in Nat /\ max_insns \in Nat /\ Len(cfg) \in Nat
      /\ worklist \in Seq(Addr) /\ w \in Nat
      /\ cfg \in Seq(Block)
      /\ n \in Nat /\ n <= max_insns
      /\ bb.instructions \in Seq(Addr)
      /\ bb.successors \in Seq(Addr)
  BY CfgAssumption DEF IInv, TypeOK, Block
<1>1. CASE SkipVisited
  <2>1. BlocksLeft' = BlocksLeft /\ Stage' = 1 /\ Stage = 1
    BY <1>1 DEF SkipVisited, BlocksLeft, InProgress, Stage
  <2>2. Len(worklist') = w - 1 /\ w > 0
    BY <1>0, <1>1, FrontShorter DEF SkipVisited
  <2> DEFINE v == Len(worklist')
  <2>3. v = w - 1 /\ v \in Nat
    BY <1>0, <2>2
  <2> HIDE DEF v
  <2>4. v + 1 < w + 1
    BY <1>0, <2>3
  <2>5. QED
    BY <1>0, <2>1, <2>3, <2>4, SameBlocks DEF v
<1>2. CASE BeginBlock
  <2>1. /\ BlocksLeft' = BlocksLeft - 1
        /\ Stage = 1 /\ Stage' = 5 + max_insns
    <3>1. pc = "pop" /\ pc' = "insn" /\ cfg' = cfg /\ bb'.instructions = <<>>
      BY <1>2 DEF BeginBlock, NewBlock
    <3>2. ~InProgress /\ InProgress'
      BY <3>1 DEF InProgress
    <3>3. Len(bb'.instructions) = 0
      BY <3>1
    <3>4. BlocksLeft' = BlocksLeft - 1
      BY <1>0, <3>1, <3>2 DEF BlocksLeft
    <3>5. Stage = 1 /\ Stage' = 5 + max_insns
      BY <1>0, <3>1, <3>3 DEF Stage
    <3>6. QED
      BY <3>4, <3>5
  <2>2. Len(worklist') = w - 1
    BY <1>0, <1>2, FrontShorter DEF BeginBlock
  <2> DEFINE p == BlocksLeft * PerBlock
             q == (BlocksLeft - 1) * PerBlock
  <2>3. BlocksLeft \in Nat /\ PerBlock \in Nat /\ p \in Nat
    BY TermTypes, ProductType
  <2>4. q = p - PerBlock
    BY <2>3, OneBlockLess
  <2>5. StepsLeft = p + w + 1 /\ StepsLeft' = q + (w - 1) + (5 + max_insns)
    BY <2>1, <2>2 DEF StepsLeft, PerBlock
  <2>6. PerBlock = max_insns + 4
    BY DEF PerBlock
  <2> HIDE DEF p, q, w
  <2>7. QED
    BY <1>0, <2>3, <2>4, <2>5, <2>6
<1>3. CASE StopBlock
  <2>1. pc = "insn" /\ pc' = "push" /\ cfg' = cfg /\ worklist' = worklist
    BY <1>3 DEF StopBlock
  <2>2. BlocksLeft' = BlocksLeft /\ Len(worklist') = w
    BY <2>1 DEF BlocksLeft, InProgress
  <2> DEFINE s == 5 + max_insns - n
  <2>3. Stage' = 4 /\ Stage = s
    BY <2>1 DEF Stage
  <2>4. s \in Nat /\ w + 4 < w + s
    <3> HIDE DEF w, n
    <3>1. QED
      BY <1>0
  <2> HIDE DEF s
  <2>5. QED
    BY <1>0, <2>2, <2>3, <2>4, SameBlocks
<1>4. CASE ReadInsn
  <2>1. /\ pc = "insn" /\ pc' \in {"insn", "push"} /\ cfg' = cfg /\ worklist' = worklist
        /\ bb'.instructions = Append(bb.instructions, bb.end)
        /\ n < max_insns
    BY <1>4 DEF ReadInsn, IInv, TypeOK, Block
  <2>2. BlocksLeft' = BlocksLeft /\ Len(worklist') = w
    BY <2>1 DEF BlocksLeft, InProgress
  <2>3. Len(bb'.instructions) = n + 1
    BY <1>0, <2>1
  <2> DEFINE s == 5 + max_insns - n
             t == Stage'
  <2>4. Stage = s /\ t \in {4, 5 + max_insns - (n + 1)}
    BY <2>1, <2>3 DEF Stage
  <2> HIDE DEF t
  <2>5. s \in Nat /\ t \in Nat /\ w + t < w + s
    <3> HIDE DEF w, n
    <3>1. QED
      BY <1>0, <2>1, <2>4
  <2> HIDE DEF s
  <2>6. QED
    BY <1>0, <2>2, <2>4, <2>5, SameBlocks DEF t
<1>5. CASE PushSuccessors
  <2> DEFINE u == Unvisited(bb.successors)
             k == Len(u)
  <2>1. /\ pc = "push" /\ pc' = "pop" /\ cfg' = Append(cfg, bb)
        /\ worklist' = worklist \o u
    BY <1>5 DEF PushSuccessors
  <2>2. Len(cfg') = Len(cfg) + 1
    BY <1>0, <2>1
  <2>3. InProgress /\ ~InProgress'
    BY <2>1 DEF InProgress
  <2>4. BlocksLeft' = BlocksLeft
    BY <1>0, <2>2, <2>3 DEF BlocksLeft
  <2>5. Stage' = 1 /\ Stage = 4
    BY <2>1 DEF Stage
  <2>6. u \in Seq(Addr) /\ k \in 0 .. 2
    BY <1>0, <2>3, UnvisitedFacts, UnvisitedFew DEF IInv, Room
  <2> HIDE DEF u
  <2>7. Len(worklist') = w + k
    BY <1>0, <2>1, <2>6
  <2>8. w + k \in Nat /\ (w + k) + 1 < w + 4
    <3> HIDE DEF w, k
    <3>1. QED
      BY <1>0, <2>6
  <2>9. QED
    BY <1>0, <2>4, <2>5, <2>7, <2>8, SameBlocks
<1>6. CASE Return
  <2>1. pc = "pop" /\ pc' = "done" /\ cfg' = cfg /\ worklist' = worklist
    BY <1>6 DEF Return
  <2>2. BlocksLeft' = BlocksLeft /\ Len(worklist') = w
    BY <2>1 DEF BlocksLeft, InProgress
  <2>3. Stage' = 0 /\ Stage = 1
    BY <2>1 DEF Stage
  <2>4. w + 0 < w + 1
    BY <1>0
  <2>5. QED
    BY <1>0, <2>2, <2>3, <2>4, SameBlocks
<1>7. QED
  BY <1>1, <1>2, <1>3, <1>4, <1>5, <1>6 DEF Next

LEMMA BoundType == StepBound \in Nat /\ StepBound' = StepBound
<1> DEFINE p == max_blocks * PerBlock
<1>1. p \in Nat
  BY CfgAssumption DEF PerBlock
<1>2. StepBound = p + 2 /\ StepBound' = StepBound
  BY DEF StepBound, PerBlock
<1> HIDE DEF p
<1>3. QED
  BY <1>1, <1>2

\* The walk starts below its bound.
LEMMA InitBound == ASSUME Init PROVE StepsLeft = StepBound
<1>1. pc = "pop" /\ cfg = <<>> /\ worklist = <<entry>>
  BY DEF Init
<1>2. Len(cfg) = 0 /\ Len(worklist) = 1 /\ Stage = 1 /\ ~InProgress
  BY <1>1 DEF Stage, InProgress
<1>3. BlocksLeft = max_blocks
  BY <1>2, CfgAssumption DEF BlocksLeft
<1> DEFINE p == max_blocks * PerBlock
<1>4. p \in Nat
  BY CfgAssumption DEF PerBlock
<1>5. StepsLeft = p + 1 + 1 /\ StepBound = p + 2
  BY <1>2, <1>3 DEF StepsLeft, StepBound
<1> HIDE DEF p
<1>6. QED
  BY <1>4, <1>5

\* walk_cfg ends whatever the code, and its caps alone bound the work: it takes at
\* most StepBound steps, because each leaves a smaller natural number to do.
THEOREM WalkIsBounded ==
  Spec => /\ [](StepsLeft \in 0 .. StepBound)
          /\ [][StepsLeft' < StepsLeft]_vars
<1> DEFINE Below == StepsLeft <= StepBound
<1>1. Init => Below
  BY InitBound, BoundType
<1>2. IInv => StepsLeft \in Nat
  BY StepsNat
<1>3. IInv /\ [Next]_vars => [StepsLeft' < StepsLeft]_vars
  BY StepsFall
<1>4. /\ StepsLeft \in Nat /\ Below /\ (StepsLeft \in Nat)'
      /\ IInv /\ [Next]_vars
      => Below'
  <2> SUFFICES ASSUME StepsLeft \in Nat, StepsLeft' \in Nat, Below, IInv, [Next]_vars
               PROVE  Below'
    OBVIOUS
  <2>1. StepBound' = StepBound /\ StepBound \in Nat
    BY BoundType
  <2>2. StepsLeft' <= StepsLeft
    <3>1. CASE UNCHANGED vars
      <4>1. StepsLeft' = StepsLeft
        BY <3>1 DEF vars, StepsLeft, BlocksLeft, InProgress, Stage, PerBlock
      <4>2. QED
        BY <4>1
    <3>2. CASE Next
      BY <3>2, StepsFall
    <3>3. QED
      BY <3>1, <3>2
  <2>3. QED
    BY <2>1, <2>2
<1>5. StepsLeft \in Nat /\ Below => StepsLeft \in 0 .. StepBound
  BY BoundType
<1>6. QED
  BY <1>1, <1>2, <1>3, <1>4, <1>5, Invariance, PTL DEF Spec

=============================================================================

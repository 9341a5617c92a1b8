-------------------------------- MODULE CodeGen --------------------------------
(***************************************************************************)
(* The code generator (src/include/vedx64/codegen.hpp): a buffer of bytes  *)
(* that instruction methods, data methods and the frame helpers append to, *)
(* and labels whose jumps are patched when they are bound.                 *)
(*                                                                         *)
(* The client owns the labels: label() hands out an object with the next   *)
(* number, and a jump to a label that is not bound yet leaves a patch with *)
(* that number in the generator.  clear() forgets code and patches and     *)
(* starts numbering again, so a label object older than the last clear may *)
(* share its number with a new one; the client modelled here, like the     *)
(* examples and tests, uses only labels made since the last clear, binds   *)
(* each of them once, and gives immediates that fit.                       *)
(*                                                                         *)
(* The log is a history variable: what was called, where its bytes begin   *)
(* and how many there are.                                                 *)
(***************************************************************************)
EXTENDS Decoder, CodeForms
LOCAL INSTANCE SequencesExt

(* What a client calls are the forms of Methods it uses and its plan: argument
   tuples for them (samples), the condition codes of jcc (conditions), the sizes of
   data (1, 2, 4 and 8 for db, dw, dd and dq), the numbers of nops (fillers)
   and the frames [size, regs] it sets up; and, between two clears, at most so
   many instruction methods called (calls), jumps to a label written (jumps),
   data, nops and placeholders written (holes), anchors added (anchors),
   frames set up (depth), labels made (labels) and all of this, with labels
   bound and frames torn down (work, one less after each clear); and at most
   so many clears.                                                          *)
CONSTANTS
    Clients,     \* the clients, one of which uses the generator
    Used,        \* for each, the indices of the forms of Methods it calls
    Plans,       \* the plan of each
    MaxRead      \* bound: the items of the listings that are read in full, encoded again and hooked

Bounds == {"calls", "jumps", "holes", "anchors", "depth", "labels", "work", "clears"}
ASSUME CodeGenAssumption ==
    /\ MaxRead \in Nat
    /\ \A c \in Clients :
        /\ Used[c] \subseteq DOMAIN Methods
        /\ \A bound \in Bounds : Plans[c][bound] \in Nat
        /\ Plans[c].conditions \subseteq 0..15 /\ Plans[c].data \subseteq {1, 2, 4, 8} /\ Plans[c].fillers \subseteq Nat

----------------------------------------------------------------------------
(* Arguments *)

RegId(arg) == arg[2]
IsMem(arg) == arg[1] = "mem"
BitsOf(arg) == IF IsMem(arg) THEN (IF arg[7] = 0 THEN 32 ELSE 8 * arg[7]) ELSE arg[3]
Base(m) == m[2]
Index(m) == m[3]
Disp(m) == m[5]
OnRip(m) == m[6]
Segment(m) == m[8]
SegmentBytes(m) == IF Segment(m) = 0 THEN <<>> ELSE <<Segment(m)>>

High(id) == IF id >= 8 THEN 1 ELSE 0
Low3(id) == id % 8
ModRMByte(mod, reg, rm) == 64 * mod + 8 * Low3(reg) + Low3(rm)

\* ModRM, SIB and displacement of a memory operand.
MemBytes(reg, m) ==
    LET base == IF Base(m) = NoReg THEN 5 ELSE Low3(Base(m))
        sib == Index(m) # NoReg \/ (Base(m) # NoReg /\ base = 4)
        mod == IF Base(m) = NoReg \/ (Disp(m) = 0 /\ base # 5) THEN 0
               ELSE IF Disp(m) \in -128..127 THEN 1 ELSE 2
        scale == CASE m[4] = 2 -> 1 [] m[4] = 4 -> 2 [] m[4] = 8 -> 3 [] OTHER -> 0
    IN  IF OnRip(m) THEN <<ModRMByte(0, reg, 5)>> \o Little(Disp(m), 4)
        ELSE (IF sib THEN <<ModRMByte(mod, reg, 4),
                            64 * scale + 8 * (IF Index(m) = NoReg THEN 4 ELSE Low3(Index(m))) + base>>
              ELSE <<ModRMByte(mod, reg, base)>>)
             \o (IF mod = 1 THEN Little(Disp(m), 1)
                 ELSE IF mod = 2 \/ Base(m) = NoReg THEN Little(Disp(m), 4) ELSE <<>>)

----------------------------------------------------------------------------
(* The bytes of an instruction *)

RegOf(f, args) == IF f.l.reg = 0 THEN f.x ELSE RegId(args[f.l.reg])
Wide(f, args) == IF f.l.w = Always THEN 1
                 ELSE IF f.l.w = Never THEN 0 ELSE IF BitsOf(args[f.l.w]) = 64 THEN 1 ELSE 0

RmBytes(f, args) ==
    IF f.l.rm = 0 THEN <<>>
    ELSE IF IsMem(args[f.l.rm]) THEN MemBytes(RegOf(f, args), args[f.l.rm])
    ELSE <<ModRMByte(3, RegOf(f, args), RegId(args[f.l.rm]))>>

\* The bits that extend ModRM.rm or the base, and the index.
BaseBit(f, args) ==
    IF f.l.low # 0 THEN High(RegId(args[f.l.low]))
    ELSE IF f.l.rm = 0 THEN 0 ELSE High(RegId(args[f.l.rm]))
IndexBit(f, args) ==
    IF f.l.rm = 0 THEN 0 ELSE IF IsMem(args[f.l.rm]) THEN High(Index(args[f.l.rm])) ELSE 0

\* Slip: without the bit of the index.
RexByte_NoIndex(f, args) == 64 + 8 * Wide(f, args) + 4 * High(RegOf(f, args)) + BaseBit(f, args)
RexByte(f, args) ==
    64 + 8 * Wide(f, args) + 4 * High(RegOf(f, args)) + 2 * IndexBit(f, args) + BaseBit(f, args)

\* An immediate that the arithmetic group writes in one byte, with opcode 83.
ShortImm(f, args) == BitsOf(args[1]) # 8 /\ args[2][2] \in -128..127

ImmLength(f, args) ==
    LET kind == f.l.imm[2]
        bits == BitsOf(args[1])
    IN  CASE kind \in {"b", "rel8"} -> 1
          [] kind = "w" -> 2
          [] kind \in {"d", "rel32"} -> 4
          [] kind = "wordOrDword" -> IF bits = 16 THEN 2 ELSE 4
          [] kind = "size" \/ (kind = "alu" /\ ~ShortImm(f, args)) -> IF bits = 64 THEN 4 ELSE bits \div 8
          [] kind = "alu" /\ ShortImm(f, args) -> 1
          [] kind = "full" -> bits \div 8

ImmBytes(f, args) ==
    IF f.l.imm = <<>> THEN <<>> ELSE Little(args[f.l.imm[1]][2], ImmLength(f, args))

OpcodeBytes(f, args) ==
    LET last == Len(f.o)
        alt == f.l.alt
        change == (IF alt # <<>> THEN (IF BitsOf(args[alt[1]]) = alt[2] THEN alt[3] ELSE 0) ELSE 0)
                  + (IF f.l.low # 0 THEN Low3(RegId(args[f.l.low])) ELSE 0)
                  + (IF f.l.imm # <<>> /\ f.l.imm[2] = "alu"
                     THEN (IF BitsOf(args[1]) = 8 THEN -1 ELSE IF ShortImm(f, args) THEN 2 ELSE 0) ELSE 0)
    IN  [f.o EXCEPT ![last] = @ + change]

PlainBytes(f, args) ==
    LET data16 == f.l.d16 # "no" /\ BitsOf(args[1]) = 16
        seg == IF f.l.rm # 0 THEN (IF IsMem(args[f.l.rm]) THEN SegmentBytes(args[f.l.rm]) ELSE <<>>) ELSE <<>>
        rex == RexByte(f, args)
    IN  (IF data16 /\ f.l.d16 = "first" THEN P66 ELSE <<>>)
        \o (IF data16 /\ f.l.d16 = "instead" THEN P66 ELSE f.p)
        \o (IF f.l.rex THEN seg \o (IF rex # 64 THEN <<rex>> ELSE <<>>) ELSE <<>>)
        \o (IF data16 /\ f.l.d16 = "afterREX" THEN P66 ELSE <<>>)
        \o OpcodeBytes(f, args) \o RmBytes(f, args) \o ImmBytes(f, args)

\* VEX takes two bytes for registers of the map 0F; EVEX four, with the opmask and the zeroing bit.
VectorBytes(f, args) ==
    LET map == f.p[1]
        W == f.p[4] + Wide(f, args)
        vvvv == IF f.l.v = 0 THEN 0 ELSE RegId(args[f.l.v])
        low == 8 * (15 - (vvvv % 16)) + f.p[2]
        Rbit == 128 * (1 - High(RegOf(f, args)))
        XB == 64 * (1 - IndexBit(f, args)) + 32 * (1 - BaseBit(f, args))
        mask == IF f.l.mask = 0 THEN 0
                ELSE (args[f.l.mask][2] % 8) + 128 * args[f.l.mask + 1][2]
    IN  (IF f.l.enc = "evex" THEN <<\h62, Rbit + XB + 16 + map, 128 * W + low + 4, mask + 32 * f.p[3] + 8>>
         ELSE IF map = 1 /\ W = 0 /\ ~IsMem(args[f.l.rm]) /\ BaseBit(f, args) = 0
         THEN <<\hC5, Rbit + low + 4 * f.p[3]>>
         ELSE <<\hC4, Rbit + XB + map, 128 * W + low + 4 * f.p[3]>>)
        \o f.o \o RmBytes(f, args) \o ImmBytes(f, args)

BytesOf(f, args) == IF f.l.enc = "plain" THEN PlainBytes(f, args) ELSE VectorBytes(f, args)

----------------------------------------------------------------------------
(* The generator *)

VARIABLES
    buf,      \* buf_, the bytes written
    patches,  \* patches_, the places [at, id, size] that wait for a label
    count,    \* label_count_, the number of the next label
    labels,   \* the client's labels [id, offset, bound] since the last clear
    anchors,  \* anchors_, the offsets that were named
    relocs,   \* relocs_, the offsets of the placeholders
    frames,   \* the client's frames [size, regs, from, to], to = Pending until torn down
    log,      \* history: the kind, name, arguments, offset and length of what was written
    clears,   \* history: how often clear was called
    client    \* the client, who stays the same

vars == <<buf, patches, count, labels, anchors, relocs, frames, log, clears, client>>
clientVars == <<labels, frames, clears, client>>

Plan == Plans[client]

Pending == -1
Label(k) == <<"label", k>>

Init ==
    /\ buf = <<>> /\ patches = <<>> /\ count = 0 /\ labels = <<>>
    /\ anchors = <<>> /\ relocs = <<>> /\ frames = <<>> /\ log = <<>> /\ clears = 0
    /\ client \in Clients

Item(kind, what, args, bytes) == [kind |-> kind, what |-> what, args |-> args, bytes |-> bytes]

\* Items go to the end of the buffer, and into the log with their offsets.
Emit(items) ==
    LET code == [k \in DOMAIN items |-> items[k].bytes]
        At0(k) == Len(buf) + Len(FlattenSeq(SubSeq(code, 1, k - 1)))
    IN  /\ buf' = buf \o FlattenSeq(code)
        /\ log' = log \o [k \in DOMAIN items |->
                             [kind |-> items[k].kind, what |-> items[k].what, args |-> items[k].args,
                              at |-> At0(k), len |-> Len(code[k])]]

Written(kinds) == Cardinality({k \in DOMAIN log : log[k].kind \in kinds})

ClassOf == [r |-> "gpr", cl |-> "gpr", x |-> "xmm", q |-> "mmx", m |-> "mem", label |-> "label",
            imm |-> "imm", ib |-> "imm", rel |-> "imm", z |-> "imm"]
\* Arguments of the right classes; an immediate has to fit its bytes, and is cut off silently if not.
Fits(f, args) ==
    /\ Len(args) = Len(f.l.a)
    /\ \A k \in DOMAIN args : args[k][1] = ClassOf[f.l.a[k]]
    /\ f.l.imm # <<>> => Value(ImmBytes(f, args), 0, ImmLength(f, args)) = args[f.l.imm[1]][2]

\* The arguments a listing shows: not the opmask, nor a count in CL.
Listed(f, args) ==
    LET shown == SelectSeq([k \in DOMAIN args |-> k],
                           LAMBDA k : f.l.a[k] # "cl" /\ (f.l.mask # 0 => k \notin {f.l.mask, f.l.mask + 1}))
    IN  [k \in DOMAIN shown |->
            IF f.l.a[shown[k]] = "rel" THEN <<"rel", args[shown[k]][2]>> ELSE args[shown[k]]]

CallItem(kind, f, args) == Item(kind, f.m, Listed(f, args), BytesOf(f, args))

Call(f, args) ==
    /\ Fits(f, args)
    /\ Emit(<<CallItem("call", f, args)>>)
    /\ UNCHANGED <<patches, count, anchors, relocs, clientVars>>

\* A jump knows the distance if its label is bound, and leaves a patch if not.
Jump(what, opcode, size, k) ==
    LET at == Len(buf) + Len(opcode)
        l == labels[k]
        distance == IF l.bound THEN l.offset - (at + size) ELSE 0
    IN  /\ Written({"jump"}) < Plan.jumps
        /\ Emit(<<Item("jump", what, <<Label(k)>>, opcode \o Little(distance, size))>>)
        /\ patches' = IF l.bound THEN patches ELSE Append(patches, [at |-> at, id |-> l.id, size |-> size])
        /\ UNCHANGED <<count, anchors, relocs, clientVars>>

JumpTo(f, k) == f.l.a = <<"label">> /\ Jump(f.m, f.o, ImmLength(f, <<Label(k)>>), k)

JccNames == <<"jo", "jno", "jb", "jnb", "jz", "jnz", "jbe", "jnbe",
              "js", "jns", "jp", "jnp", "jl", "jnl", "jle", "jnle">>
Jcc(cc, k) == Jump(JccNames[cc + 1], <<\h0F, 128 + cc>>, 4, k)

\* jcc with a distance, and cmov, that take the condition as a number.
ByCondition(cc) ==
    {[m |-> JccNames[cc + 1], l |-> Rel32, p |-> Plain, o |-> <<\h0F, 128 + cc>>, x |-> 0]}
    \cup {f \in ToSet(Methods) : f.l \in {RR, RM} /\ f.p = Plain /\ f.o = <<\h0F, 64 + cc>>}

NewLabel ==
    /\ Len(labels) < Plan.labels
    /\ labels' = Append(labels, [id |-> count, offset |-> Pending, bound |-> FALSE])
    /\ count' = count + 1
    /\ UNCHANGED <<buf, patches, anchors, relocs, frames, log, clears, client>>

\* Binding a label writes the distance into every jump that waits for its number.
Bind(k) ==
    LET waiting == {p \in ToSet(patches) : p.id = labels[k].id}
        Covering(i) == {p \in waiting : i \in p.at + 1 .. p.at + p.size}
        Patched(p) == Little(Len(buf) - (p.at + p.size), p.size)
    IN  /\ ~labels[k].bound
        /\ labels' = [labels EXCEPT ![k].offset = Len(buf), ![k].bound = TRUE]
        /\ buf' = [i \in DOMAIN buf |->
                      IF Covering(i) = {} THEN buf[i]
                      ELSE LET p == CHOOSE q \in Covering(i) : TRUE IN Patched(p)[i - p.at]]
        /\ UNCHANGED <<patches, count, anchors, relocs, frames, log, clears, client>>

\* db, dw, dd and dq; nops.
Data(n) ==
    /\ Written({"data", "nops", "hole"}) < Plan.holes
    /\ Emit(<<Item("data", "d", <<>>, Little(-1, n))>>)
    /\ UNCHANGED <<patches, count, anchors, relocs, clientVars>>

Nops(n) ==
    /\ Written({"data", "nops", "hole"}) < Plan.holes
    /\ Emit(<<Item("nops", "nop", <<>>, [i \in 1..n |-> \h90])>>)
    /\ UNCHANGED <<patches, count, anchors, relocs, clientVars>>

AddAnchor ==
    /\ Len(anchors) < Plan.anchors
    /\ anchors' = Append(anchors, Len(buf))
    /\ UNCHANGED <<buf, patches, count, relocs, log, clientVars>>

Placeholder ==
    /\ Written({"data", "nops", "hole"}) < Plan.holes
    /\ relocs' = Append(relocs, Len(buf))
    /\ Emit(<<Item("hole", "rel32", <<>>, Little(0, 4))>>)
    /\ UNCHANGED <<patches, count, anchors, clientVars>>

FormNamed(m, a) == CHOOSE f \in ToSet(Methods) : f.m = m /\ f.l.a = a
Rsp == <<"gpr", 4, 64>>
AddImm == FormNamed("add", <<"r", "imm">>)
SubImm == FormNamed("sub", <<"r", "imm">>)
PushReg == FormNamed("push", <<"r">>)
PopReg == FormNamed("pop", <<"r">>)
OnRsp(f, size) == IF size = 0 THEN <<>> ELSE <<CallItem("frame", f, <<Rsp, <<"imm", size>>>>)>>
OnEach(f, regs) == [k \in DOMAIN regs |-> CallItem("frame", f, <<regs[k]>>)]

FrameSetup(fr) ==
    /\ Len(frames) < Plan.depth
    /\ frames' = Append(frames, [size |-> fr.size, regs |-> fr.regs, from |-> Len(log) + 1, to |-> Pending])
    /\ Emit(OnEach(PushReg, fr.regs) \o OnRsp(SubImm, fr.size))
    /\ UNCHANGED <<patches, count, labels, anchors, relocs, clears, client>>

TornDown(k, items) ==
    /\ frames[k].to = Pending /\ \A j \in DOMAIN frames : j > k => frames[j].to # Pending
    /\ frames' = [frames EXCEPT ![k].to = Len(log) + Len(items)]
    /\ Emit(items)
    /\ UNCHANGED <<patches, count, labels, anchors, relocs, clears, client>>

\* Slip: pops in the order of the pushes.
FrameTeardown_SameOrder(k) ==
    TornDown(k, OnRsp(AddImm, frames[k].size) \o OnEach(PopReg, frames[k].regs))

\* The client tears down the innermost frame, with the arguments it set it up with.
FrameTeardown(k) ==
    TornDown(k, OnRsp(AddImm, frames[k].size) \o OnEach(PopReg, Reverse(frames[k].regs)))

\* Slip: the patches survive.
Clear_KeepsPatches ==
    /\ clears < Plan.clears /\ buf # <<>>
    /\ buf' = <<>> /\ anchors' = <<>> /\ relocs' = <<>> /\ count' = 0
    /\ labels' = <<>> /\ frames' = <<>> /\ log' = <<>>
    /\ clears' = clears + 1
    /\ UNCHANGED <<patches, client>>

\* The client lets go of its labels and frames.
Clear ==
    /\ clears < Plan.clears /\ buf # <<>>
    /\ buf' = <<>> /\ patches' = <<>> /\ anchors' = <<>> /\ relocs' = <<>> /\ count' = 0
    /\ labels' = <<>> /\ frames' = <<>> /\ log' = <<>>
    /\ clears' = clears + 1
    /\ UNCHANGED client

\* What the client has done since the last clear.
Work == Written({"call", "jump", "data", "nops", "hole"}) + Len(anchors) + Len(labels) + Len(frames)
        + Cardinality({k \in DOMAIN labels : labels[k].bound})
        + Cardinality({k \in DOMAIN frames : frames[k].to # Pending})

Next ==
    \/ /\ Work < Plan.work - clears
       /\ \/ Written({"call"}) < Plan.calls /\ \E i \in Used[client], args \in Plan.samples : Call(Methods[i], args)
          \/ /\ Written({"call"}) < Plan.calls
             /\ \E cc \in Plan.conditions : \E f \in ByCondition(cc), args \in Plan.samples : Call(f, args)
          \/ \E i \in Used[client], k \in DOMAIN labels : JumpTo(Methods[i], k)
          \/ \E cc \in Plan.conditions, k \in DOMAIN labels : Jcc(cc, k)
          \/ NewLabel
          \/ \E k \in DOMAIN labels : Bind(k)
          \/ \E n \in Plan.data : Data(n)
          \/ \E n \in Plan.fillers : Nops(n)
          \/ AddAnchor
          \/ Placeholder
          \/ \E fr \in Plan.frames : FrameSetup(fr)
          \/ \E k \in DOMAIN frames : FrameTeardown(k)
    \/ Clear

Spec == Init /\ [][Next]_vars

----------------------------------------------------------------------------
(* What the decoder makes of the code *)

CodeFrom(at) == SubSeq(buf, at + 1, Len(buf))
Reading(e) == Decode(CodeFrom(e.at))
Brief == Len(log) <= MaxRead
Instructions == {k \in DOMAIN log : log[k].kind \in {"call", "jump", "frame"}}

\* The mnemonics of the table that stand for several methods.
Families == [
    movs |-> {"movsb", "movsw", "movsd_str", "movsq", "rep_movsb", "rep_movsw", "rep_movsd", "rep_movsq"},
    stos |-> {"stosb", "stosw", "stosd", "stosq", "rep_stosb", "rep_stosw", "rep_stosd", "rep_stosq"},
    lods |-> {"lodsb", "lodsw", "lodsd", "lodsq"},
    cmps |-> {"cmpsb", "cmpsw", "cmpsd_str", "cmpsq", "repe_cmpsb", "repne_cmpsb"},
    scas |-> {"scasb", "scasw", "scasd", "scasq", "repe_scasb", "repne_scasb"},
    ins |-> {"insb", "insw", "insd"}, outs |-> {"outsb", "outsw", "outsd"},
    cwd |-> {"cdq", "cqo"}, cbw |-> {"cwde", "cdqe"}, iret |-> {"iretd", "iretq"},
    popa |-> {"popad"}, popf |-> {"popfd", "popfq"}, pusha |-> {"pushad"}, pushf |-> {"pushfd", "pushfq"},
    retn |-> {"ret"}, int |-> {"int3", "int_n"}, fwait |-> {"wait"}, jcxz |-> {"jecxz"},
    xlat |-> {"xlatb"}, salc |-> {"setalc"}, cmpxchg8b |-> {"cmpxchg16b"},
    vpxord |-> {"vpxord_k"}, vpandd |-> {"vpandd_k"}, vpord |-> {"vpord_k"}, vpxorq |-> {"vpxorq_k"},
    vpandq |-> {"vpandq_k"}, vporq |-> {"vporq_k"}, vpternlogd |-> {"vpternlogd_k"}]
Names(m, n) == m = n \/ (n \in DOMAIN Families /\ m \in Families[n])

\* An argument as an operand of the listing.
AsOperand(arg) ==
    CASE arg[1] = "gpr" -> <<"gpr", arg[2]>>
      [] arg[1] = "mem" -> MemOperand(Base(arg), Index(arg), arg[4], Disp(arg), OnRip(arg))
      [] OTHER -> arg

Shows(d, e) ==
    /\ Decoded(d) /\ d.len = e.len /\ Names(e.what, d.row.n)
    /\ e.kind # "jump" => OperandsOf(d) = [j \in DOMAIN e.args |-> AsOperand(e.args[j])]
    /\ \A j \in DOMAIN e.args : IsMem(e.args[j]) => ToSet(SegmentBytes(e.args[j])) \subseteq ToSet(d.kept)

(* The listing shows the calls: disassembled where it was written, with
   whatever follows it, each instruction has the name, the length and the
   operands it was asked for, segments included, and data, nops and
   placeholders are still what was written.  A listing that is off by one byte or that takes one operand
   for another breaks it; so does a patch that hits the wrong place.         *)
ListingMatches == Brief =>
    /\ \A k \in Instructions : Shows(Reading(log[k]), log[k])
    /\ \A k \in DOMAIN log \ Instructions :
          LET fill == CASE log[k].kind = "data" -> 255 [] log[k].kind = "nops" -> \h90 [] log[k].kind = "hole" -> 0
          IN  \A i \in log[k].at + 1 .. log[k].at + log[k].len : buf[i] = fill
    /\ ToSet(relocs) = {log[k].at : k \in {j \in DOMAIN log : log[j].kind = "hole"}}

LeadsTo(d, e, l) ==
    LET end == e.at + e.len
    IN  /\ Decoded(d)
        /\ IF ~l.bound THEN d.imm = 0
           ELSE \/ end + d.imm = l.offset
                \/ d.row.o = <<"Jb">> /\ l.offset - end \notin -128..127

(* A jump whose label is bound leads to the label, whichever came first: read
   back from the code, its distance ends where the label was bound.  A short
   jump over more than it can reach is written all the same, without a sign
   of it, and is left out here.                                              *)
JumpsLeadToLabels ==
    \A k \in {j \in DOMAIN log : log[j].kind = "jump"} :
        LeadsTo(Reading(log[k]), log[k], labels[RegId(log[k].args[1])])

SameReading(d, code, again) ==
    /\ Decoded(again) /\ again.len = Len(code)
    /\ again.row = d.row /\ OperandsOf(again) = OperandsOf(d)
ReadsBack(d, code) == SameReading(d, code, Decode(code))
Reencodes(d) == Decoded(d) => ReadsBack(d, Encode(d))

(* Encoding what the decoder read gives code that reads the same: the same
   row, operands, prefixes and length of the bytes written, for every
   instruction whose immediates the encoder keeps.                           *)
ReencodingKeepsMeaning ==
    Brief => \A k \in Instructions : Reencodes(Reading(log[k]))

(* A machine that sees the stack and where each register's value came from:
   pushes, pops and the arithmetic on RSP, as the decoder reads them; any
   other instruction overwrites its first operand if that is a register.     *)
Machine == [rsp |-> 0, regs |-> [r \in 0..15 |-> r], stack |-> <<>>]
Lost == -1
Step(m, d) ==
    LET ops == OperandsOf(d)
        first == IF ops = <<>> THEN <<"none">> ELSE ops[1]
        OnStack == d.row.n \in {"sub", "add"} /\ first = <<"gpr", 4>>
    IN  CASE d.row.n = "push" /\ first[1] = "gpr" ->
               [m EXCEPT !.rsp = @ - 8, !.stack = Append(@, <<m.rsp - 8, m.regs[first[2]]>>)]
          [] d.row.n = "pop" /\ first[1] = "gpr" ->
               LET top == SelectSeq(m.stack, LAMBDA cell : cell[1] = m.rsp)
               IN  [m EXCEPT !.rsp = @ + 8, !.regs[first[2]] = IF top = <<>> THEN Lost ELSE Last(top)[2]]
          [] OnStack -> [m EXCEPT !.rsp = @ + (IF d.row.n = "add" THEN ops[2][2] ELSE -ops[2][2])]
          [] ~OnStack /\ d.row.n \notin {"push", "pop"} /\ first[1] = "gpr" -> [m EXCEPT !.regs[first[2]] = Lost]
          [] OTHER -> m

AfterAll(body) == FoldLeft(LAMBDA m, e : Step(m, Reading(e)), Machine, body)
Restored(m, fr) == m.rsp = 0 /\ \A j \in DOMAIN fr.regs : m.regs[RegId(fr.regs[j])] = RegId(fr.regs[j])

(* A frame that is set up and torn down leaves the stack pointer where it was
   and puts back each register it saved, whatever the code between the two
   does to it and however frames are nested.                                 *)
FramesRestore ==
    \A k \in {j \in DOMAIN frames : frames[j].to # Pending} :
        Restored(AfterAll(SelectSeq(SubSeq(log, frames[k].from, frames[k].to),
                                    LAMBDA e : e.kind \in {"call", "jump", "frame"})), frames[k])
=============================================================================

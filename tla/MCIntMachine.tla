----------------------------- MODULE MCIntMachine -----------------------------
(* Programs and start states for IntMachine: registers of eight two-bit bytes. *)
EXTENDS IntMachine

RSI == 6
RDI == 7

R(r) == [k |-> "reg", v |-> r]
M(r) == [k |-> "mem", v |-> r]
K(x) == [k |-> "imm", v |-> x]
K8(x) == [k |-> "imm8", v |-> x]

I(op, sz, dst, src) ==
    [op |-> op, sz |-> sz, ssz |-> sz, rex |-> TRUE, dst |-> dst, src |-> src, third |-> K(0),
     n |-> 0, cc |-> 0, disp |-> 0]
N(op, sz, dst, n) == [I(op, sz, dst, K(0)) EXCEPT !.n = n]
I3(op, sz, dst, src, third) == [I(op, sz, dst, src) EXCEPT !.third = third]
Jcc(cc) == [I("JCC", 1, R(0), K(0)) EXCEPT !.cc = cc, !.disp = 5]

NoneSet == [g \in FlagNames |-> FALSE]
Carry == [NoneSet EXCEPT !["CF"] = TRUE]
AllSet == [g \in FlagNames |-> TRUE]
Memory == [a \in 0..(MemSize - 1) |-> (a + a \div 3) % Byte]

(* RAX, RCX, RDX, RBX given; RSP and RBP inside the memory, RSI and RDI near its start. *)
Cpu(a, c, d, b, f) ==
    [gpr |-> (RAX :> a) @@ (RCX :> c) @@ (RDX :> d) @@ (RBX :> b) @@ (RSP :> 32) @@ (RBP :> 36)
             @@ (RSI :> 4) @@ (RDI :> 9),
     f |-> f, rip |-> 3, mem |-> Memory, status |-> "OK"]

Task(C, S) == {[code |-> c, starts |-> S] : c \in C}

V(sz) == CASE sz = 1 -> 0..3 [] sz = 2 -> 0..15 [] sz = 4 -> {0, 1, 2, 100, 127, 128, 254, 255}
           [] sz = 8 -> {0, 1, 40000, 32767, 32768, 65534, 65535}
Ends(sz) == {0, 1, Mod(sz) \div 2 - 1, Mod(sz) \div 2, Mod(sz) - 2, Mod(sz) - 1}
Some == {0, 1, 2, 9, 128, 255, 1234, 32767, 32768, 43981, 65534, 65535}

Compare == UNION {Task({<<I(op, sz, R(RAX), R(RBX)), Jcc(cc)>> : op \in {"CMP", "SUB"}, cc \in 0..15},
                       {Cpu(a, 7, 8, b, AllSet) : a, b \in V(sz)}) : sz \in Sizes}
CompareImm == Task({<<I("CMP", 2, M(RDI), K8(x)), Jcc(cc)>> : x \in 0..3, cc \in 0..15}, {Cpu(5, 7, 8, 9, NoneSet)})

Between == {<<>>, <<I("INC", 2, R(RSI), K(0))>>, <<I("LOOP", 8, R(0), K(0))>>,
            <<I("LEA", 8, R(RDI), M(RDI)), I("NOT", 4, R(RSI), K(0))>>}
WideTasks == UNION {Task({<<I(p[1], sz, R(RAX), R(RBX))>> \o b \o <<I(p[2], sz, R(RDX), R(RBP))>> :
                        p \in {<<"ADD", "ADC">>, <<"SUB", "SBB">>}, b \in Between},
                    {[Cpu(x, 7, d, b, NoneSet) EXCEPT !.gpr[RBP] = y] : x, d, b, y \in Ends(sz)}) : sz \in {1, 2}}

Undone1(sz, o) ==
    LET w == Bits(sz)
        wide == sz \in {4, 8} /\ o.k = "reg"
        INCBP == <<I("INC", 2, R(RBP), K(0))>>
    IN  {<<I(op, sz, o, K(0))>> \o b \o <<I(op, sz, o, K(0))>> :
            op \in {"NOT", "NEG"} \cup (IF wide THEN {"BSWAP"} ELSE {}), b \in {<<>>, INCBP}}
        \cup {<<N(p[1], sz, o, n)>> \o b \o <<N(p[2], sz, o, n)>> :
            p \in {<<"ROL", "ROR">>, <<"RCL", "RCR">>, <<"RCR", "RCL">>}, n \in {0, 1, w - 1, w, w + 1}, b \in {<<>>, INCBP}}
        \cup {<<I(p[1], sz, o, R(RBX)), I(p[2], sz, o, R(RBX))>> :
            p \in {<<"ADD", "SUB">>, <<"INC", "DEC">>, <<"XOR", "XOR">>, <<"XCHG", "XCHG">>}}
        \cup (IF sz > 1 THEN {<<I("BTC", sz, o, s), I("BTC", sz, o, s)>> : s \in {R(RCX), K(5)}} ELSE {})
Byte4 == [I("XCHG", 1, R(4), R(RBX)) EXCEPT !.rex = FALSE]
Undone == UNION {Task(Undone1(sz, o), {Cpu(x, 7, 8, 13, f) : x \in IF o.k = "reg" THEN {0, 9, 43981, 65535} ELSE {0},
                                                             f \in {NoneSet, AllSet}}) :
                    sz \in Sizes, o \in {R(RAX), M(RSI)}}
          \cup Task({<<I("MOVBE", sz, M(RSI), R(RAX)), I("MOVBE", sz, R(RAX), M(RSI))>> : sz \in {2, 4, 8}} \cup {<<Byte4, Byte4>>},
                    {Cpu(x, 7, 8, 13, NoneSet) : x \in {9, 200, 255}})
          \cup Task({<<I("XCHG", sz, M(RSI), R(RSI)), I("XCHG", sz, M(RDI), R(RSI))>> : sz \in Sizes},
                    {[Cpu(1, 7, 8, 13, NoneSet) EXCEPT !.gpr[RSI] = x, !.gpr[RDI] = x] : x \in {4, 21}})

TwoWays1(sz) ==
    LET w == Bits(sz)
        counts == {0, 1, w \div 2, w - 1}
        Counted(i, n) == [i EXCEPT !.n = n]
    IN  {<<N("ROL", sz, R(RAX), n), N("ROR", sz, R(RDX), w - n)>> : n \in counts \cup {w}}
        \cup (IF sz = 1 THEN {} ELSE
               {<<Counted(I("SHLD", sz, R(RAX), R(RBX)), n), Counted(I("SHRD", sz, R(RBP), R(RDX)), w - n)>> : n \in counts \ {0}}
               \cup {<<I("XADD", sz, R(RAX), R(RBX)), I("ADD", sz, R(RDX), R(RBP))>>,
                     <<I("TZCNT", sz, R(RDI), R(RAX)), I("BSF", sz, R(RSI), R(RDX))>>})
        \cup (IF sz \in {4, 8} THEN
               {<<Counted(I("RORX", sz, R(RDI), R(RAX)), n), N("ROR", sz, R(RDX), n)>> : n \in counts}
               \cup {<<I3(p[1], sz, R(RDI), R(RAX), R(RCX)), N(p[2], sz, R(RDX), 7)>> :
                       p \in {<<"SHLX", "SHL">>, <<"SHRX", "SHR">>, <<"SARX", "SAR">>}}
               \cup {<<I("ADOX", sz, R(RAX), R(RBX)), I("ADC", sz, R(RDX), R(RBP))>>} ELSE {})
TwoWays == UNION {Task(TwoWays1(sz), {[Cpu(x, 7, x, b, f) EXCEPT !.gpr[RBP] = b] :
                                          x \in Some, b \in {0, 9, 43981}, f \in {NoneSet, AllSet}}) : sz \in Sizes}

Masks == Task({<<I3("PDEP", sz, R(RAX), R(RBX), R(RCX)), I3("PEXT", sz, R(RDX), R(RBX), R(RAX))>> : sz \in {4, 8}},
              {Cpu(1, c, 8, b, NoneSet) : b, c \in Some})

Push1(r) == I("PUSH", 8, R(r), R(r))
Pop1(r) == I("POP", 8, R(r), R(r))
Call1 == [I("CALL", 8, R(0), K(0)) EXCEPT !.disp = 7]
Ret == I("RET", 8, R(0), K(0))
Enter(n, size) == [I("ENTER", 8, R(RBP), K(0)) EXCEPT !.n = n, !.disp = size]
Leave == I("LEAVE", 8, R(RBP), K(0))
Stack == Task({<<Push1(r), Call1, e, Push1(RCX), Pop1(RCX), Leave, Ret, Pop1(r)>> :
                   r \in {RBX, RSP, RBP}, e \in {Enter(0, 0), Enter(0, 3), Enter(1, 2)}}
              \cup {<<Call1, Enter(n, 0), Leave, Ret>> : n \in 0..3}
              \cup {<<Enter(1, k), Enter(2, 0), Leave, Leave>> : k \in {0, 4}}
              \cup {<<Call1, Ret>>, <<Push1(RBX), Enter(0, 5), Leave, Pop1(RBX)>>},
              {[Cpu(a, 2, 3, 4, NoneSet) EXCEPT !.gpr[RSP] = MemSize] : a \in {1, 65535}})

Retry == Task({<<i, i>> : i \in {I3("CMPXCHG", sz, o, R(RDX), R(RCX)) : sz \in Sizes, o \in {R(RBX), M(RSI), R(RSI)}}
                              \cup {I("CMPXCHG8B", 8, M(o), R(0)) : o \in {RSI, RDI}}},
              {Cpu(a, c, 36, b, NoneSet) : a \in {0, 3, 228, 43981}, c \in {7, 65535}, b \in {0, 43981}})

(* Every instruction on its own. *)
Src1(sz) == {R(RBX), M(RSI), K(3)}
Ones1(sz) ==
    {I(op, sz, d, s) : op \in {"ADD", "ADC", "SUB", "SBB", "CMP", "AND", "OR", "XOR", "TEST", "MOV"}, d \in {R(RAX), M(RDI)}, s \in {R(RBX), K8(2)}}
    \cup {I(op, sz, R(RCX), M(RSI)) : op \in {"ADD", "SBB", "MOV", "XCHG"}}
    \cup {I(op, sz, d, K(0)) : op \in {"INC", "DEC", "NEG", "NOT"}, d \in {R(RAX), M(RDI)}}
    \cup {N(op, sz, d, n) : op \in {"SHL", "SHR", "SAR", "ROL", "ROR", "RCL", "RCR"}, d \in {R(RAX), M(RDI)}, n \in {0, 1, 5}}
    \cup {[I(op, sz, R(4), R(7)) EXCEPT !.rex = FALSE] : op \in {"ADD", "MOV", "XCHG"}}
Wide1(sz) ==
    {I(op, sz, d, s) : op \in {"BT", "BTS", "BTR", "BTC"}, d \in {R(RAX), M(RDI)}, s \in {R(RCX), K(5)}}
    \cup {[I(op, sz, d, R(RBX)) EXCEPT !.n = n] : op \in {"SHLD", "SHRD"}, d \in {R(RAX), M(RDI)}, n \in {0, 1, 9}}
    \cup {I(op, sz, R(RAX), s) : op \in {"BSF", "BSR", "POPCNT", "TZCNT", "LZCNT", "IMUL2", "MOVBE"}, s \in {R(RBX), M(RSI)}}
    \cup {[I("CMOV", sz, R(RAX), R(RBX)) EXCEPT !.cc = cc] : cc \in 0..15}
    \cup {[I("IMUL3", sz, R(RAX), R(RBX)) EXCEPT !.n = 3], I("LEA", sz, R(RAX), M(RBX))}
    \cup {[I(op, sz, R(RAX), R(RBX)) EXCEPT !.ssz = 1] : op \in {"MOVZX", "MOVSX"}}
Vex1(sz) ==
    {I3(op, sz, R(RAX), R(RBX), R(RCX)) : op \in {"ANDN", "SARX", "SHLX", "SHRX", "PDEP", "PEXT"}}
    \cup {I(op, sz, R(RAX), R(RBX)) : op \in {"BLSI", "BLSMSK", "BLSR", "ADCX", "ADOX", "RORX"}}
Fixed ==
    {I("MUL", 8, R(RDX), R(RAX)), I("MUL", 2, R(RAX), K(0)), I("DIV", 8, R(RDX), R(RAX)), I("DIV", 1, R(RAX), K(0)),
     I("DIV", 4, R(RBX), K(0)), I("MUL", 4, R(RBX), K(0)),
     I("IDIV", 8, R(RDX), R(RAX)), I("IDIV", 1, R(RAX), K(0)), I("IDIV", 4, R(RBX), K(0)),
     I("IMUL3", 8, R(RDX), R(RAX)),
     I("CBW", 2, R(RAX), K(0)), I("CWD", 2, R(RDX), K(0)), I("JCXZ", 2, R(0), K(0)), I("JMP", 8, R(0), R(RBX))}
    \cup {I(op, 8, R(0), K(0)) : op \in {"CLC", "STC", "CMC", "CLD", "STD", "LOOP", "LOOPE", "LOOPNE", "JMP", "RET", "LEAVE"}}
    \cup {[I("SET", 1, d, K(0)) EXCEPT !.cc = cc] : d \in {R(RBX), M(RDI)}, cc \in 0..15}
    \cup {Jcc(cc) : cc \in 0..15}
    \cup {Enter(n, 4) : n \in {0, 2}}
    \cup {I("CALL", 8, R(0), s) : s \in {K(0), R(RBX), R(RSP)}} \cup {Push1(RBX), Pop1(RSP)}
    \cup {I("XADD", 4, M(RDI), R(RBX)), I("XADD", 4, R(RBX), R(RAX)), I3("CMPXCHG", 4, M(RDI), R(0), R(RCX)), I("CMPXCHG8B", 8, M(RDI), R(0))}
Alone == {<<i>> : i \in UNION {Ones1(sz) : sz \in Sizes} \cup UNION {Wide1(sz) : sz \in {2, 4, 8}}
                         \cup UNION {Vex1(sz) : sz \in {4, 8}} \cup Fixed}
Singles == Task(Alone, {Cpu(p[1], p[2], p[3], p[4], f) : p \in {<<32768, 3, 2, 65535>>, <<100, 65532, 0, 13>>, <<127, 1, 9, 0>>},
                                                          f \in {NoneSet, AllSet}}
                        \cup {Cpu(32768, 5, 65535, 0, NoneSet), [Cpu(1, 2, 3, 4, NoneSet) EXCEPT !.gpr[RSP] = 3]})

Setters == {I(op, 4, R(RAX), R(RBX)) : op \in {"ADD", "SBB", "CMP", "AND", "XADD", "IMUL2", "BT", "BSF", "POPCNT"}}
           \cup {I(op, 4, R(RAX), K(0)) : op \in {"INC", "NEG", "CLC", "CMC", "STD", "CLD"}}
           \cup {N(op, 4, R(RAX), 1) : op \in {"SHL", "ROL", "RCR"}} \cup {I3("CMPXCHG", 4, R(RDI), R(0), R(RBX))}
           \cup {I("MUL", 2, R(RAX), K(0)), [I("SET", 1, R(RCX), K(0)) EXCEPT !.cc = 14]}
Dead == Task({<<i, j>> : i, j \in Setters}, {Cpu(a, 3, 2, b, f) : a, b \in {200, 65535}, f \in {NoneSet, AllSet}})

Movers == {I("MOV", 8, R(p[1]), R(p[2])) : p \in {<<RAX, RBX>>, <<RBX, RAX>>, <<RDX, RAX>>, <<RBX, RDX>>, <<RAX, RAX>>}}
          \cup {I("MOVZX", 8, R(RAX), M(RSI)), I("INC", 8, R(RBX), K(0)), I("ADD", 8, R(RAX), R(RDX)), I("CMP", 8, R(RBX), R(RAX)),
                I("MOV", 8, M(RDI), R(RAX))}
Chains == Task({<<i, j, k, l>> : i, j, k, l \in Movers}, {Cpu(11, 12, 13, 14, NoneSet)})

MCTasks == Compare \cup CompareImm \cup WideTasks \cup Undone \cup TwoWays \cup Masks \cup Stack \cup Retry
           \cup Singles \cup Dead \cup Chains
===============================================================================

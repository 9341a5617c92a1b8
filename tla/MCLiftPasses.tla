---------------------------- MODULE MCLiftPasses ----------------------------
(* Three temporaries: of 8 bytes and also read and written as one, of 8,    *)
(* and of 1; a part of a register is one bit.                               *)
EXTENDS LiftPasses

CONSTANTS rax, t1, t2, t3

Pointwise(f(_, _)) ==
  [p \in Value \X Value |-> [lo |-> f(p[1].lo, p[2].lo), hi |-> f(p[1].hi, p[2].hi)]]

AndBits == LET f(x, y) == x * y IN Pointwise(f)
OrBits == LET f(x, y) == x + y - x * y IN Pointwise(f)
\* Addition of two-bit numbers.
AddBits ==
  [p \in Value \X Value |->
     LET n == p[1].lo + p[2].lo + 2 * (p[1].hi + p[2].hi)
     IN [lo |-> n % 2, hi |-> (n \div 2) % 2]]

Gpr(r, slice) == [space |-> "gpr", id |-> r, slice |-> slice]
Temp(t, size) == [space |-> "temp", id |-> t, slice |-> <<size, 0>>]
Const(n, size) == [space |-> "const", id |-> [lo |-> n, hi |-> 0], slice |-> <<size, 0>>]

Locations ==
  {Gpr(rax, s) : s \in {<<8, 0>>, <<4, 0>>, <<1, 0>>, <<1, 8>>}}
    \cup {Temp(t1, 8), Temp(t1, 1), Temp(t2, 8), Temp(t3, 1)}

Sources == Locations \cup {Const(1, 8)}

\* Destinations of the ops that compute.
Results == {Gpr(rax, <<8, 0>>), Gpr(rax, <<4, 0>>), Temp(t1, 8), Temp(t2, 8)}

\* Copies of everything to everything, identities, sums, and the flag ops.
SomeOps ==
  {[op |-> "COPY", out |-> d, a |-> s, b |-> s] : d \in Locations, s \in Sources}
    \cup {[op |-> "AND", out |-> d, a |-> s, b |-> s] : d \in Results, s \in {Temp(t1, 8)}}
    \cup {[op |-> "OR", out |-> d, a |-> Temp(t1, 8), b |-> s] : d \in Results, s \in {Temp(t2, 8)}}
    \cup {[op |-> "ADD", out |-> d, a |-> Temp(t1, 8), b |-> s] :
            d \in Results, s \in {Gpr(rax, <<1, 8>>), Const(1, 8)}}
    \cup {[op |-> "FLAGS", out |-> Const(0, 1), a |-> s, b |-> s] : s \in {Temp(t1, 8)}}
    \cup {[op |-> "GET", out |-> Gpr(rax, <<1, 0>>), a |-> Const(0, 1), b |-> Const(0, 1)]}

\* What follows a mistake is not explored.
Faultless == ~mistaken
=============================================================================

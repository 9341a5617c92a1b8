---------------------------- MODULE MCSymMemory ----------------------------
(* Instances of SymMemory for TLC.                                          *)
EXTENDS SymMemory

K(a) == [const |-> TRUE, base |-> a]
X(a) == [const |-> FALSE, base |-> a]

\* Constant addresses far enough from the end not to wrap.
Low == {K(a) : a \in 0 .. Size - 4}

Symbolic == {X(0), X(1)}

LowAndSymbolic == Low \cup Symbolic

Client(stores, loads, seeds) == [stores |-> stores, loads |-> loads, seeds |-> seeds]

\* One that stores and loads at constant addresses and at symbolic ones, in any order.
Mixing == {Client(LowAndSymbolic, LowAndSymbolic, {0, 2})}
=============================================================================

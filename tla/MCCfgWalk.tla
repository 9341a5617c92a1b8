----------------------------- MODULE MCCfgWalk -----------------------------
(* Instances of CfgWalk for TLC: every program of a tiny address space.     *)
EXTENDS CfgWalk

CONSTANTS no_byte

I(m, l, r, i) == [mnemonic |-> m, length |-> l, rel |-> r, immediate |-> i]

Plain == {I("OTHER", 1, FALSE, 0), I("OTHER", 2, FALSE, 0), I("RET", 1, FALSE, 0),
          I("INT", 1, FALSE, 0), I("JMP", 1, FALSE, 0), I("BAD", 1, FALSE, 0)}

Jumps == {I("JMP", 1, TRUE, i) : i \in Addr} \cup {I("Jcc", 1, TRUE, i) : i \in Addr}

AllPrograms == [Addr -> Plain \cup Jumps \cup {Unmapped}]
=============================================================================

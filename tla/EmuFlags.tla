------------------------------- MODULE EmuFlags -------------------------------
(***************************************************************************)
(* The status flags of the emulator (src/lib/emu/emu.cpp): how an          *)
(* addition, a subtraction and a logical operation set them, and how the   *)
(* sixteen condition codes read them.  A value of w bits is a number below *)
(* 2^w, and every operator takes that power of two, so nothing here fixes  *)
(* a width.  The xors and masks of the code test sign bits, and are        *)
(* written as comparisons of sign bits.                                    *)
(***************************************************************************)
EXTENDS Integers, FiniteSets

CONSTANTS Byte,     \* 2^8: compute_pf looks at the low byte
          Nibble,   \* 2^4: the auxiliary carry leaves the low nibble
          Qword     \* 2^64: the width whose sums wrap in the host's registers

ASSUME FlagsAssumption ==
    /\ Byte \in Nat \ {0}
    /\ Nibble \in Nat \ {0}
    /\ Qword \in Nat \ {0}

StatusFlags == {"CF", "PF", "AF", "ZF", "SF", "OF"}
FlagNames == StatusFlags \cup {"DF"}
Flags == [FlagNames -> BOOLEAN]

SignBit(x, m) == 2 * x >= m

Ones(b) == {i \in 0..8 : (b \div 2^i) % 2 = 1}
compute_pf(x) == Cardinality(Ones(x % Byte)) % 2 = 0

(***************************************************************************)
(* a + b = res, of which the code looks at the low bits only.  The carry   *)
(* of a narrow sum is read off the host's 64-bit sum; the one of a 64-bit  *)
(* sum off the wrapped result.                                             *)
(***************************************************************************)
update_flags_add(f, a0, b0, res0, m) ==
    LET a == a0 % m
        b == b0 % m
        res == res0 % m
    IN  [f EXCEPT !["CF"] = IF m < Qword THEN a + b >= m ELSE res < a,
                  !["ZF"] = res = 0,
                  !["SF"] = SignBit(res, m),
                  !["OF"] = /\ SignBit(a, m) # SignBit(res, m)
                            /\ SignBit(b, m) # SignBit(res, m),
                  !["PF"] = compute_pf(res),
                  !["AF"] = (a % Nibble) + (b % Nibble) >= Nibble]

update_flags_sub(f, a0, b0, res0, m) ==
    LET a == a0 % m
        b == b0 % m
        res == res0 % m
    IN  [f EXCEPT !["CF"] = b > a,
                  !["ZF"] = res = 0,
                  !["SF"] = SignBit(res, m),
                  !["OF"] = /\ SignBit(a, m) # SignBit(b, m)
                            /\ SignBit(a, m) # SignBit(res, m),
                  !["PF"] = compute_pf(res),
                  !["AF"] = b % Nibble > a % Nibble]

update_flags_logic(f, res0, m) ==
    LET res == res0 % m
    IN  [f EXCEPT !["CF"] = FALSE, !["OF"] = FALSE, !["AF"] = FALSE,
                  !["ZF"] = res = 0,
                  !["SF"] = SignBit(res, m),
                  !["PF"] = compute_pf(res)]

\* Slip: the signed conditions look at the sign alone.
eval_cc_NoOverflow(f, cc) ==
    LET unsigned == <<f["OF"], f["CF"], f["ZF"], f["CF"] \/ f["ZF"], f["SF"], f["PF"], f["SF"], f["ZF"] \/ f["SF"]>>
    IN  unsigned[cc \div 2 + 1] = (cc % 2 = 0)

eval_cc(f, cc) ==
    CASE cc = 0 -> f["OF"]          [] cc = 1 -> ~f["OF"]
      [] cc = 2 -> f["CF"]          [] cc = 3 -> ~f["CF"]
      [] cc = 4 -> f["ZF"]          [] cc = 5 -> ~f["ZF"]
      [] cc = 6 -> f["CF"] \/ f["ZF"]
      [] cc = 7 -> ~(f["CF"] \/ f["ZF"])
      [] cc = 8 -> f["SF"]          [] cc = 9 -> ~f["SF"]
      [] cc = 10 -> f["PF"]         [] cc = 11 -> ~f["PF"]
      [] cc = 12 -> f["SF"] # f["OF"]
      [] cc = 13 -> f["SF"] = f["OF"]
      [] cc = 14 -> f["ZF"] \/ f["SF"] # f["OF"]
      [] cc = 15 -> ~f["ZF"] /\ f["SF"] = f["OF"]
===============================================================================

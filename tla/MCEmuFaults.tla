---------------------------- MODULE MCEmuFaults ----------------------------
(* Eight addresses, six of which can be provided; words of two bytes of one bit. *)
EXTENDS EmuFaults

BitsToNumber == [w \in Word |-> w[0] + 2 * w[1]]

\* The instruction is at address 1: it may itself not be there yet.
Code == 1

Single(op) == [op |-> op, rep |-> "none", df |-> FALSE, target |-> 0]

AllInstrs ==
  {[Single(op) EXCEPT !.rep = r, !.df = d] :
      op \in Strings, r \in {"none", "F3", "F2"}, d \in BOOLEAN}
    \cup {Single(op) : op \in Plain} \cup {[Single("CALL") EXCEPT !.target = Code]}

\* Every second word is 1 1.
Patches == [a \in Address |-> IF a % 4 \in {2, 3} THEN 1 ELSE 0]
Stripes == [a \in Address |-> a % 2]

\* Pointers at either end of the memory, in it and where an access wraps.
AllStarts ==
  {[cpu |-> [rax |-> [j \in {0, 1} |-> 1], rcx |-> c, rsi |-> s, rdi |-> d, rsp |-> d,
             zf |-> FALSE, rip |-> Code], mem |-> m] :
      c \in 0 .. MaxCount, s \in {0, 1, 4, 6}, d \in {0, 2, 3, 5, 7}, m \in {Patches, Stripes}}
=============================================================================

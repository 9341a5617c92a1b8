----------------------------- MODULE LiftPasses -----------------------------
(***************************************************************************)
(* The post-passes of lift in lib/ir/ir.cpp: the loop over the op list a   *)
(* lifter produced that folds AND/OR x,x, drops self-copies, propagates    *)
(* copies through temporaries and makes the zero-extension of 32-bit       *)
(* writes explicit.  One step is one turn of that loop.                    *)
(*                                                                         *)
(* The meaning of a list is what execute_once makes of it, so instead of   *)
(* lists the model keeps two machines: direct runs the ops as lifted and   *)
(* folded runs what the loop has pushed to out_ops so far.                 *)
(*                                                                         *)
(* A register has two parts, which every slice of it reads or writes: lo   *)
(* (also as AL and EAX) and hi (also as AH, and as the upper half of RAX). *)
(* What ops compute does not matter here: ADD stands for all that are not  *)
(* COPY, AND and OR.  Memory, like flags, is state only some ops touch.    *)
(***************************************************************************)
EXTENDS Naturals, Sequences

CONSTANTS
  Regs, Temps,
  Part, Zero,    \* values of half a register
  Add, And, Or,  \* functions of two values
  Ops,           \* ops a list may consist of
  NoAlias

Value == [lo : Part, hi : Part]

\* Slices by size in bytes and first bit: RAX, EAX, AL, AH, and bits 32 to 63.
Slices == {<<8, 0>>, <<4, 0>>, <<1, 0>>, <<1, 8>>, <<4, 32>>}

\* VarNode: space, offset, <<size, bit_lo>>, value.
VarNode ==
  [space : {"gpr"}, id : Regs, slice : Slices]
    \cup [space : {"temp"}, id : Temps, slice : Slices]
    \cup [space : {"const"}, id : Value, slice : Slices]

\* FLAGS a, b sets the flags, GET reads them into out.
Op == [op : {"COPY", "AND", "OR", "ADD", "FLAGS", "GET"}, out : VarNode,
       a : VarNode, b : VarNode]

ASSUME LiftAssumption ==
  /\ Zero \in Part
  /\ {Add, And, Or} \subseteq [Value \X Value -> Value]
  /\ \A v \in Value : And[v, v] = v /\ Or[v, v] = v
  /\ Ops \subseteq Op
  /\ NoAlias \notin VarNode

VARIABLES
  direct,     \* registers, temporaries and flags after the ops as lifted
  folded,     \* the same after out_ops
  temp_alias,
  mistaken    \* the loop has made one of its known mistakes: see Mistake

vars == <<direct, folded, temp_alias, mistaken>>

Machine == [gpr : [Regs -> Value], temp : [Temps -> Value], flags : Value]

zero == [lo |-> Zero, hi |-> Zero]

Init ==
  /\ direct \in {m \in Machine : m.temp = [t \in Temps |-> zero] /\ m.flags = zero}
  /\ folded = direct
  /\ temp_alias = [t \in Temps |-> NoAlias]
  /\ mistaken = FALSE

-----------------------------------------------------------------------------
(* execute_once *)

\* The bits of a register a slice shows.
Slice(v, slice) ==
  IF slice = <<8, 0>> THEN v
  ELSE [lo |-> IF slice[2] = 0 THEN v.lo ELSE v.hi, hi |-> Zero]

\* A register v after w is written to a slice of it.
Splice(v, slice, w) ==
  IF slice = <<8, 0>> THEN w
  ELSE IF slice = <<4, 0>> THEN [lo |-> w.lo, hi |-> Zero]
  ELSE IF slice[2] = 0 THEN [lo |-> w.lo, hi |-> v.hi]
  ELSE [lo |-> v.lo, hi |-> w.lo]

\* Temporaries are read and written whole, whatever their size.
read_var(m, v) ==
  IF v.space = "gpr" THEN Slice(m.gpr[v.id], v.slice)
  ELSE IF v.space = "temp" THEN m.temp[v.id] ELSE v.id

write_var(m, v, val) ==
  IF v.space = "gpr" THEN [m EXCEPT !.gpr[v.id] = Splice(@, v.slice, val)]
  ELSE IF v.space = "temp" THEN [m EXCEPT !.temp[v.id] = val] ELSE m

Result(m, o) ==
  LET a == read_var(m, o.a)
      b == read_var(m, o.b)
  IN CASE o.op = "COPY" -> a
       [] o.op = "AND" -> And[a, b]
       [] o.op = "OR" -> Or[a, b]
       [] o.op = "GET" -> m.flags
       [] OTHER -> Add[a, b]

Exec(m, o) ==
  IF o.op = "FLAGS" THEN [m EXCEPT !.flags = Result(m, o)]
  ELSE write_var(m, o.out, Result(m, o))

-----------------------------------------------------------------------------
(* The loop *)

Aliased(t) == temp_alias[t] # NoAlias

subst(v) ==
  IF v.space = "temp" /\ Aliased(v.id) /\ temp_alias[v.id].slice = v.slice
  THEN temp_alias[v.id] ELSE v

\* (b1) and (a1)
Folds(o) == o.op \in {"AND", "OR"} /\ subst(o.a) = subst(o.b)

Rewritten(o) ==
  [o EXCEPT !.op = IF Folds(o) THEN "COPY" ELSE @, !.a = subst(@), !.b = subst(@)]

\* (a2)
SelfCopy(o) == o.op = "COPY" /\ o.out = o.a

\* (b2)
RecordsAlias(o) == o.op = "COPY" /\ o.out.space = "temp" /\ o.out.slice = o.a.slice

\* Slip: only an alias of exactly the slice that is written is invalidated.
Invalidated_SameSlice(dst) == {t \in Temps : temp_alias[t] = dst}

\* invalidate_aliases_for: aliases of any slice of the register that is written.
Invalidated(dst) ==
  {t \in Temps : dst.space = "gpr" /\ Aliased(t) /\ temp_alias[t].space = "gpr"
                   /\ temp_alias[t].id = dst.id}

\* Slip: the skipped definitions are not made up for.
Materialize_Not(m, S) == m

\* COPY tmp <- alias, for each of them.
Materialize(m, S) ==
  [m EXCEPT !.temp = [t \in Temps |-> IF t \in S THEN read_var(m, temp_alias[t]) ELSE @[t]]]

\* (c) COPY 0 to bits 32 to 63 of a register written as 32 bits.
KillUpper(m, dst) ==
  IF dst.space = "gpr" /\ dst.slice = <<4, 0>>
  THEN write_var(m, [dst EXCEPT !.slice = <<4, 32>>], zero) ELSE m

\* FLAGS has no variable for output.
Destination(o) == IF o.op = "FLAGS" THEN [space |-> "flags"] ELSE o.out

Drop(o) ==
  /\ SelfCopy(o)
  /\ UNCHANGED <<folded, temp_alias>>

Record(o) ==
  /\ ~SelfCopy(o) /\ RecordsAlias(o)
  /\ temp_alias' = [temp_alias EXCEPT ![o.out.id] = o.a]
  /\ UNCHANGED folded

Emit(o) ==
  /\ ~SelfCopy(o) /\ ~RecordsAlias(o)
  /\ LET S == Invalidated(Destination(o))
     IN /\ folded' = KillUpper(Exec(Materialize(folded, S), o), Destination(o))
        /\ temp_alias' = [t \in Temps |-> IF t \in S THEN NoAlias ELSE temp_alias[t]]

\* The turns the loop gets wrong, of an op o it has made r of.
\*
\* subst leaves a temporary alone that is read by another slice than its alias has, though
\* the write it should read was skipped.
ReadsSkipped(o) ==
  \E v \in {o.a, o.b} : v.space = "temp" /\ Aliased(v.id) /\ subst(v) = v

\* A dropped self-copy of a lower half was to clear the upper one; of a temporary with an
\* alias, to end the alias.
DropsEffect(r) ==
  /\ SelfCopy(r)
  /\ \/ r.out.space = "gpr" /\ r.out.slice = <<4, 0>>
     \/ r.out.space = "temp" /\ Aliased(r.out.id)

\* The temporaries an emitted op writes, with the copies before it.
TempsWritten(r) ==
  Invalidated(Destination(r)) \cup IF Destination(r).space = "temp" THEN {r.out.id} ELSE {}

\* invalidate_aliases_for returns at once for a temporary: the alias of one that is written
\* stays, and so do aliases of its last value, also when it is materialized.
MissesAliases(r) ==
  /\ ~SelfCopy(r) /\ ~RecordsAlias(r)
  /\ \/ Destination(r).space = "temp" /\ Aliased(r.out.id)
     \/ \E t \in Temps : Aliased(t) /\ temp_alias[t].space = "temp"
                            /\ temp_alias[t].id \in TempsWritten(r)

Mistake(o, r) == ReadsSkipped(o) \/ DropsEffect(r) \/ MissesAliases(r)

Process(o) ==
  LET r == Rewritten(o)
  IN /\ direct' = Exec(direct, o)
     /\ mistaken' = (mistaken \/ Mistake(o, r))
     /\ Drop(r) \/ Record(r) \/ Emit(r)

Next == \E o \in Ops : Process(o)

Spec == Init /\ [][Next]_vars

-----------------------------------------------------------------------------
(* What the passes promise *)

TypeOK ==
  /\ {direct, folded} \subseteq Machine
  /\ temp_alias \in [Temps -> VarNode \cup {NoAlias}]
  /\ mistaken \in BOOLEAN

\* Up to the first mistake no temporary's value is lost: every value of the lifted list is
\* in the temporary of the same name or in what it is an alias of ("materialize the temp
\* first", before the register it is an alias of is written), and reading it there gives
\* the value of the last write to it.
TempsRecoverable ==
  ~mistaken => \A t \in Temps :
    direct.temp[t] = IF Aliased(t) THEN read_var(folded, temp_alias[t]) ELSE folded.temp[t]

\* Up to the first mistake the folded list has done to registers and flags what the lifted
\* list did, after every op and whatever temporaries it wrote again ("the temp ... should
\* still hold the pre-write value at every later read").
PassesPreserveMeaning ==
  ~mistaken => folded.gpr = direct.gpr /\ folded.flags = direct.flags
=============================================================================

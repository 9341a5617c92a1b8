-------------------------- MODULE LiftPassesProofs --------------------------
(***************************************************************************)
(* For any registers, temporaries, values and arithmetic, and any op list, *)
(* the post-passes of lift keep its meaning up to their first mistake.     *)
(*                                                                         *)
(* The inductive invariant is the two properties with the types: where     *)
(* each temporary's value is found in the folded machine is what makes     *)
(* every input of an op read the same there.                               *)
(***************************************************************************)
EXTENDS LiftPasses, TLAPS

\* What the two properties say of a state.
Recovered ==
  \A t \in Temps :
    direct.temp[t] = IF Aliased(t) THEN read_var(folded, temp_alias[t]) ELSE folded.temp[t]

Agreed == folded.gpr = direct.gpr /\ folded.flags = direct.flags

Inv == TypeOK /\ TempsRecoverable /\ PassesPreserveMeaning

\* A state no mistake led to.
Sound == TypeOK /\ Recovered /\ Agreed

-----------------------------------------------------------------------------
(* Reading and writing *)

LEMMA Kinds ==
  ASSUME NEW v \in VarNode
  PROVE  /\ \/ v.space = "gpr" /\ v.id \in Regs
            \/ v.space = "temp" /\ v.id \in Temps
            \/ v.space = "const" /\ v.id \in Value
         /\ v.slice \in Slices
BY DEF VarNode

LEMMA ReadType ==
  ASSUME NEW m \in Machine, NEW v \in VarNode
  PROVE  read_var(m, v) \in Value
BY Kinds, LiftAssumption DEF read_var, Slice, Machine, Value

LEMMA SpliceType ==
  ASSUME NEW x \in Value, NEW s \in Slices, NEW w \in Value
  PROVE  Splice(x, s, w) \in Value
BY LiftAssumption DEF Splice, Value

LEMMA WriteType ==
  ASSUME NEW m \in Machine, NEW v \in VarNode, NEW w \in Value
  PROVE  write_var(m, v, w) \in Machine
<1>1. CASE v.space = "gpr"
  <2>1. v.id \in Regs /\ v.slice \in Slices
    BY <1>1, Kinds
  <2>2. Splice(m.gpr[v.id], v.slice, w) \in Value
    BY <2>1, SpliceType DEF Machine
  <2> QED
    BY <1>1, <2>1, <2>2 DEF write_var, Machine
<1>2. CASE v.space = "temp"
  BY <1>2, Kinds DEF write_var, Machine
<1>3. CASE v.space \notin {"gpr", "temp"}
  BY <1>3 DEF write_var
<1> QED
  BY <1>1, <1>2, <1>3

LEMMA ResultType ==
  ASSUME NEW m \in Machine, NEW o \in Op
  PROVE  Result(m, o) \in Value
<1>1. read_var(m, o.a) \in Value /\ read_var(m, o.b) \in Value /\ m.flags \in Value
  BY ReadType DEF Op, Machine
<1> HIDE DEF Value
<1> QED
  BY <1>1, LiftAssumption DEF Result

LEMMA ExecType ==
  ASSUME NEW m \in Machine, NEW o \in Op
  PROVE  Exec(m, o) \in Machine
<1>1. Result(m, o) \in Value /\ o.out \in VarNode
  BY ResultType DEF Op
<1>2. write_var(m, o.out, Result(m, o)) \in Machine
  BY <1>1, WriteType
<1>3. [m EXCEPT !.flags = Result(m, o)] \in Machine
  BY <1>1 DEF Machine
<1> QED
  BY <1>2, <1>3 DEF Exec

\* Copying a slice of a register to itself changes nothing, except for a lower half, which
\* it zero-extends.
LEMMA SelfSplice ==
  ASSUME NEW x \in Value, NEW s \in Slices, s # <<4, 0>>
  PROVE  Splice(x, s, Slice(x, s)) = x
BY DEF Splice, Slice, Value, Slices

\* The upper half of a register written as 32 bits is zero already: (c) only says so.
LEMMA UpperIsZero ==
  ASSUME NEW x \in Value, NEW w \in Value
  PROVE  Splice(Splice(x, <<4, 0>>, w), <<4, 32>>, zero) = Splice(x, <<4, 0>>, w)
BY DEF Splice, Value, zero

-----------------------------------------------------------------------------
(* Types *)

LEMMA SubstType ==
  ASSUME TypeOK, NEW v \in VarNode
  PROVE  subst(v) \in VarNode
<1>1. CASE v.space = "temp" /\ Aliased(v.id)
  <2>1. temp_alias[v.id] \in VarNode
    BY <1>1, Kinds DEF TypeOK, Aliased
  <2> QED
    BY <2>1 DEF subst
<1>2. CASE ~(v.space = "temp" /\ Aliased(v.id))
  BY <1>2 DEF subst
<1> QED
  BY <1>1, <1>2

LEMMA RewriteType ==
  ASSUME TypeOK, NEW o \in Op
  PROVE  /\ Rewritten(o) \in Op
         /\ Rewritten(o).op = IF Folds(o) THEN "COPY" ELSE o.op
         /\ Rewritten(o).out = o.out
         /\ Rewritten(o).a = subst(o.a)
         /\ Rewritten(o).b = subst(o.b)
<1>1. subst(o.a) \in VarNode /\ subst(o.b) \in VarNode
  BY SubstType DEF Op
<1> QED
  BY <1>1 DEF Rewritten, Op

LEMMA MaterializeType ==
  ASSUME TypeOK, NEW S \in SUBSET Temps, \A t \in S : Aliased(t)
  PROVE  Materialize(folded, S) \in Machine
<1>1. \A t \in S : read_var(folded, temp_alias[t]) \in Value
  BY ReadType DEF TypeOK, Aliased
<1> HIDE DEF Value
<1> QED
  BY <1>1 DEF Materialize, TypeOK, Machine

LEMMA KillUpperType ==
  ASSUME NEW m \in Machine, NEW r \in Op
  PROVE  KillUpper(m, Destination(r)) \in Machine
<1>1. CASE r.op # "FLAGS" /\ r.out.space = "gpr" /\ r.out.slice = <<4, 0>>
  <2>1. [r.out EXCEPT !.slice = <<4, 32>>] \in VarNode
    BY <1>1 DEF Op, VarNode, Slices
  <2>2. zero \in Value
    BY LiftAssumption DEF zero, Value
  <2> HIDE DEF Machine, VarNode, Value
  <2> QED
    BY <1>1, <2>1, <2>2, WriteType DEF KillUpper, Destination
<1>2. CASE ~(r.op # "FLAGS" /\ r.out.space = "gpr" /\ r.out.slice = <<4, 0>>)
  BY <1>2 DEF KillUpper, Destination
<1> QED
  BY <1>1, <1>2

\* No turn disturbs the types, whether it is a mistake or not.
LEMMA TypeNext ==
  ASSUME TypeOK, NEW o \in Op, Process(o)
  PROVE  TypeOK'
<1> DEFINE r == Rewritten(o)
<1>1. /\ direct' = Exec(direct, o)
      /\ mistaken' = (mistaken \/ Mistake(o, r))
      /\ Drop(r) \/ Record(r) \/ Emit(r)
  BY DEF Process
<1>2. r \in Op
  BY RewriteType
<1> HIDE DEF r
<1>3. direct' \in Machine
  BY <1>1, ExecType DEF TypeOK
<1>4. mistaken' \in BOOLEAN
  BY <1>1 DEF TypeOK, Mistake, ReadsSkipped, DropsEffect, MissesAliases
<1>5. CASE Drop(r)
  BY <1>3, <1>4, <1>5 DEF Drop, TypeOK
<1>6. CASE Record(r)
  <2>1. r.out.id \in Temps /\ r.a \in VarNode
    BY <1>2, <1>6, Kinds DEF Record, RecordsAlias, Op
  <2> QED
    BY <1>3, <1>4, <1>6, <2>1 DEF Record, TypeOK
<1>7. CASE Emit(r)
  <2> DEFINE S == Invalidated(Destination(r))
  <2>1. S \in SUBSET Temps /\ \A t \in S : Aliased(t)
    BY DEF Invalidated
  <2>2. /\ folded' = KillUpper(Exec(Materialize(folded, S), r), Destination(r))
        /\ temp_alias' = [t \in Temps |-> IF t \in S THEN NoAlias ELSE temp_alias[t]]
    BY <1>7 DEF Emit
  <2> HIDE DEF S
  <2>3. folded' \in Machine
    BY <1>2, <2>1, <2>2, MaterializeType, ExecType, KillUpperType
  <2> QED
    BY <1>3, <1>4, <2>2, <2>3 DEF TypeOK
<1> QED
  BY <1>1, <1>5, <1>6, <1>7

-----------------------------------------------------------------------------
(* Rewriting *)

\* The temporary t holds what another means.
IsTarget(t) == \E u \in Temps : /\ Aliased(u) /\ temp_alias[u].space = "temp"
                                /\ temp_alias[u].id = t

\* v is not a temporary whose write was skipped and that is not substituted.
Readable(v) == ~(v.space = "temp" /\ Aliased(v.id) /\ subst(v) = v)

LEMMA SubstSound ==
  ASSUME Sound, NEW v \in VarNode, Readable(v)
  PROVE  /\ subst(v) \in VarNode
         /\ read_var(folded, subst(v)) = read_var(direct, v)
         /\ subst(v).space = "temp" => ~Aliased(subst(v).id) \/ IsTarget(subst(v).id)
<1>1. CASE v.space = "temp" /\ Aliased(v.id)
  <2>1. v.id \in Temps
    BY <1>1, Kinds
  <2>2. subst(v) = temp_alias[v.id]
    BY <1>1 DEF subst, Readable
  <2>3. read_var(folded, temp_alias[v.id]) = direct.temp[v.id]
    BY <1>1, <2>1 DEF Sound, Recovered
  <2>4. read_var(direct, v) = direct.temp[v.id]
    BY <1>1 DEF read_var
  <2>5. temp_alias[v.id].space = "temp" => IsTarget(temp_alias[v.id].id)
    BY <1>1, <2>1 DEF IsTarget
  <2>6. subst(v) \in VarNode
    BY SubstType DEF Sound
  <2> QED
    BY <2>2, <2>3, <2>4, <2>5, <2>6
<1>2. CASE ~(v.space = "temp" /\ Aliased(v.id))
  <2>1. subst(v) = v
    BY <1>2 DEF subst
  <2>2. read_var(folded, v) = read_var(direct, v)
    <3>1. CASE v.space = "gpr"
      BY <3>1 DEF Sound, Agreed, read_var
    <3>2. CASE v.space = "temp"
      <4>1. v.id \in Temps /\ ~Aliased(v.id)
        BY <1>2, <3>2, Kinds
      <4>2. direct.temp[v.id] = folded.temp[v.id]
        BY <4>1 DEF Sound, Recovered
      <4> QED
        BY <3>2, <4>2 DEF read_var
    <3>3. CASE v.space \notin {"gpr", "temp"}
      BY <3>3 DEF read_var
    <3> QED
      BY <3>1, <3>2, <3>3
  <2> QED
    BY <1>2, <2>1, <2>2
<1> QED
  BY <1>1, <1>2

\* What is known of r, the op o becomes.
Rewrites(r, o) ==
  /\ r \in Op
  /\ r.out = o.out
  /\ r.a = subst(o.a)
  /\ r.b = subst(o.b)
  /\ Result(folded, r) = Result(direct, o)
  /\ r.op = "FLAGS" <=> o.op = "FLAGS"

LEMMA RewriteSound ==
  ASSUME Sound, NEW o \in Op, Readable(o.a), Readable(o.b)
  PROVE  Rewrites(Rewritten(o), o)
<1> DEFINE r == Rewritten(o)
<1>1. o.a \in VarNode /\ o.b \in VarNode /\ o.out \in VarNode
  BY DEF Op
<1>2. read_var(folded, subst(o.a)) = read_var(direct, o.a)
  BY <1>1, SubstSound
<1>3. read_var(folded, subst(o.b)) = read_var(direct, o.b)
  BY <1>1, SubstSound
<1>4. /\ r.op = IF Folds(o) THEN "COPY" ELSE o.op
      /\ r.out = o.out /\ r.a = subst(o.a) /\ r.b = subst(o.b)
      /\ r \in Op
  BY RewriteType DEF Sound
<1>6. Result(folded, r) = Result(direct, o)
  <2>1. CASE Folds(o)
    <3>1. read_var(direct, o.a) = read_var(direct, o.b)
      BY <1>2, <1>3, <2>1 DEF Folds
    <3>2. Result(direct, o) = read_var(direct, o.a)
      <4>1. read_var(direct, o.a) \in Value
        BY <1>1, ReadType DEF Sound, TypeOK
      <4> HIDE DEF Value
      <4> QED
        BY <2>1, <3>1, <4>1, LiftAssumption DEF Folds, Result
    <3>3. Result(folded, r) = read_var(folded, r.a)
      <4> HIDE DEF r
      <4> QED
        BY <1>4, <2>1 DEF Result
    <3> QED
      BY <1>2, <1>4, <3>2, <3>3
  <2>2. CASE ~Folds(o)
    <3> HIDE DEF r
    <3> QED
      BY <1>2, <1>3, <1>4, <2>2 DEF Result, Sound, Agreed
  <2> QED
    BY <2>1, <2>2
<1>7. Folds(o) => o.op \in {"AND", "OR"}
  BY DEF Folds
<1> HIDE DEF r
<1>8. Rewrites(r, o)
  BY <1>4, <1>6, <1>7 DEF Rewrites
<1> QED
  BY <1>8 DEF r

-----------------------------------------------------------------------------
(* The three outcomes of a turn *)

\* What is known of a turn that is no mistake, whatever its outcome.
Turn(r, o) ==
  /\ Sound
  /\ o \in Op
  /\ Rewrites(r, o)
  /\ Readable(o.a) /\ Readable(o.b)
  /\ ~DropsEffect(r) /\ ~MissesAliases(r)
  /\ direct' = Exec(direct, o)
  /\ TypeOK'

\* (a2): a self-copy that is dropped would have changed nothing.
LEMMA DropKeeps ==
  ASSUME NEW o, NEW r, Turn(r, o), Drop(r)
  PROVE  Recovered' /\ Agreed'
<1>1. /\ r.op = "COPY" /\ r.out = r.a /\ r.out = o.out /\ o.op # "FLAGS"
      /\ o.out \in VarNode /\ o \in Op
      /\ o.out.space = "gpr" => o.out.slice # <<4, 0>>
      /\ o.out.space = "temp" => ~Aliased(o.out.id)
  BY DEF Turn, Rewrites, Drop, SelfCopy, DropsEffect, Op
<1>2. Result(direct, o) = read_var(folded, o.out)
  BY <1>1 DEF Turn, Rewrites, Result
<1>3. direct' = write_var(direct, o.out, read_var(folded, o.out))
  BY <1>1, <1>2 DEF Turn, Exec
<1>4. direct' = direct
  <2>1. CASE o.out.space = "gpr"
    <3>1. o.out.id \in Regs /\ o.out.slice \in Slices
      BY <1>1, <2>1, Kinds
    <3>2. direct.gpr[o.out.id] \in Value /\ folded.gpr = direct.gpr
      BY <3>1 DEF Turn, Sound, TypeOK, Machine, Agreed
    <3>3. Splice(direct.gpr[o.out.id], o.out.slice, read_var(folded, o.out)) = direct.gpr[o.out.id]
      BY <1>1, <2>1, <3>1, <3>2, SelfSplice DEF read_var
    <3> QED
      BY <1>3, <2>1, <3>3 DEF write_var, Turn, Sound, TypeOK, Machine
  <2>2. CASE o.out.space = "temp"
    <3>1. direct.temp[o.out.id] = folded.temp[o.out.id]
      BY <1>1, <2>2, Kinds DEF Turn, Sound, Recovered
    <3> QED
      BY <1>3, <2>2, <3>1 DEF read_var, write_var, Turn, Sound, TypeOK, Machine
  <2>3. CASE o.out.space \notin {"gpr", "temp"}
    BY <1>3, <2>3 DEF write_var
  <2> QED
    BY <2>1, <2>2, <2>3
<1>5. folded' = folded /\ temp_alias' = temp_alias
  BY DEF Drop
<1> QED
  BY <1>4, <1>5 DEF Turn, Sound, Recovered, Agreed, Aliased

\* (b2): the temporary that is not written is an alias of a variable with its value.  What
\* the temporary held is still in folded.temp, for those it was the alias of.
LEMMA RecordKeeps ==
  ASSUME NEW o, NEW r, Turn(r, o), Record(r)
  PROVE  Recovered' /\ Agreed'
<1> DEFINE t == o.out.id
<1>1. /\ r.op = "COPY" /\ r.out = o.out /\ o.op # "FLAGS"
      /\ o \in Op /\ o.out \in VarNode /\ o.out.space = "temp" /\ r.a \in VarNode
  BY DEF Turn, Rewrites, Record, RecordsAlias, Op
<1>2. t \in Temps
  BY <1>1, Kinds
<1>3. folded' = folded /\ temp_alias' = [temp_alias EXCEPT ![t] = r.a]
  BY <1>1 DEF Record
<1>4. direct' = [direct EXCEPT !.temp[t] = read_var(folded, r.a)]
  <2>1. Result(direct, o) = read_var(folded, r.a)
    BY <1>1 DEF Turn, Rewrites, Result
  <2> QED
    BY <1>1, <2>1 DEF Turn, Exec, write_var
<1>5. /\ direct'.gpr = direct.gpr /\ direct'.flags = direct.flags
      /\ \A u \in Temps : direct'.temp[u] =
            IF u = t THEN read_var(folded, r.a) ELSE direct.temp[u]
  BY <1>2, <1>4 DEF Turn, Sound, TypeOK, Machine
<1>6. /\ \A u \in Temps : temp_alias'[u] = IF u = t THEN r.a ELSE temp_alias[u]
      /\ r.a # NoAlias
  BY <1>1, <1>2, <1>3, LiftAssumption DEF Turn, Sound, TypeOK
<1> HIDE DEF t
<1>7. Recovered'
  BY <1>3, <1>5, <1>6 DEF Turn, Sound, Recovered, Aliased
<1> QED
  BY <1>3, <1>5, <1>7 DEF Turn, Sound, Agreed

\* A variable that is an input of an op reads the same once the aliases S were
\* materialized, if none of them is the target of another.
LEMMA MaterializeKeepsReads ==
  ASSUME Sound, NEW v \in VarNode, Readable(v), NEW S \in SUBSET Temps,
         \A t \in S : Aliased(t) /\ ~IsTarget(t)
  PROVE  read_var(Materialize(folded, S), subst(v)) = read_var(direct, v)
<1> DEFINE m == Materialize(folded, S)
<1>1. m.gpr = folded.gpr /\ \A t \in Temps \ S : m.temp[t] = folded.temp[t]
  BY DEF Materialize, Sound, TypeOK, Machine
<1>2. /\ subst(v) \in VarNode
      /\ read_var(folded, subst(v)) = read_var(direct, v)
      /\ subst(v).space = "temp" => ~Aliased(subst(v).id) \/ IsTarget(subst(v).id)
  BY SubstSound
<1>3. subst(v).space = "temp" => subst(v).id \in Temps \ S
  BY <1>2, Kinds
<1> HIDE DEF m
<1>4. read_var(m, subst(v)) = read_var(folded, subst(v))
  BY <1>1, <1>3 DEF read_var
<1> QED
  BY <1>2, <1>4 DEF m

\* After a write both machines make, registers agree, and every temporary but the one that
\* is written reads as before, unless it was an alias of the register that is written.
LEMMA EmitKeeps ==
  ASSUME NEW o, NEW r, Turn(r, o), Emit(r)
  PROVE  Recovered' /\ Agreed'
<1> DEFINE S == Invalidated(Destination(r))
           m == Materialize(folded, S)
           w == Result(direct, o)
<1>1. /\ o \in Op /\ r \in Op /\ r.out = o.out /\ o.out \in VarNode
      /\ o.a \in VarNode /\ o.b \in VarNode /\ r.a = subst(o.a) /\ r.b = subst(o.b)
      /\ r.op = "FLAGS" <=> o.op = "FLAGS"
      /\ w \in Value
      /\ direct' = Exec(direct, o)
      /\ Result(folded, r) = w
  BY ResultType DEF Turn, Rewrites, Op, Sound, TypeOK
<1>2. /\ folded' = KillUpper(Exec(m, r), Destination(r))
      /\ temp_alias' = [t \in Temps |-> IF t \in S THEN NoAlias ELSE temp_alias[t]]
  BY DEF Emit
<1>3. /\ S \in SUBSET Temps /\ \A t \in S : Aliased(t)
      /\ \A t \in S : ~IsTarget(t)
      /\ Destination(r).space = "temp" => ~Aliased(r.out.id) /\ ~IsTarget(r.out.id)
  <2>1. S \in SUBSET Temps /\ \A t \in S : Aliased(t)
    BY DEF Invalidated
  <2>2. S \subseteq TempsWritten(r)
    BY DEF TempsWritten
  <2>3. Destination(r).space = "temp" => r.out.id \in TempsWritten(r)
    BY DEF TempsWritten
  <2>4. /\ Destination(r).space = "temp" => ~Aliased(r.out.id)
        /\ \A t \in TempsWritten(r) : ~IsTarget(t)
    BY DEF Turn, Emit, MissesAliases, IsTarget
  <2> QED
    BY <2>1, <2>2, <2>3, <2>4
<1>4. /\ m \in Machine /\ m.gpr = direct.gpr /\ m.flags = direct.flags
      /\ \A t \in Temps : m.temp[t] = IF t \in S THEN direct.temp[t] ELSE folded.temp[t]
  <2>1. \A t \in S : read_var(folded, temp_alias[t]) = direct.temp[t]
    BY <1>3 DEF Turn, Sound, Recovered
  <2>2. m = [folded EXCEPT !.temp = [t \in Temps |-> IF t \in S THEN direct.temp[t] ELSE folded.temp[t]]]
    BY <2>1 DEF Materialize
  <2> HIDE DEF m, S
  <2> QED
    BY <2>2 DEF Turn, Sound, TypeOK, Machine, Agreed
<1>5. Result(m, r) = w
  <2>1. /\ read_var(m, r.a) = read_var(direct, o.a)
        /\ read_var(m, r.b) = read_var(direct, o.b)
    BY <1>1, <1>3, MaterializeKeepsReads DEF Turn
  <2>2. /\ read_var(folded, r.a) = read_var(direct, o.a)
        /\ read_var(folded, r.b) = read_var(direct, o.b)
    BY <1>1, SubstSound DEF Turn
  <2>3. folded.flags = m.flags
    BY <1>4 DEF Turn, Sound, Agreed
  <2> HIDE DEF m, w
  <2>4. Result(m, r) = Result(folded, r)
    BY <2>1, <2>2, <2>3 DEF Result
  <2> QED
    BY <1>1, <2>4
<1>8. \A t \in Temps : Aliased(t)' <=> Aliased(t) /\ t \notin S
  BY <1>2 DEF Aliased
<1>12. CASE o.op = "FLAGS"
  <2>1. direct' = [direct EXCEPT !.flags = w]
    BY <1>1, <1>12 DEF Exec
  <2>2. Destination(r) = [space |-> "flags"] /\ S = {}
    BY <1>1, <1>12 DEF Destination, Invalidated
  <2>3. folded' = [m EXCEPT !.flags = w]
    BY <1>1, <1>2, <1>5, <1>12, <2>2 DEF Exec, KillUpper
  <2>4. /\ folded' \in Machine /\ folded'.gpr = direct.gpr /\ folded'.temp = m.temp
        /\ folded'.flags = w /\ direct'.flags = w
        /\ direct'.gpr = direct.gpr /\ direct'.temp = direct.temp
    BY <1>1, <1>4, <2>1, <2>3 DEF Machine, Turn, Sound, TypeOK
  <2>5. folded'.temp = folded.temp /\ folded'.gpr = folded.gpr /\ temp_alias' = temp_alias
    BY <1>2, <1>4, <2>2, <2>4 DEF Turn, Sound, TypeOK, Machine, Agreed
  <2> QED
    BY <2>4, <2>5 DEF Turn, Sound, Recovered, Agreed, Aliased, read_var
<1>13. ASSUME o.op # "FLAGS"
       PROVE  /\ Destination(r) = o.out
              /\ direct' = write_var(direct, o.out, w)
              /\ folded' = KillUpper(write_var(m, o.out, w), o.out)
  BY <1>1, <1>2, <1>5, <1>13 DEF Destination, Exec
<1>14. CASE o.op # "FLAGS" /\ o.out.space = "gpr"
  <2> DEFINE g == o.out.id
             x == Splice(direct.gpr[g], o.out.slice, w)
  <2>1. g \in Regs /\ direct.gpr[g] \in Value /\ x \in Value
    BY <1>1, <1>14, Kinds, SpliceType DEF Turn, Sound, TypeOK, Machine
  <2>2. direct' = [direct EXCEPT !.gpr[g] = x]
    BY <1>13, <1>14 DEF write_var
  <2>3. folded' = [m EXCEPT !.gpr[g] = x]
    <3>1. write_var(m, o.out, w) = [m EXCEPT !.gpr[g] = x]
      BY <1>4, <1>14, <2>1 DEF write_var, Machine
    <3>2. CASE o.out.slice = <<4, 0>>
      <4>1. Splice(x, <<4, 32>>, zero) = x
        BY <1>1, <2>1, <3>2, UpperIsZero
      <4> DEFINE f == [m EXCEPT !.gpr[g] = x]
                 hi == [o.out EXCEPT !.slice = <<4, 32>>]
      <4>2. f \in Machine /\ f.gpr[g] = x
        BY <1>4, <2>1 DEF Machine
      <4>3. hi.space = "gpr" /\ hi.id = g /\ hi.slice = <<4, 32>>
        BY <1>1, <1>14 DEF VarNode
      <4>4. folded' = write_var(f, hi, zero)
        BY <1>13, <1>14, <3>1, <3>2 DEF KillUpper
      <4> HIDE DEF f, hi, x
      <4>5. folded' = [f EXCEPT !.gpr[g] = x]
        BY <4>1, <4>2, <4>3, <4>4 DEF write_var
      <4>6. folded' = f
        BY <4>2, <4>5, <2>1 DEF Machine
      <4> QED
        BY <4>6 DEF f
    <3>3. CASE o.out.slice # <<4, 0>>
      BY <1>13, <1>14, <3>1, <3>3 DEF KillUpper
    <3> QED
      BY <3>2, <3>3
  <2> HIDE DEF x, m, S, w
  <2>4. /\ folded' \in Machine
        /\ folded'.gpr = direct'.gpr /\ folded'.flags = direct'.flags
        /\ folded'.temp = m.temp /\ direct'.temp = direct.temp
        /\ \A i \in Regs : i # g => folded'.gpr[i] = direct.gpr[i]
    BY <1>4, <2>1, <2>2, <2>3 DEF Machine, Turn, Sound, TypeOK
  <2>5. ASSUME NEW t \in Temps, Aliased(t), t \notin S
        PROVE  read_var(folded', temp_alias[t]) = read_var(folded, temp_alias[t])
    <3>1. temp_alias[t] \in VarNode /\ ~(temp_alias[t].space = "gpr" /\ temp_alias[t].id = g)
      BY <1>1, <1>13, <1>14, <2>5 DEF Turn, Sound, TypeOK, Aliased, S, Invalidated
    <3>2. CASE temp_alias[t].space = "gpr"
      <4>1. folded'.gpr[temp_alias[t].id] = folded.gpr[temp_alias[t].id]
        BY <2>4, <3>1, <3>2, Kinds DEF Turn, Sound, Agreed
      <4> QED
        BY <3>2, <4>1 DEF read_var
    <3>3. CASE temp_alias[t].space = "temp"
      <4>1. temp_alias[t].id \in Temps /\ temp_alias[t].id \notin S
        BY <1>3, <2>5, <3>1, <3>3, Kinds DEF IsTarget
      <4>2. folded'.temp[temp_alias[t].id] = folded.temp[temp_alias[t].id]
        BY <1>3, <1>4, <2>4, <4>1
      <4> QED
        BY <3>3, <4>2 DEF read_var
    <3>4. CASE temp_alias[t].space \notin {"gpr", "temp"}
      BY <3>4 DEF read_var
    <3> QED
      BY <3>2, <3>3, <3>4
  <2>6. ASSUME NEW t \in Temps
        PROVE  direct'.temp[t] = IF Aliased(t)' THEN read_var(folded', temp_alias'[t]) ELSE folded'.temp[t]
    <3>1. CASE t \in S
      BY <1>4, <1>8, <2>4, <2>6, <3>1
    <3>2. CASE t \notin S /\ Aliased(t)
      <4>1. temp_alias'[t] = temp_alias[t] /\ Aliased(t)'
        BY <1>2, <1>8, <2>6, <3>2
      <4>2. read_var(folded', temp_alias[t]) = direct.temp[t]
        BY <2>5, <2>6, <3>2 DEF Turn, Sound, Recovered
      <4> QED
        BY <2>4, <4>1, <4>2
    <3>3. CASE t \notin S /\ ~Aliased(t)
      BY <1>4, <1>8, <2>4, <2>6, <3>3 DEF Turn, Sound, Recovered
    <3> QED
      BY <3>1, <3>2, <3>3
  <2> QED
    BY <2>4, <2>6 DEF Recovered, Agreed, Aliased
<1>15. CASE o.op # "FLAGS" /\ o.out.space # "gpr"
  <2>1. S = {} /\ folded' = write_var(m, o.out, w)
    BY <1>13, <1>15 DEF Invalidated, KillUpper
  <2>2. m.temp = folded.temp /\ m.gpr = folded.gpr /\ temp_alias' = temp_alias
    BY <1>2, <1>4, <2>1 DEF Turn, Sound, TypeOK, Machine, Agreed
  <2> HIDE DEF m, S, w
  <2>3. CASE o.out.space = "temp"
    <3> DEFINE u == o.out.id
    <3>1. /\ u \in Temps /\ ~Aliased(u)
          /\ \A t \in Temps : Aliased(t) /\ temp_alias[t].space = "temp" => temp_alias[t].id # u
      BY <1>1, <1>3, <1>13, <1>15, <2>3, Kinds DEF IsTarget
    <3>2. direct' = [direct EXCEPT !.temp[u] = w] /\ folded' = [m EXCEPT !.temp[u] = w]
      BY <1>13, <1>15, <2>1, <2>3 DEF write_var
    <3> HIDE DEF u
    <3>3. /\ folded' \in Machine
          /\ folded'.gpr = direct.gpr /\ folded'.flags = direct.flags
          /\ direct'.gpr = direct.gpr /\ direct'.flags = direct.flags
          /\ folded'.temp = [folded.temp EXCEPT ![u] = w]
          /\ direct'.temp = [direct.temp EXCEPT ![u] = w]
      BY <1>1, <1>4, <2>2, <3>1, <3>2 DEF Machine, Turn, Sound, TypeOK
    <3>4. ASSUME NEW t \in Temps, Aliased(t)
          PROVE  read_var(folded', temp_alias[t]) = read_var(folded, temp_alias[t])
      BY <3>1, <3>3, <3>4 DEF read_var, Turn, Sound, TypeOK, Machine, Agreed
    <3>5. \A t \in Temps : direct'.temp[t] =
            IF Aliased(t) THEN read_var(folded', temp_alias[t]) ELSE folded'.temp[t]
      BY <3>1, <3>3, <3>4 DEF Turn, Sound, TypeOK, Machine, Recovered
    <3> QED
      BY <2>2, <3>3, <3>5 DEF Recovered, Agreed, Aliased
  <2>4. CASE o.out.space # "temp"
    <3>1. direct' = direct /\ folded' = m
      BY <1>13, <1>15, <2>1, <2>4 DEF write_var
    <3>2. m = folded
      BY <1>4, <2>2 DEF Machine, Turn, Sound, TypeOK, Agreed
    <3> QED
      BY <1>4, <2>2, <3>1, <3>2 DEF Turn, Sound, Recovered, Agreed, Aliased
  <2> QED
    BY <2>3, <2>4
<1> QED
  BY <1>12, <1>14, <1>15

-----------------------------------------------------------------------------
(* The theorems *)

LEMMA InvInit ==
  ASSUME Init
  PROVE  Inv
<1>1. direct \in Machine /\ folded = direct /\ mistaken = FALSE
  BY DEF Init
<1>2. temp_alias \in [Temps -> VarNode \cup {NoAlias}] /\ \A t \in Temps : ~Aliased(t)
  BY DEF Init, Aliased
<1> QED
  BY <1>1, <1>2 DEF Inv, TypeOK, TempsRecoverable, PassesPreserveMeaning

LEMMA InvNext ==
  ASSUME Inv, Next
  PROVE  Inv'
<1>1. PICK o \in Ops : Process(o)
  BY DEF Next
<1> DEFINE r == Rewritten(o)
<1>2. o \in Op
  BY LiftAssumption
<1>3. TypeOK'
  BY <1>1, <1>2, TypeNext DEF Inv
<1>4. /\ direct' = Exec(direct, o)
      /\ mistaken' = (mistaken \/ Mistake(o, r))
      /\ Drop(r) \/ Record(r) \/ Emit(r)
  BY <1>1 DEF Process
<1>5. ASSUME ~mistaken'
      PROVE  Recovered' /\ Agreed'
  <2>1. ~mistaken /\ ~ReadsSkipped(o) /\ ~DropsEffect(r) /\ ~MissesAliases(r)
    BY <1>4, <1>5 DEF Mistake
  <2>2. Sound
    BY <2>1 DEF Sound, Inv, TempsRecoverable, PassesPreserveMeaning, Recovered, Agreed
  <2>3. Readable(o.a) /\ Readable(o.b)
    BY <2>1 DEF ReadsSkipped, Readable
  <2>4. Rewrites(r, o)
    BY <1>2, <2>2, <2>3, RewriteSound
  <2> HIDE DEF r
  <2>5. Turn(r, o)
    BY <1>2, <1>3, <1>4, <2>1, <2>2, <2>3, <2>4 DEF Turn
  <2> QED
    BY <1>4, <2>5, DropKeeps, RecordKeeps, EmitKeeps
<1> QED
  BY <1>3, <1>5 DEF Inv, TempsRecoverable, PassesPreserveMeaning, Recovered, Agreed

LEMMA Invariance == Spec => []Inv
<1>1. Init => Inv
  BY InvInit
<1>2. Inv /\ [Next]_vars => Inv'
  <2>1. Inv /\ UNCHANGED vars => Inv'
    BY DEF vars, Inv, TypeOK, TempsRecoverable, PassesPreserveMeaning, Aliased
  <2> QED
    BY <2>1, InvNext
<1> QED
  BY <1>1, <1>2, PTL DEF Spec

\* For every op list, also one that writes temporaries again, the folded list leaves
\* registers and flags as the lifted one, unless a turn made one of the mistakes of Mistake.
THEOREM MeaningPreserved == Spec => []PassesPreserveMeaning
<1>1. Inv => PassesPreserveMeaning
  BY DEF Inv
<1> QED
  BY <1>1, Invariance, PTL

\* For every op list the value of a temporary whose definition was skipped is still in the
\* variable it is an alias of, or was materialized in time, unless a turn made a mistake.
THEOREM SnapshotsInTime == Spec => []TempsRecoverable
<1>1. Inv => TempsRecoverable
  BY DEF Inv
<1> QED
  BY <1>1, Invariance, PTL
=============================================================================

------------------------------ MODULE SymxEngine ------------------------------
(***************************************************************************)
(* The path exploration of lib/symx/symx.cpp: Engine::run with forking at  *)
(* branches, merging of states that meet again, symbolic jump targets, the *)
(* shadow call stack and the caps, and Engine::run_block.                  *)
(*                                                                         *)
(* An expression is abstracted to what it denotes: a function from the     *)
(* possible inputs of the analysed program to values.  A predicate is the  *)
(* set of inputs that satisfy it, and a path condition a sequence of such  *)
(* sets.  Expressions with one denotation are taken to be one expression,  *)
(* as if hash-consing and the builder's rewrites were complete.  The       *)
(* instructions are the few that Engine::apply_op treats differently;      *)
(* those that havoc their results, and REP, are left out.  Programs keep   *)
(* to call discipline: they do not write over return addresses.            *)
(***************************************************************************)
EXTENDS Integers, Sequences, FiniteSets, SequencesExt

CONSTANTS
  Inputs,      \* the initial values of register r0 and of memory
  Setups,      \* what may be explored, and how (see Setup)
  StopAt,      \* the address at which stop(s) holds; no program goes beyond it
  max_steps_per_path,
  max_visits_per_rip

VARIABLES
  setup,     \* the program, the build and the configuration
  queue,     \* forked states still to run
  cur,       \* <<s>> while state s runs, <<>> between two paths
  steps,     \* instructions of the current path
  finished,  \* the result of run
  dropped,   \* inputs whose path was given up at a cap or by the solver
  concrete   \* for each input, the states a real run goes through

vars == <<setup, queue, cur, steps, finished, dropped, concrete>>

Regs == {"r0", "r1"}
Expr == [Inputs -> Nat]

\* Ops of apply_op: mov r <- c, load r, store r, jeq r = c (CBRANCH to t), jmp t
\* (BRANCH), jmpr r (INDIRECT_JMP), call t, callr r (VCALL) and ret.
Instr == [op : {"mov", "load", "store", "jeq", "jmp", "jmpr", "call", "callr", "ret"},
          r : Regs, c : Nat, t : Nat]

\* prog: the program read_code_ shows, at addresses 0 .. Len(prog) - 1; smt: built with
\* VEDX64_Z3; gives_up: Z3 may answer unknown; block: run_block is called, not run; the
\* rest is Config.
Setup == [prog : Seq(Instr), smt : BOOLEAN, gives_up : BOOLEAN, block : BOOLEAN,
          enable_merging : BOOLEAN, max_fork_depth : Nat, max_enumerate_targets : Nat]

State == [gpr : [Regs -> Expr], mem : Expr, rip : Nat, pc : Seq(SUBSET Inputs),
          fork_depth : Nat, visits : [0 .. StopAt -> Nat], call_stack : Seq(Nat)]

ASSUME SymxAssumption ==
  /\ Inputs \subseteq Nat /\ IsFiniteSet(Inputs) /\ Inputs # {}
  /\ StopAt \in Nat
  /\ {max_steps_per_path, max_visits_per_rip} \subseteq Nat
  /\ Setups \subseteq Setup
  /\ \A s \in Setups : Len(s.prog) <= StopAt + 1

k(c) == [v \in Inputs |-> c]
is_const(e) == \A v, w \in Inputs : e[v] = e[w]
Value(e) == e[CHOOSE v \in Inputs : TRUE]

\* The inputs a path stands for.
Models(s) == {v \in Inputs : \A i \in DOMAIN s.pc : v \in s.pc[i]}

-----------------------------------------------------------------------------
(* The machine the engine analyses *)

ConcreteStep(p, m) ==
  IF m.rip \notin 0 .. Len(p) - 1 THEN m
  ELSE LET i == p[m.rip + 1]
           next == m.rip + 1
       IN CASE i.op = "mov" -> [m EXCEPT !.gpr[i.r] = i.c, !.rip = next]
            [] i.op = "load" -> [m EXCEPT !.gpr[i.r] = m.mem, !.rip = next]
            [] i.op = "store" -> [m EXCEPT !.mem = m.gpr[i.r], !.rip = next]
            [] i.op = "jeq" -> [m EXCEPT !.rip = IF m.gpr[i.r] = i.c THEN i.t ELSE next]
            [] i.op = "jmp" -> [m EXCEPT !.rip = i.t]
            [] i.op = "jmpr" -> [m EXCEPT !.rip = m.gpr[i.r]]
            [] i.op = "call" -> [m EXCEPT !.rip = i.t, !.calls = Append(@, next)]
            [] i.op = "callr" -> [m EXCEPT !.rip = m.gpr[i.r], !.calls = Append(@, next)]
            [] i.op = "ret" -> IF m.calls = <<>> THEN [m EXCEPT !.rip = m.mem]
                               ELSE [m EXCEPT !.rip = Last(m.calls), !.calls = Front(@)]

\* No path of the engine executes more instructions: its visit counts survive forks
\* and merges, its step count does not.
Longest(p) == max_visits_per_rip * Len(p)

\* The run on input v.
Run(p, v) ==
  LET run[n \in 0 .. Longest(p)] ==
        IF n = 0 THEN [rip |-> 0, gpr |-> [r0 |-> v, r1 |-> 1], mem |-> v, calls |-> <<>>]
        ELSE ConcreteStep(p, run[n - 1])
  IN run

Trajectory(p, v) == {Run(p, v)[n] : n \in 0 .. Longest(p)}

-----------------------------------------------------------------------------
(* State *)

\* State::fork
fork(s) == [s EXCEPT !.fork_depth = @ + 1]

push(s, cond) == [s EXCEPT !.pc = Append(@, cond)]

common_pc_prefix(s, other) ==
  LET Same(n) == \A i \in 1 .. n : s.pc[i] = other.pc[i]
      n0 == IF Len(s.pc) < Len(other.pc) THEN Len(s.pc) ELSE Len(other.pc)
  IN CHOOSE n \in 0 .. n0 : Same(n) /\ (n = n0 \/ ~Same(n + 1))

\* Slip: the call stacks are not compared.
can_merge_with_AnyStack(s, other) ==
  /\ s.rip = other.rip
  /\ s.fork_depth = other.fork_depth
  /\ common_pc_prefix(s, other) < Len(s.pc)
  /\ common_pc_prefix(s, other) < Len(other.pc)

can_merge_with(s, other) ==
  /\ s.rip = other.rip
  /\ s.fork_depth = other.fork_depth
  /\ s.call_stack = other.call_stack
  /\ common_pc_prefix(s, other) < Len(s.pc)
  /\ common_pc_prefix(s, other) < Len(other.pc)

\* The AND of the terms after the first cp.
Tail_(s, cp) == {v \in Inputs : \A i \in cp + 1 .. Len(s.pc) : v \in s.pc[i]}

\* Slip: the merged state keeps the condition of this only.
merge_diamond_OneTail(s, other) ==
  LET cp == common_pc_prefix(s, other)
      dist == Tail_(s, cp)
  IN [s EXCEPT !.gpr = [r \in Regs |-> [v \in Inputs |->
                          IF v \in dist THEN s.gpr[r][v] ELSE other.gpr[r][v]]],
               !.pc = Append(SubSeq(@, 1, cp), dist)]

\* The memory of other is lost.
merge_diamond(s, other) ==
  LET cp == common_pc_prefix(s, other)
      dist == Tail_(s, cp)
  IN [s EXCEPT !.gpr = [r \in Regs |-> [v \in Inputs |->
                          IF v \in dist THEN s.gpr[r][v] ELSE other.gpr[r][v]]],
               !.pc = Append(SubSeq(@, 1, cp), dist \cup Tail_(other, cp)),
               !.visits = [a \in DOMAIN @ |-> IF @[a] < other.visits[a]
                                                THEN other.visits[a] ELSE @[a]]]

-----------------------------------------------------------------------------
(* Solver: the set of answers it may give.  Without Z3 it only knows constants. *)

\* sat(pc, cond) # Unsat
Feasible(s, cond) ==
  IF Models(s) \cap cond # {} THEN {TRUE}
  ELSE IF ~setup.smt THEN {TRUE} ELSE IF setup.gives_up THEN BOOLEAN ELSE {FALSE}

Values(s, e) == {e[v] : v \in Models(s)}

\* get_value: <<>> is nullopt.  Unknown to the second query counts as unique.
get_value(s, e) ==
  IF ~setup.smt \/ Values(s, e) = {} THEN {<<>>}
  ELSE IF setup.gives_up THEN {<<>>} \cup {<<n>> : n \in Values(s, e)}
  ELSE IF Cardinality(Values(s, e)) = 1 THEN {<<n>> : n \in Values(s, e)}
  ELSE {<<>>}

\* enumerate: distinct values in the order of Z3's models.
enumerate(s, e) ==
  IF ~setup.smt THEN {<<>>}
  ELSE LET all == Values(s, e)
           most == IF Cardinality(all) < setup.max_enumerate_targets
                     THEN Cardinality(all) ELSE setup.max_enumerate_targets
       IN {q \in UNION {[1 .. n -> all] : n \in IF setup.gives_up THEN 0 .. most ELSE {most}} :
             \A i, j \in DOMAIN q : q[i] = q[j] => i = j}

-----------------------------------------------------------------------------
(* apply_op *)

\* The outcome of one instruction: the state goes on, forks were queued, inputs lost.
Outcome(next, forks, lost) == [next |-> next, forks |-> forks, lost |-> lost]
GoesOn(s) == Outcome(<<s>>, <<>>, {})
Dies(s) == Outcome(<<>>, <<>>, Models(s))

When(e, n) == {v \in Inputs : e[v] = n}

Pinned(s, e, n) == [push(s, When(e, n)) EXCEPT !.rip = n]

\* The loop over the candidates: each fork bumps the depth of s, and of the fork twice.
Candidates(s, e, q) ==
  LET room == IF s.fork_depth >= setup.max_fork_depth THEN 0 ELSE setup.max_fork_depth - s.fork_depth
      forks == IF Len(q) - 1 < room THEN Len(q) - 1 ELSE room
      alt(i) == Pinned([fork(s) EXCEPT !.fork_depth = @ + i], e, q[i + 1])
  IN Outcome(<<Pinned([s EXCEPT !.fork_depth = @ + forks], e, q[1])>>,
             [i \in 1 .. forks |-> alt(i)],
             {v \in Models(s) : \A i \in 1 .. forks + 1 : e[v] # q[i]})

resolve_symbolic_target(s, e) ==
  UNION {IF got # <<>> THEN {GoesOn(Pinned(s, e, got[1]))}
         ELSE IF setup.max_enumerate_targets = 0 THEN {Dies(s)}
         ELSE {IF q = <<>> THEN Dies(s) ELSE Candidates(s, e, q) : q \in enumerate(s, e)}
         : got \in get_value(s, e)}

JumpTo(s, e) ==
  IF is_const(e) THEN {GoesOn([s EXCEPT !.rip = Value(e)])}
  ELSE resolve_symbolic_target(s, e)

\* Slip: the fork for the fall-through gets no condition.
BothSides_NoCondition(s, cond, t, next) ==
  Outcome(<<[push(s, cond) EXCEPT !.rip = t, !.fork_depth = @ + 1]>>,
          <<[fork(s) EXCEPT !.rip = next]>>, {})

BothSides(s, cond, t, next) ==
  Outcome(<<[push(s, cond) EXCEPT !.rip = t, !.fork_depth = @ + 1]>>,
          <<[push(fork(s), Inputs \ cond) EXCEPT !.rip = next]>>, {})

\* CBRANCH when the solver's answers are tf and ff: at the fork cap only the taken side
\* is followed.
Sides(s, cond, t, next, tf, ff) ==
  IF tf /\ ff /\ s.fork_depth < setup.max_fork_depth THEN BothSides(s, cond, t, next)
  ELSE IF tf THEN Outcome(<<[push(s, cond) EXCEPT !.rip = t]>>, <<>>, Models(s) \ cond)
  ELSE IF ff THEN Outcome(<<[push(s, Inputs \ cond) EXCEPT !.rip = next]>>, <<>>,
                          Models(s) \cap cond)
  ELSE Dies(s)

Branch(s, cond, t, next) ==
  IF cond \in {{}, Inputs}
  THEN {GoesOn([s EXCEPT !.rip = IF cond = Inputs THEN t ELSE next])}
  ELSE {Sides(s, cond, t, next, tf, ff)
        : tf \in Feasible(s, cond), ff \in Feasible(s, Inputs \ cond)}

\* The ops of one lifted instruction.
apply_op(s, i) ==
  LET next == s.rip + 1
      called == [s EXCEPT !.call_stack = Append(@, next)]
  IN CASE i.op = "mov" -> {GoesOn([s EXCEPT !.gpr[i.r] = k(i.c)])}
       [] i.op = "load" -> {GoesOn([s EXCEPT !.gpr[i.r] = s.mem])}
       [] i.op = "store" -> {GoesOn([s EXCEPT !.mem = s.gpr[i.r]])}
       [] i.op = "jeq" -> Branch(s, When(s.gpr[i.r], i.c), i.t, next)
       [] i.op = "jmp" -> JumpTo(s, k(i.t))
       [] i.op = "jmpr" -> JumpTo(s, s.gpr[i.r])
       [] i.op = "call" -> JumpTo(called, k(i.t))
       [] i.op = "callr" -> JumpTo(called, s.gpr[i.r])
       [] i.op = "ret" -> IF s.call_stack # <<>>
                            THEN {GoesOn([s EXCEPT !.rip = Last(s.call_stack),
                                                   !.call_stack = Front(@)])}
                            ELSE JumpTo(s, s.mem)

\* if (!s.dead && s.rip == pre_rip) s.rip += length
Advance(s, pre_rip) == IF s.rip = pre_rip THEN [s EXCEPT !.rip = @ + 1] ELSE s

-----------------------------------------------------------------------------
(* run *)

Seed == [gpr |-> [r0 |-> [v \in Inputs |-> v], r1 |-> k(1)], mem |-> [v \in Inputs |-> v],
         rip |-> 0, pc |-> <<>>, fork_depth |-> 0, visits |-> [a \in 0 .. StopAt |-> 0],
         call_stack |-> <<>>]

Init ==
  /\ setup \in Setups
  /\ queue = <<Seed>>
  /\ cur = <<>>
  /\ steps = 0
  /\ finished = <<>>
  /\ dropped = {}
  /\ concrete = [v \in Inputs |-> Trajectory(setup.prog, v)]

\* The opportunistic merge: the state <<s>> and what is left of the queue after s took
\* in its partners among the rest, from front to back.
MergeScan(s, rest) ==
  LET scan[n \in 0 .. Len(rest)] ==
        IF n = 0 THEN [s |-> s, left |-> <<>>]
        ELSE LET acc == scan[n - 1]
             IN IF can_merge_with(acc.s, rest[n])
                  THEN [acc EXCEPT !.s = merge_diamond(@, rest[n])]
                  ELSE [acc EXCEPT !.left = Append(@, rest[n])]
  IN scan[Len(rest)]

\* Slip: front without pop_front.
PopState_Keeps ==
  /\ cur = <<>> /\ queue # <<>>
  /\ cur' = <<Head(queue)>>
  /\ steps' = 0
  /\ UNCHANGED <<setup, queue, finished, dropped, concrete>>

PopState ==
  /\ cur = <<>> /\ queue # <<>>
  /\ LET r == IF setup.enable_merging /\ ~setup.block THEN MergeScan(Head(queue), Tail(queue))
              ELSE [s |-> Head(queue), left |-> Tail(queue)]
     IN cur' = <<r.s>> /\ queue' = r.left
  /\ steps' = 0
  /\ UNCHANGED <<setup, finished, dropped, concrete>>

\* finished after add_finished(s).
AddFinished(s) ==
  LET with == {i \in DOMAIN finished : setup.enable_merging /\ can_merge_with(s, finished[i])}
  IN IF with = {} THEN Append(finished, s)
     ELSE LET i == CHOOSE i \in with : \A j \in with : i <= j
          IN [finished EXCEPT ![i] = merge_diamond(@, s)]

AtStop(s) == s.rip = StopAt /\ ~setup.block

\* The path reached stop or used up its steps.
FinishPath ==
  /\ cur # <<>>
  /\ steps >= max_steps_per_path \/ AtStop(cur[1])
  /\ finished' = IF setup.block THEN Append(finished, cur[1]) ELSE AddFinished(cur[1])
  /\ cur' = <<>>
  /\ UNCHANGED <<setup, queue, steps, dropped, concrete>>

Runs == cur # <<>> /\ steps < max_steps_per_path /\ ~AtStop(cur[1])

\* The visit cap, or no code at rip.
KillPath ==
  /\ Runs
  /\ LET s == cur[1] IN
     /\ s.rip \notin 0 .. Len(setup.prog) - 1 \/ s.visits[s.rip] >= max_visits_per_rip
     /\ dropped' = dropped \cup Models(s)
  /\ cur' = <<>>
  /\ UNCHANGED <<setup, queue, steps, finished, concrete>>

Execute ==
  /\ Runs
  /\ LET s == cur[1] IN
     /\ s.rip \in 0 .. Len(setup.prog) - 1
     /\ s.visits[s.rip] < max_visits_per_rip
     /\ \E o \in apply_op([s EXCEPT !.visits[s.rip] = @ + 1], setup.prog[s.rip + 1]) :
          /\ cur' = [j \in DOMAIN o.next |-> Advance(o.next[j], s.rip)]
          /\ queue' = IF setup.block THEN queue ELSE queue \o o.forks
          /\ dropped' = dropped \cup o.lost
                          \cup (IF setup.block THEN UNION {Models(o.forks[j]) : j \in DOMAIN o.forks}
                                ELSE {})
  /\ steps' = steps + 1
  /\ UNCHANGED <<setup, finished, concrete>>

Next == PopState \/ FinishPath \/ KillPath \/ Execute

Spec == Init /\ [][Next]_vars
FairSpec == Spec /\ WF_vars(Next)

-----------------------------------------------------------------------------
(* What the exploration promises *)

Paths == queue \o cur \o finished

StateOK(s) ==
  /\ s.gpr \in [Regs -> Expr] /\ s.mem \in Expr
  /\ s.rip \in 0 .. StopAt
  /\ s.pc \in Seq(SUBSET Inputs)
  /\ s.fork_depth \in 0 .. setup.max_fork_depth + 1
  /\ \A a \in DOMAIN s.visits : s.visits[a] \in 0 .. max_visits_per_rip

\* Shape of the variables: among others, fork depths and visit counts stay within
\* what the caps allow.
TypeOK ==
  /\ \A i \in DOMAIN Paths : StateOK(Paths[i])
  /\ Len(cur) <= 1
  /\ steps \in 0 .. max_steps_per_path
  /\ dropped \subseteq Inputs

\* No input is explored on two paths, however states forked and merged.
PathsDisjoint ==
  \A i, j \in DOMAIN Paths : i # j => Models(Paths[i]) \cap Models(Paths[j]) = {}

\* Every input is on some path, unless a cap or an unsolvable target dropped it: in
\* particular a target is only pinned when no other value is possible.  Not when Z3
\* answers unknown: get_value then takes the value it has for the only one.
NothingLost ==
  ~setup.gives_up => \A v \in Inputs : v \in dropped \/ \E i \in DOMAIN Paths : v \in Models(Paths[i])

\* What a path says of an input in its condition is true of the real run.
OnTrajectory ==
  \A i \in DOMAIN Paths : \A v \in Models(Paths[i]) :
    \E m \in concrete[v] :
      /\ m.rip = Paths[i].rip
      /\ m.mem = Paths[i].mem[v]
      /\ m.calls = Paths[i].call_stack
      /\ \A r \in Regs : m.gpr[r] = Paths[i].gpr[r][v]

\* What the paths are only asked to follow: a state that may be merged has the memory
\* it began with, as merge_diamond keeps one memory of two; and no run jumps to the
\* instruction it is at, which Advance would take for one that fell through.
MergersStoreNothing ==
  \A su \in Setups : su.enable_merging /\ ~su.block =>
    \A i \in DOMAIN su.prog : su.prog[i].op # "store"

NoSelfJump ==
  \A su \in Setups, v \in Inputs : \A m \in Trajectory(su.prog, v) :
    m.rip \in 0 .. Len(su.prog) - 1 => ConcreteStep(su.prog, m).rip # m.rip

\* run returns.
RunEnds == <>(queue = <<>> /\ cur = <<>>)
=============================================================================

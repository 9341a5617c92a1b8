--------------------------- MODULE SymxEngineProofs ---------------------------
(***************************************************************************)
(* Proofs about SymxEngine, for any programs, inputs, configurations and   *)
(* caps: the paths partition the inputs, what a path says of an input is   *)
(* true of the real run on it, every path keeps to the caps, and a run is  *)
(* over after boundedly many steps.                                        *)
(***************************************************************************)
EXTENDS SymxEngine, FiniteSetTheorems, WellFoundedInduction, TLAPS

-----------------------------------------------------------------------------
(* Induction over a set of naturals *)

LEMMA LeastNat ==
  ASSUME NEW T \in SUBSET Nat, T # {}
  PROVE  \E m \in T : \A n \in T : m <= n
<1> DEFINE R == {p \in Nat \X Nat : p[1] < p[2]}
<1>1. R = OpToRel(<, Nat)
  BY DEF OpToRel
<1>2. IsWellFoundedOn(R, Nat)
  BY <1>1, NatLessThanWellFounded
<1> HIDE DEF R
<1>3. \E m \in T : \A n \in T : ~(<<n, m>> \in R)
  BY <1>2, WFMin
<1>4. PICK m \in T : \A n \in T : ~(n < m)
  BY <1>3 DEF R
<1> QED BY <1>4

LEMMA AllNats ==
  ASSUME NEW T, 0 \in T, \A n \in Nat : n \in T => n + 1 \in T
  PROVE  \A n \in Nat : n \in T
<1> SUFFICES ASSUME Nat \ T # {} PROVE FALSE
  OBVIOUS
<1>1. PICK m \in Nat \ T : \A n \in Nat \ T : m <= n
  <2> DEFINE U == Nat \ T
  <2>1. U \in SUBSET Nat /\ U # {}
    OBVIOUS
  <2> HIDE DEF U
  <2>2. \E m \in U : \A n \in U : m <= n
    BY <2>1, LeastNat
  <2> QED BY <2>2 DEF U
<1>2. m # 0 /\ m - 1 \in Nat /\ ~(m <= m - 1)
  BY <1>1
<1>3. m - 1 \in T
  BY <1>1, <1>2
<1>4. (m - 1) + 1 = m
  BY <1>1
<1> QED BY <1>1, <1>2, <1>3, <1>4

-----------------------------------------------------------------------------
(* The run of the machine *)

Start(v) == [rip |-> 0, gpr |-> [r0 |-> v, r1 |-> 1], mem |-> v, calls |-> <<>>]

LEMMA LongestNat == ASSUME NEW p \in Seq(Instr) PROVE Longest(p) \in Nat
<1> DEFINE L == Len(p)
<1>1. L \in Nat /\ max_visits_per_rip \in Nat
  BY SymxAssumption
<1> HIDE DEF L
<1>2. max_visits_per_rip * L \in Nat
  BY <1>1
<1> QED BY <1>2 DEF Longest, L

\* The run starts at the start, and each state is a step from the one before.
LEMMA RunFacts ==
  ASSUME NEW p \in Seq(Instr), NEW v
  PROVE  /\ Run(p, v)[0] = Start(v)
         /\ \A n \in 0 .. Longest(p) - 1 : Run(p, v)[n + 1] = ConcreteStep(p, Run(p, v)[n])
<1> DEFINE T == {l \in Nat : \E f : f = [n \in 0 .. l |->
                               IF n = 0 THEN Start(v) ELSE ConcreteStep(p, f[n - 1])]}
<1>1. 0 \in T
  <2> DEFINE f == [n \in 0 .. 0 |-> Start(v)]
  <2>1. f = [n \in 0 .. 0 |-> IF n = 0 THEN Start(v) ELSE ConcreteStep(p, f[n - 1])]
    OBVIOUS
  <2> QED BY <2>1
<1>2. ASSUME NEW l \in Nat, l \in T PROVE l + 1 \in T
  <2>1. PICK f : f = [n \in 0 .. l |-> IF n = 0 THEN Start(v) ELSE ConcreteStep(p, f[n - 1])]
    BY <1>2
  <2> DEFINE g == [n \in 0 .. l + 1 |-> IF n = 0 THEN Start(v) ELSE ConcreteStep(p, f[n - 1])]
  <2>2. \A n \in 0 .. l : f[n] = IF n = 0 THEN Start(v) ELSE ConcreteStep(p, f[n - 1])
    <3> DEFINE h == [n \in 0 .. l |-> IF n = 0 THEN Start(v) ELSE ConcreteStep(p, f[n - 1])]
    <3>1. f = h
      BY <2>1
    <3>2. \A n \in 0 .. l : h[n] = IF n = 0 THEN Start(v) ELSE ConcreteStep(p, f[n - 1])
      OBVIOUS
    <3> HIDE DEF h
    <3> QED BY <3>1, <3>2
  <2>3. \A n \in 0 .. l + 1 : g[n] = IF n = 0 THEN Start(v) ELSE ConcreteStep(p, f[n - 1])
    OBVIOUS
  <2>4. \A n \in 0 .. l : f[n] = g[n]
    <3> TAKE n \in 0 .. l
    <3>1. n \in 0 .. l + 1
      OBVIOUS
    <3> QED BY <2>2, <2>3, <3>1
  <2> HIDE DEF g
  <2>5. \A n \in 0 .. l + 1 : n # 0 => f[n - 1] = g[n - 1]
    <3> TAKE n \in 0 .. l + 1
    <3> HAVE n # 0
    <3>1. n - 1 \in 0 .. l
      OBVIOUS
    <3> QED BY <2>4, <3>1
  <2>6. g = [n \in 0 .. l + 1 |-> IF n = 0 THEN Start(v) ELSE ConcreteStep(p, g[n - 1])]
    BY <2>5 DEF g
  <2>7. l + 1 \in Nat
    OBVIOUS
  <2> QED BY <2>6, <2>7
<1>3. Longest(p) \in T
  <2> HIDE DEF T
  <2>1. \A n \in Nat : n \in T
    BY <1>1, <1>2, AllNats
  <2> QED BY <2>1, LongestNat
<1>4. Run(p, v) = [n \in 0 .. Longest(p) |->
                     IF n = 0 THEN Start(v) ELSE ConcreteStep(p, Run(p, v)[n - 1])]
  BY <1>3 DEF Run, Start
<1> DEFINE r == Run(p, v)
<1>5. Longest(p) \in Nat
  BY LongestNat
<1>6. \A n \in 0 .. Longest(p) : r[n] = IF n = 0 THEN Start(v) ELSE ConcreteStep(p, r[n - 1])
  <2> DEFINE h == [n \in 0 .. Longest(p) |-> IF n = 0 THEN Start(v) ELSE ConcreteStep(p, r[n - 1])]
  <2>1. r = h
    BY <1>4
  <2>2. \A n \in 0 .. Longest(p) : h[n] = IF n = 0 THEN Start(v) ELSE ConcreteStep(p, r[n - 1])
    OBVIOUS
  <2> HIDE DEF h, r
  <2> QED BY <2>1, <2>2
<1> HIDE DEF r
<1>7. r[0] = Start(v)
  BY <1>5, <1>6
<1>8. ASSUME NEW n \in 0 .. Longest(p) - 1 PROVE r[n + 1] = ConcreteStep(p, r[n])
  <2>1. n + 1 \in 0 .. Longest(p) /\ n + 1 # 0 /\ (n + 1) - 1 = n
    BY <1>5
  <2> QED BY <1>6, <2>1
<1> QED BY <1>7, <1>8 DEF r

-----------------------------------------------------------------------------
(* Sequences of states *)

\* The inputs the states of q stand for.
Covered(q) == {v \in Inputs : \E i \in DOMAIN q : v \in Models(q[i])}

\* No two of them stand for the same input.
Apart(q) == \A i, j \in DOMAIN q : i # j => Models(q[i]) \cap Models(q[j]) = {}

LEMMA CoveredFew ==
  ASSUME NEW s
  PROVE  /\ Covered(<<>>) = {} /\ Apart(<<>>)
         /\ Covered(<<s>>) = Models(s) /\ Apart(<<s>>)
<1>1. DOMAIN <<>> = {} /\ DOMAIN <<s>> = {1} /\ <<s>>[1] = s
  OBVIOUS
<1>2. Models(s) \subseteq Inputs
  BY DEF Models
<1>3. Covered(<<>>) = {} /\ Apart(<<>>)
  BY <1>1 DEF Covered, Apart
<1>4. Covered(<<s>>) = Models(s)
  BY <1>1, <1>2 DEF Covered
<1>5. Apart(<<s>>)
  BY <1>1 DEF Apart
<1> QED BY <1>3, <1>4, <1>5

LEMMA ConcatPlaces ==
  ASSUME NEW S, NEW q \in Seq(S), NEW r \in Seq(S)
  PROVE  /\ q \o r \in Seq(S)
         /\ \A i \in DOMAIN q : i \in DOMAIN (q \o r) /\ (q \o r)[i] = q[i]
         /\ \A i \in DOMAIN r : Len(q) + i \in DOMAIN (q \o r) /\ (q \o r)[Len(q) + i] = r[i]
         /\ \A j \in DOMAIN (q \o r) : j \in DOMAIN q \/ \E i \in DOMAIN r : j = Len(q) + i
         /\ \A i \in DOMAIN q, j \in DOMAIN r : i # Len(q) + j
         /\ \A i, j \in DOMAIN r : i # j => Len(q) + i # Len(q) + j
<1> DEFINE m == Len(q)
           n == Len(r)
           t == q \o r
<1>1. /\ m \in Nat /\ n \in Nat /\ DOMAIN q = 1 .. m /\ DOMAIN r = 1 .. n
      /\ t \in Seq(S) /\ DOMAIN t = 1 .. m + n
      /\ \A i \in 1 .. m : t[i] = q[i]
      /\ \A i \in 1 .. n : t[m + i] = r[i]
  OBVIOUS
<1> HIDE DEF m, n, t
<1>2. \A i \in 1 .. m : i \in 1 .. m + n
  BY <1>1
<1>3. \A i \in 1 .. n : m + i \in 1 .. m + n
  BY <1>1
<1>4. \A j \in 1 .. m + n : j \in 1 .. m \/ \E i \in 1 .. n : j = m + i
  <2> TAKE j \in 1 .. m + n
  <2>1. CASE j \in 1 .. m
    BY <2>1
  <2>2. CASE j \notin 1 .. m
    <3>1. j - m \in 1 .. n /\ j = m + (j - m)
      BY <1>1, <2>2
    <3> QED BY <3>1
  <2> QED BY <2>1, <2>2
<1>5. \A i \in 1 .. m, j \in 1 .. n : i # m + j
  BY <1>1
<1>6. \A i, j \in 1 .. n : i # j => m + i # m + j
  BY <1>1
<1> QED BY <1>1, <1>2, <1>3, <1>4, <1>5, <1>6 DEF m, t

LEMMA CoveredConcat ==
  ASSUME NEW S, NEW q \in Seq(S), NEW r \in Seq(S)
  PROVE  /\ q \o r \in Seq(S)
         /\ Covered(q \o r) = Covered(q) \cup Covered(r)
         /\ Apart(q \o r) <=> Apart(q) /\ Apart(r) /\ Covered(q) \cap Covered(r) = {}
<1> DEFINE t == q \o r
           m == Len(q)
<1>1. /\ t \in Seq(S)
      /\ \A i \in DOMAIN q : i \in DOMAIN t /\ t[i] = q[i]
      /\ \A i \in DOMAIN r : m + i \in DOMAIN t /\ t[m + i] = r[i]
      /\ \A j \in DOMAIN t : j \in DOMAIN q \/ \E i \in DOMAIN r : j = m + i
      /\ \A i \in DOMAIN q, j \in DOMAIN r : i # m + j
      /\ \A i, j \in DOMAIN r : i # j => m + i # m + j
  BY ConcatPlaces
<1> HIDE DEF t, m
<1>2. \A u : Models(u) \subseteq Inputs
  BY DEF Models
<1>3. Covered(t) = Covered(q) \cup Covered(r)
  <2>1. ASSUME NEW v \in Covered(q) \cup Covered(r) PROVE v \in Covered(t)
    BY <1>1, <2>1 DEF Covered
  <2>2. ASSUME NEW v \in Covered(t) PROVE v \in Covered(q) \cup Covered(r)
    BY <1>1, <2>2 DEF Covered
  <2> QED BY <2>1, <2>2
<1>4. ASSUME Apart(t) PROVE Apart(q) /\ Apart(r) /\ Covered(q) \cap Covered(r) = {}
  <2>1. Apart(q)
    BY <1>1, <1>4 DEF Apart
  <2>2. Apart(r)
    <3> SUFFICES ASSUME NEW i \in DOMAIN r, NEW j \in DOMAIN r, i # j
                 PROVE  Models(r[i]) \cap Models(r[j]) = {}
      BY DEF Apart
    <3>1. /\ m + i \in DOMAIN t /\ m + j \in DOMAIN t /\ m + i # m + j
          /\ t[m + i] = r[i] /\ t[m + j] = r[j]
      BY <1>1
    <3>2. Models(t[m + i]) \cap Models(t[m + j]) = {}
      BY <1>4, <3>1 DEF Apart
    <3> QED BY <3>1, <3>2
  <2>3. ASSUME NEW v \in Covered(q), v \in Covered(r) PROVE FALSE
    <3>1. PICK i \in DOMAIN q : v \in Models(q[i])
      BY DEF Covered
    <3>2. PICK j \in DOMAIN r : v \in Models(r[j])
      BY <2>3 DEF Covered
    <3>3. /\ i \in DOMAIN t /\ m + j \in DOMAIN t /\ i # m + j
          /\ t[i] = q[i] /\ t[m + j] = r[j]
      BY <1>1
    <3>4. Models(t[i]) \cap Models(t[m + j]) = {}
      BY <1>4, <3>3 DEF Apart
    <3> QED BY <3>1, <3>2, <3>3, <3>4
  <2> QED BY <2>1, <2>2, <2>3
<1>5. ASSUME Apart(q), Apart(r), Covered(q) \cap Covered(r) = {} PROVE Apart(t)
  <2>1. ASSUME NEW i \in DOMAIN q, NEW j \in DOMAIN r
        PROVE  Models(q[i]) \cap Models(r[j]) = {}
    <3>1. Models(q[i]) \subseteq Covered(q) /\ Models(r[j]) \subseteq Covered(r)
      BY <1>2 DEF Covered
    <3> QED BY <1>5, <3>1
  <2> SUFFICES ASSUME NEW i \in DOMAIN t, NEW j \in DOMAIN t, i # j
               PROVE  Models(t[i]) \cap Models(t[j]) = {}
    BY DEF Apart
  <2>2. CASE i \in DOMAIN q /\ j \in DOMAIN q
    <3>1. t[i] = q[i] /\ t[j] = q[j]
      BY <1>1, <2>2
    <3> QED BY <1>5, <2>2, <3>1 DEF Apart
  <2>3. CASE i \in DOMAIN q /\ j \notin DOMAIN q
    <3>1. PICK b \in DOMAIN r : j = m + b
      BY <1>1, <2>3
    <3>2. t[i] = q[i] /\ t[j] = r[b]
      BY <1>1, <2>3, <3>1
    <3> QED BY <2>1, <2>3, <3>2
  <2>4. CASE i \notin DOMAIN q /\ j \in DOMAIN q
    <3>1. PICK b \in DOMAIN r : i = m + b
      BY <1>1, <2>4
    <3>2. t[j] = q[j] /\ t[i] = r[b]
      BY <1>1, <2>4, <3>1
    <3> QED BY <2>1, <2>4, <3>2
  <2>5. CASE i \notin DOMAIN q /\ j \notin DOMAIN q
    <3>1. PICK a \in DOMAIN r : i = m + a
      BY <1>1, <2>5
    <3>2. PICK b \in DOMAIN r : j = m + b
      BY <1>1, <2>5
    <3>3. t[i] = r[a] /\ t[j] = r[b] /\ a # b
      BY <1>1, <3>1, <3>2
    <3> QED BY <1>5, <3>3 DEF Apart
  <2> QED BY <2>2, <2>3, <2>4, <2>5
<1> QED BY <1>1, <1>3, <1>4, <1>5 DEF t

LEMMA CoveredAppend ==
  ASSUME NEW S, NEW q \in Seq(S), NEW s \in S
  PROVE  /\ Append(q, s) \in Seq(S)
         /\ Covered(Append(q, s)) = Covered(q) \cup Models(s)
         /\ Apart(Append(q, s)) <=> Apart(q) /\ Covered(q) \cap Models(s) = {}
<1>1. <<s>> \in Seq(S) /\ Append(q, s) = q \o <<s>>
  OBVIOUS
<1>2. /\ q \o <<s>> \in Seq(S)
      /\ Covered(q \o <<s>>) = Covered(q) \cup Covered(<<s>>)
      /\ Apart(q \o <<s>>) <=> Apart(q) /\ Apart(<<s>>) /\ Covered(q) \cap Covered(<<s>>) = {}
  BY <1>1, CoveredConcat
<1> QED BY <1>1, <1>2, CoveredFew

LEMMA CoveredHead ==
  ASSUME NEW S, NEW q \in Seq(S), q # <<>>
  PROVE  /\ Head(q) \in S /\ Tail(q) \in Seq(S)
         /\ Covered(q) = Models(Head(q)) \cup Covered(Tail(q))
         /\ Apart(q) <=> Apart(Tail(q)) /\ Models(Head(q)) \cap Covered(Tail(q)) = {}
<1>1. Head(q) \in S /\ Tail(q) \in Seq(S) /\ <<Head(q)>> \in Seq(S)
  OBVIOUS
<1>2. q = <<Head(q)>> \o Tail(q)
  BY SMTT(40)
<1> DEFINE h == <<Head(q)>>
           r == Tail(q)
<1>3. /\ Covered(h \o r) = Covered(h) \cup Covered(r)
      /\ Apart(h \o r) <=> Apart(h) /\ Apart(r) /\ Covered(h) \cap Covered(r) = {}
  BY <1>1, CoveredConcat
<1>4. Covered(h) = Models(Head(q)) /\ Apart(h)
  BY CoveredFew
<1> QED BY <1>1, <1>2, <1>3, <1>4

-----------------------------------------------------------------------------
(* Merging *)

LEMMA CommonPrefix ==
  ASSUME NEW s \in State, NEW o \in State
  PROVE  /\ common_pc_prefix(s, o) \in 0 .. Len(s.pc)
         /\ common_pc_prefix(s, o) \in 0 .. Len(o.pc)
         /\ \A i \in 1 .. common_pc_prefix(s, o) : s.pc[i] = o.pc[i]
<1> DEFINE n0 == IF Len(s.pc) < Len(o.pc) THEN Len(s.pc) ELSE Len(o.pc)
           Same(n) == \A i \in 1 .. n : s.pc[i] = o.pc[i]
           Bad == {n \in Nat : ~Same(n)}
<1>1. s.pc \in Seq(SUBSET Inputs) /\ o.pc \in Seq(SUBSET Inputs)
  BY DEF State
<1>2. Len(s.pc) \in Nat /\ Len(o.pc) \in Nat
  BY <1>1
<1>3. n0 \in Nat /\ n0 <= Len(s.pc) /\ n0 <= Len(o.pc)
  BY <1>2
<1> HIDE DEF n0
<1>4. \E n \in 0 .. n0 : Same(n) /\ (n = n0 \/ ~Same(n + 1))
  <2>1. CASE Same(n0)
    <3>1. n0 \in 0 .. n0
      BY <1>3
    <3> HIDE DEF Same
    <3> QED BY <2>1, <3>1
  <2>2. CASE ~Same(n0)
    <3>1. Bad \in SUBSET Nat /\ Bad # {}
      BY <1>3, <2>2
    <3>2. PICK m \in Bad : \A n \in Bad : m <= n
      <4> HIDE DEF Bad
      <4> QED BY <3>1, LeastNat
    <3>3. m # 0 /\ m <= n0 /\ m \in Nat
      BY <1>3, <2>2, <3>2
    <3>4. m - 1 \in Nat /\ m - 1 \notin Bad /\ (m - 1) + 1 = m
      BY <3>2, <3>3
    <3>5. Same(m - 1) /\ ~Same((m - 1) + 1)
      BY <3>2, <3>4
    <3>6. m - 1 \in 0 .. n0
      BY <1>3, <3>3
    <3> HIDE DEF Same
    <3> QED BY <3>5, <3>6
  <2> QED BY <2>1, <2>2
<1>5. common_pc_prefix(s, o)
        = CHOOSE n \in 0 .. n0 : Same(n) /\ (n = n0 \/ ~Same(n + 1))
  BY DEF common_pc_prefix, n0
<1> DEFINE cp == common_pc_prefix(s, o)
<1>6. cp \in 0 .. n0 /\ Same(cp)
  <2> HIDE DEF Same
  <2> QED BY <1>4, <1>5
<1> HIDE DEF cp
<1>7. cp \in 0 .. Len(s.pc) /\ cp \in 0 .. Len(o.pc)
  BY <1>2, <1>3, <1>6
<1> QED BY <1>6, <1>7 DEF cp

\* A merged state stands for the inputs of both, and keeps what must be equal of them.
LEMMA MergeFacts ==
  ASSUME NEW s \in State, NEW o \in State
  PROVE  LET t == merge_diamond(s, o)
             dist == Tail_(s, common_pc_prefix(s, o))
         IN  /\ t \in State
             /\ Models(t) = Models(s) \cup Models(o)
             /\ \A v \in Models(s) : v \in dist
             /\ \A v \in Models(o) : v \in dist => v \in Models(s)
             /\ t.gpr = [r \in Regs |-> [v \in Inputs |->
                           IF v \in dist THEN s.gpr[r][v] ELSE o.gpr[r][v]]]
             /\ t.mem = s.mem /\ t.rip = s.rip /\ t.call_stack = s.call_stack
             /\ \A a \in 0 .. StopAt : s.visits[a] <= t.visits[a] /\ o.visits[a] <= t.visits[a]
<1> DEFINE cp == common_pc_prefix(s, o)
           dist == Tail_(s, cp)
           both == dist \cup Tail_(o, cp)
           pc == Append(SubSeq(s.pc, 1, cp), both)
           gpr == [r \in Regs |-> [v \in Inputs |->
                     IF v \in dist THEN s.gpr[r][v] ELSE o.gpr[r][v]]]
           visits == [a \in DOMAIN s.visits |->
                        IF s.visits[a] < o.visits[a] THEN o.visits[a] ELSE s.visits[a]]
           t == merge_diamond(s, o)
<1>1. /\ s.pc \in Seq(SUBSET Inputs) /\ o.pc \in Seq(SUBSET Inputs)
      /\ s.gpr \in [Regs -> Expr] /\ o.gpr \in [Regs -> Expr]
      /\ s.visits \in [0 .. StopAt -> Nat] /\ o.visits \in [0 .. StopAt -> Nat]
  BY DEF State
<1>2. /\ cp \in 0 .. Len(s.pc) /\ cp \in 0 .. Len(o.pc)
      /\ \A i \in 1 .. cp : s.pc[i] = o.pc[i]
  BY CommonPrefix
<1>3. both \in SUBSET Inputs
  BY DEF Tail_
<1>4. /\ Len(s.pc) \in Nat /\ Len(o.pc) \in Nat
      /\ DOMAIN s.pc = 1 .. Len(s.pc) /\ DOMAIN o.pc = 1 .. Len(o.pc)
  BY <1>1
<1>5. t = [s EXCEPT !.gpr = gpr, !.pc = pc, !.visits = visits]
  BY DEF merge_diamond
<1>6. gpr \in [Regs -> Expr]
  BY <1>1 DEF Expr
<1>7. visits \in [0 .. StopAt -> Nat]
  BY <1>1
<1> HIDE DEF cp
<1>8. /\ pc \in Seq(SUBSET Inputs) /\ DOMAIN pc = 1 .. cp + 1
      /\ \A i \in 1 .. cp : pc[i] = s.pc[i]
      /\ pc[cp + 1] = both
  <2> DEFINE u == SubSeq(s.pc, 1, cp)
  <2>1. /\ u \in Seq(SUBSET Inputs) /\ Len(u) = cp
        /\ \A i \in 1 .. cp : u[i] = s.pc[i]
    BY <1>1, <1>2, <1>4
  <2> HIDE DEF u, both
  <2>2. /\ Append(u, both) \in Seq(SUBSET Inputs)
        /\ DOMAIN Append(u, both) = 1 .. cp + 1
        /\ \A i \in 1 .. cp : Append(u, both)[i] = u[i]
        /\ Append(u, both)[cp + 1] = both
    BY <1>2, <1>3, <2>1
  <2> QED BY <2>1, <2>2 DEF u
<1> HIDE DEF pc, gpr, visits, t
<1>9. /\ t \in State
      /\ t.gpr = gpr /\ t.pc = pc /\ t.visits = visits
      /\ t.mem = s.mem /\ t.rip = s.rip /\ t.call_stack = s.call_stack
  BY <1>5, <1>6, <1>7, <1>8 DEF State
<1>10. \A i : i \in 1 .. Len(s.pc) <=> i \in 1 .. cp \/ i \in cp + 1 .. Len(s.pc)
  BY <1>2, <1>4
<1>11. \A i : i \in 1 .. Len(o.pc) <=> i \in 1 .. cp \/ i \in cp + 1 .. Len(o.pc)
  BY <1>2, <1>4
<1>12. \A v : v \in Models(s) <=> /\ v \in dist
                                  /\ \A i \in 1 .. cp : v \in s.pc[i]
  BY <1>4, <1>10 DEF Models, Tail_
<1>13. \A v : v \in Models(o) <=> /\ v \in Tail_(o, cp)
                                  /\ \A i \in 1 .. cp : v \in s.pc[i]
  BY <1>2, <1>4, <1>11 DEF Models, Tail_
<1>14. \A i : i \in 1 .. cp + 1 <=> i \in 1 .. cp \/ i = cp + 1
  BY <1>2, <1>4
<1>15. \A v : v \in Models(t) <=> /\ v \in Inputs /\ v \in both
                                  /\ \A i \in 1 .. cp : v \in s.pc[i]
  BY <1>8, <1>9, <1>14 DEF Models
<1>16. Models(t) = Models(s) \cup Models(o)
  BY <1>3, <1>12, <1>13, <1>15
<1>17. \A a \in 0 .. StopAt : s.visits[a] <= t.visits[a] /\ o.visits[a] <= t.visits[a]
  <2> TAKE a \in 0 .. StopAt
  <2>1. s.visits[a] \in Nat /\ o.visits[a] \in Nat /\ a \in DOMAIN s.visits
    BY <1>1
  <2>2. visits[a] = IF s.visits[a] < o.visits[a] THEN o.visits[a] ELSE s.visits[a]
    BY <2>1 DEF visits
  <2>3. s.visits[a] <= visits[a] /\ o.visits[a] <= visits[a]
    BY <2>1, <2>2
  <2> QED BY <1>9, <2>3
<1> QED BY <1>9, <1>12, <1>13, <1>16, <1>17 DEF cp, gpr, t

\* A set of states that merging does not leave.
Closed(G) ==
  \A s, o \in G : can_merge_with(s, o) => merge_diamond(s, o) \in G /\ merge_diamond(o, s) \in G

\* One partner more for the state popped from the queue.
Scanned(acc, o) ==
  IF can_merge_with(acc.s, o) THEN [acc EXCEPT !.s = merge_diamond(@, o)]
  ELSE [acc EXCEPT !.left = Append(@, o)]

LEMMA ScanFacts ==
  ASSUME NEW S, NEW s, NEW rest \in Seq(S)
  PROVE  \E f : /\ f[0] = [s |-> s, left |-> <<>>]
                /\ \A n \in 0 .. Len(rest) - 1 : f[n + 1] = Scanned(f[n], rest[n + 1])
                /\ MergeScan(s, rest) = f[Len(rest)]
<1> DEFINE Base == [s |-> s, left |-> <<>>]
           N == Len(rest)
<1> DEFINE T == {l \in Nat : \E f : f = [n \in 0 .. l |->
                               IF n = 0 THEN Base ELSE Scanned(f[n - 1], rest[n])]}
<1>0. N \in Nat
  OBVIOUS
<1>1. 0 \in T
  <2> DEFINE f == [n \in 0 .. 0 |-> Base]
  <2>1. f = [n \in 0 .. 0 |-> IF n = 0 THEN Base ELSE Scanned(f[n - 1], rest[n])]
    OBVIOUS
  <2> HIDE DEF f, Base
  <2> QED BY <2>1
<1>2. ASSUME NEW l \in Nat, l \in T PROVE l + 1 \in T
  <2> HIDE DEF Base
  <2>1. PICK f : f = [n \in 0 .. l |-> IF n = 0 THEN Base ELSE Scanned(f[n - 1], rest[n])]
    BY <1>2
  <2> DEFINE g == [n \in 0 .. l + 1 |-> IF n = 0 THEN Base ELSE Scanned(f[n - 1], rest[n])]
  <2>2. \A n \in 0 .. l : f[n] = IF n = 0 THEN Base ELSE Scanned(f[n - 1], rest[n])
    <3> DEFINE h == [n \in 0 .. l |-> IF n = 0 THEN Base ELSE Scanned(f[n - 1], rest[n])]
    <3>1. f = h
      BY <2>1
    <3>2. \A n \in 0 .. l : h[n] = IF n = 0 THEN Base ELSE Scanned(f[n - 1], rest[n])
      OBVIOUS
    <3> HIDE DEF h
    <3> QED BY <3>1, <3>2
  <2>3. \A n \in 0 .. l + 1 : g[n] = IF n = 0 THEN Base ELSE Scanned(f[n - 1], rest[n])
    OBVIOUS
  <2>4. \A n \in 0 .. l : f[n] = g[n]
    <3> TAKE n \in 0 .. l
    <3>1. n \in 0 .. l + 1
      OBVIOUS
    <3> QED BY <2>2, <2>3, <3>1
  <2> HIDE DEF g
  <2>5. \A n \in 0 .. l + 1 : n # 0 => f[n - 1] = g[n - 1]
    <3> TAKE n \in 0 .. l + 1
    <3> HAVE n # 0
    <3>1. n - 1 \in 0 .. l
      OBVIOUS
    <3> QED BY <2>4, <3>1
  <2>6. g = [n \in 0 .. l + 1 |-> IF n = 0 THEN Base ELSE Scanned(g[n - 1], rest[n])]
    BY <2>5 DEF g
  <2>7. l + 1 \in Nat
    OBVIOUS
  <2> QED BY <2>6, <2>7
<1>3. N \in T
  <2> HIDE DEF T, N
  <2>1. \A n \in Nat : n \in T
    BY <1>1, <1>2, AllNats
  <2> QED BY <1>0, <2>1
<1> DEFINE r == CHOOSE f : f = [n \in 0 .. N |->
                             IF n = 0 THEN Base ELSE Scanned(f[n - 1], rest[n])]
<1>4. r = [n \in 0 .. N |-> IF n = 0 THEN Base ELSE Scanned(r[n - 1], rest[n])]
  <2> HIDE DEF Base, N
  <2> QED BY <1>3
<1>5. MergeScan(s, rest) = r[N]
  BY DEF MergeScan, Scanned
<1> HIDE DEF r, Base, N
<1>6. \A n \in 0 .. N : r[n] = IF n = 0 THEN Base ELSE Scanned(r[n - 1], rest[n])
  <2> DEFINE h == [n \in 0 .. N |-> IF n = 0 THEN Base ELSE Scanned(r[n - 1], rest[n])]
  <2>1. r = h
    BY <1>4
  <2>2. \A n \in 0 .. N : h[n] = IF n = 0 THEN Base ELSE Scanned(r[n - 1], rest[n])
    OBVIOUS
  <2> HIDE DEF h
  <2> QED BY <2>1, <2>2
<1>7. r[0] = Base
  BY <1>0, <1>6
<1>8. ASSUME NEW n \in 0 .. N - 1 PROVE r[n + 1] = Scanned(r[n], rest[n + 1])
  <2>1. n + 1 \in 0 .. N /\ n + 1 # 0 /\ (n + 1) - 1 = n
    BY <1>0
  <2> QED BY <1>6, <2>1
<1> QED BY <1>5, <1>7, <1>8 DEF Base, N

\* Taking in partners loses no input and duplicates none.
LEMMA MergeScanFacts ==
  ASSUME NEW G \in SUBSET State, Closed(G), NEW s \in G, NEW rest \in Seq(G),
         Apart(rest), Models(s) \cap Covered(rest) = {}
  PROVE  LET r == MergeScan(s, rest)
         IN  /\ r.s \in G /\ r.left \in Seq(G)
             /\ Apart(r.left) /\ Models(r.s) \cap Covered(r.left) = {}
             /\ Models(r.s) \cup Covered(r.left) = Models(s) \cup Covered(rest)
<1>1. PICK f : /\ f[0] = [s |-> s, left |-> <<>>]
               /\ \A n \in 0 .. Len(rest) - 1 : f[n + 1] = Scanned(f[n], rest[n + 1])
               /\ MergeScan(s, rest) = f[Len(rest)]
  BY ScanFacts
<1> DEFINE N == Len(rest)
           Acc == [s : G, left : Seq(G)]
           Done(n) == Models(s) \cup {v \in Inputs : \E i \in 1 .. n : v \in Models(rest[i])}
           OK(n) == /\ f[n] \in Acc
                    /\ Apart(f[n].left)
                    /\ Models(f[n].s) \cap Covered(f[n].left) = {}
                    /\ Models(f[n].s) \cup Covered(f[n].left) = Done(n)
           T == {n \in Nat : n <= N => OK(n)}
<1>2. N \in Nat /\ DOMAIN rest = 1 .. N /\ \A i \in 1 .. N : rest[i] \in G
  OBVIOUS
<1>3. \A u : Models(u) \subseteq Inputs
  BY DEF Models
<1>4. OK(0)
  <2>1. <<>> \in Seq(G)
    OBVIOUS
  <2>2. f[0] \in Acc /\ f[0].s = s /\ f[0].left = <<>>
    BY <1>1, <2>1
  <2>3. Done(0) = Models(s)
    OBVIOUS
  <2> HIDE DEF Acc, Done
  <2> QED BY <2>2, <2>3, CoveredFew
<1>5. ASSUME NEW n \in Nat, n + 1 <= N, OK(n) PROVE OK(n + 1)
  <2> DEFINE acc == f[n]
             o == rest[n + 1]
             t == acc.s
             q == acc.left
  <2>1. n \in 0 .. N - 1 /\ n + 1 \in 1 .. N /\ o \in G
    BY <1>2, <1>5
  <2>2. f[n + 1] = Scanned(acc, o)
    BY <1>1, <2>1
  <2>3. acc \in Acc /\ t \in G /\ q \in Seq(G) /\ t \in State /\ o \in State
    BY <1>5, <2>1
  <2>4. Apart(q) /\ Models(t) \cap Covered(q) = {} /\ Models(t) \cup Covered(q) = Done(n)
    BY <1>5
  <2>5. Done(n + 1) = Done(n) \cup Models(o)
    <3>1. \A i : i \in 1 .. n + 1 <=> i \in 1 .. n \/ i = n + 1
      BY <1>5
    <3> QED BY <1>3, <3>1
  <2>6. Models(o) \cap Done(n) = {}
    <3>1. Models(o) \cap Models(s) = {}
      <4>1. Models(o) \subseteq Covered(rest)
        BY <1>2, <1>3, <2>1 DEF Covered
      <4> QED BY <4>1
    <3>2. \A i \in 1 .. n : Models(o) \cap Models(rest[i]) = {}
      <4> TAKE i \in 1 .. n
      <4>1. i \in 1 .. N /\ i # n + 1
        BY <1>2, <1>5
      <4> QED BY <1>2, <2>1, <4>1 DEF Apart
    <3> QED BY <3>1, <3>2
  <2> HIDE DEF acc, o, Done
  <2>7. CASE can_merge_with(t, o)
    <3> DEFINE m == merge_diamond(t, o)
    <3>1. f[n + 1] = [acc EXCEPT !.s = m]
      BY <2>2, <2>7 DEF Scanned
    <3>2. m \in G
      BY <2>1, <2>3, <2>7 DEF Closed
    <3>3. Models(m) = Models(t) \cup Models(o)
      BY <2>3, MergeFacts
    <3> HIDE DEF m
    <3>4. f[n + 1] \in Acc /\ f[n + 1].s = m /\ f[n + 1].left = q
      BY <2>3, <3>1, <3>2
    <3> HIDE DEF Acc
    <3> QED BY <2>4, <2>5, <2>6, <3>3, <3>4
  <2>8. CASE ~can_merge_with(t, o)
    <3>1. f[n + 1] = [acc EXCEPT !.left = Append(q, o)]
      BY <2>2, <2>8 DEF Scanned
    <3>2. /\ Append(q, o) \in Seq(G)
          /\ Covered(Append(q, o)) = Covered(q) \cup Models(o)
          /\ Apart(Append(q, o)) <=> Apart(q) /\ Covered(q) \cap Models(o) = {}
      BY <2>1, <2>3, CoveredAppend
    <3>3. f[n + 1] \in Acc /\ f[n + 1].s = t /\ f[n + 1].left = Append(q, o)
      BY <2>3, <3>1, <3>2
    <3> HIDE DEF Acc
    <3> QED BY <2>4, <2>5, <2>6, <3>2, <3>3
  <2> QED BY <2>7, <2>8
<1>6. 0 \in T
  <2> HIDE DEF OK
  <2> QED BY <1>4
<1>7. ASSUME NEW n \in Nat, n \in T PROVE n + 1 \in T
  <2> HIDE DEF OK, N
  <2> QED BY <1>2, <1>5, <1>7
<1>8. OK(N)
  <2> HIDE DEF T, OK, N
  <2>1. \A n \in Nat : n \in T
    BY <1>6, <1>7, AllNats
  <2> QED BY <1>2, <2>1 DEF T
<1>9. Done(N) = Models(s) \cup Covered(rest)
  BY <1>2 DEF Covered
<1> HIDE DEF Done
<1> QED BY <1>1, <1>8, <1>9

\* The state that finishes is merged into one that did, or appended.
LEMMA AddFinishedFacts ==
  ASSUME NEW G \in SUBSET State, setup.enable_merging => Closed(G), NEW s \in G,
         finished \in Seq(G), Apart(finished), Models(s) \cap Covered(finished) = {}
  PROVE  /\ AddFinished(s) \in Seq(G)
         /\ Apart(AddFinished(s))
         /\ Covered(AddFinished(s)) = Covered(finished) \cup Models(s)
<1> DEFINE with == {i \in DOMAIN finished : setup.enable_merging /\ can_merge_with(s, finished[i])}
           i == CHOOSE i \in with : \A j \in with : i <= j
<1>1. CASE with = {}
  <2>1. AddFinished(s) = Append(finished, s)
    BY <1>1 DEF AddFinished
  <2> QED BY <2>1, CoveredAppend
<1>2. CASE with # {}
  <2>1. AddFinished(s) = [finished EXCEPT ![i] = merge_diamond(finished[i], s)]
    BY <1>2 DEF AddFinished
  <2>2. i \in with
    <3>1. with \in SUBSET Nat
      OBVIOUS
    <3> HIDE DEF with
    <3>2. \E m \in with : \A n \in with : m <= n
      BY <1>2, <3>1, LeastNat
    <3> QED BY <3>2
  <2>3. /\ i \in DOMAIN finished /\ can_merge_with(s, finished[i]) /\ finished[i] \in G
        /\ setup.enable_merging
    BY <2>2
  <2> DEFINE m == merge_diamond(finished[i], s)
  <2>4. m \in G
    BY <2>3 DEF Closed
  <2>5. Models(m) = Models(finished[i]) \cup Models(s)
    <3>1. finished[i] \in State /\ s \in State
      BY <2>3
    <3> QED BY <3>1, MergeFacts
  <2> HIDE DEF m, i
  <2> DEFINE r == AddFinished(s)
  <2>6. r \in Seq(G) /\ DOMAIN r = DOMAIN finished /\ r[i] = m
        /\ \A j \in DOMAIN finished : j # i => r[j] = finished[j]
    BY <2>1, <2>3, <2>4 DEF m
  <2> HIDE DEF r
  <2>7. \A u : Models(u) \subseteq Inputs
    BY DEF Models
  <2>8. \A j \in DOMAIN finished : Models(finished[j]) \subseteq Covered(finished)
    BY <2>7 DEF Covered
  <2>9. Apart(r)
    <3> SUFFICES ASSUME NEW a \in DOMAIN r, NEW b \in DOMAIN r, a # b
                 PROVE  Models(r[a]) \cap Models(r[b]) = {}
      BY DEF Apart
    <3>1. Models(finished[a]) \cap Models(finished[b]) = {}
      BY <2>6 DEF Apart
    <3>2. Models(s) \cap Models(finished[a]) = {} /\ Models(s) \cap Models(finished[b]) = {}
      BY <2>6, <2>8
    <3> QED BY <2>5, <2>6, <3>1, <3>2
  <2>10. Covered(r) = Covered(finished) \cup Models(s)
    <3>1. ASSUME NEW v \in Covered(r) PROVE v \in Covered(finished) \cup Models(s)
      BY <2>3, <2>5, <2>6 DEF Covered
    <3>2. ASSUME NEW v \in Covered(finished) \cup Models(s) PROVE v \in Covered(r)
      BY <2>3, <2>5, <2>6, <2>7 DEF Covered
    <3> QED BY <3>1, <3>2
  <2> QED BY <2>6, <2>9, <2>10 DEF r
<1> QED BY <1>1, <1>2

-----------------------------------------------------------------------------
(* Jumps and branches *)

\* t is where s goes on, for the inputs of t, when the address of v is e[v].
Goes(t, s, e) ==
  /\ t \in State
  /\ t.gpr = s.gpr /\ t.mem = s.mem /\ t.visits = s.visits /\ t.call_stack = s.call_stack
  /\ \A v \in Models(t) : v \in Models(s) /\ t.rip = e[v]

\* The outcome divides the inputs of s, and loses none without saying so.
Splits(o, s) ==
  /\ o.next = <<>> \/ \E t \in State : o.next = <<t>>
  /\ o.forks \in Seq(State)
  /\ Apart(o.forks) /\ Covered(o.next) \cap Covered(o.forks) = {}
  /\ Covered(o.next) \cup Covered(o.forks) \subseteq Models(s)
  /\ o.lost \subseteq Inputs
  /\ ~setup.gives_up =>
       Models(s) \subseteq Covered(o.next) \cup Covered(o.forks) \cup o.lost

\* All of that for a jump to e.
SplitsTo(o, s, e) ==
  /\ Splits(o, s)
  /\ \A j \in DOMAIN o.next : Goes(o.next[j], s, e)
  /\ \A j \in DOMAIN o.forks : Goes(o.forks[j], s, e)

LEMMA PushFacts ==
  ASSUME NEW s \in State, NEW cond \in SUBSET Inputs
  PROVE  /\ push(s, cond) \in State
         /\ Models(push(s, cond)) = Models(s) \cap cond
         /\ push(s, cond).gpr = s.gpr /\ push(s, cond).mem = s.mem
         /\ push(s, cond).visits = s.visits /\ push(s, cond).call_stack = s.call_stack
         /\ push(s, cond).rip = s.rip /\ push(s, cond).fork_depth = s.fork_depth
<1> DEFINE pc == Append(s.pc, cond)
           t == [s EXCEPT !.pc = pc]
<1>1. s.pc \in Seq(SUBSET Inputs)
  BY DEF State
<1>2. /\ pc \in Seq(SUBSET Inputs) /\ DOMAIN pc = 1 .. Len(s.pc) + 1
      /\ \A i \in 1 .. Len(s.pc) : pc[i] = s.pc[i]
      /\ pc[Len(s.pc) + 1] = cond
      /\ Len(s.pc) \in Nat /\ DOMAIN s.pc = 1 .. Len(s.pc)
  BY <1>1
<1> HIDE DEF pc
<1>3. /\ t \in State /\ t.pc = pc
      /\ t.gpr = s.gpr /\ t.mem = s.mem /\ t.visits = s.visits
      /\ t.call_stack = s.call_stack /\ t.rip = s.rip /\ t.fork_depth = s.fork_depth
  BY <1>2 DEF State
<1>4. push(s, cond) = t
  BY DEF push, pc
<1> HIDE DEF t
<1>5. \A i : i \in 1 .. Len(s.pc) + 1 <=> i \in 1 .. Len(s.pc) \/ i = Len(s.pc) + 1
  BY <1>2
<1>6. Models(t) = Models(s) \cap cond
  BY <1>2, <1>3, <1>5 DEF Models
<1> QED BY <1>3, <1>4, <1>6

\* The condition of a state decides its models, wherever it stands.
LEMMA PlaceFacts ==
  ASSUME NEW s \in State, NEW rip \in Nat, NEW depth \in Nat
  PROVE  LET t == [s EXCEPT !.rip = rip, !.fork_depth = depth]
         IN  /\ t \in State /\ t.rip = rip /\ t.fork_depth = depth /\ t.pc = s.pc
             /\ Models(t) = Models(s)
             /\ t.gpr = s.gpr /\ t.mem = s.mem
             /\ t.visits = s.visits /\ t.call_stack = s.call_stack
<1> DEFINE t == [s EXCEPT !.rip = rip, !.fork_depth = depth]
<1>1. /\ t \in State /\ t.rip = rip /\ t.fork_depth = depth /\ t.pc = s.pc
      /\ t.gpr = s.gpr /\ t.mem = s.mem
      /\ t.visits = s.visits /\ t.call_stack = s.call_stack
  BY DEF State
<1> HIDE DEF t
<1>2. Models(t) = Models(s)
  BY <1>1 DEF Models
<1> QED BY <1>1, <1>2 DEF t

LEMMA RipFacts ==
  ASSUME NEW s \in State, NEW rip \in Nat
  PROVE  LET t == [s EXCEPT !.rip = rip]
         IN  /\ t \in State /\ t.rip = rip /\ t.pc = s.pc /\ t.fork_depth = s.fork_depth
             /\ Models(t) = Models(s)
             /\ t.gpr = s.gpr /\ t.mem = s.mem
             /\ t.visits = s.visits /\ t.call_stack = s.call_stack
<1> DEFINE t == [s EXCEPT !.rip = rip]
<1>1. /\ t \in State /\ t.rip = rip /\ t.pc = s.pc /\ t.fork_depth = s.fork_depth
      /\ t.gpr = s.gpr /\ t.mem = s.mem
      /\ t.visits = s.visits /\ t.call_stack = s.call_stack
  BY DEF State
<1> HIDE DEF t
<1>2. Models(t) = Models(s)
  BY <1>1 DEF Models
<1> QED BY <1>1, <1>2 DEF t

LEMMA DepthFacts ==
  ASSUME NEW s \in State, NEW depth \in Nat
  PROVE  LET t == [s EXCEPT !.fork_depth = depth]
         IN  /\ t \in State /\ t.rip = s.rip /\ t.pc = s.pc /\ t.fork_depth = depth
             /\ Models(t) = Models(s)
             /\ t.gpr = s.gpr /\ t.mem = s.mem
             /\ t.visits = s.visits /\ t.call_stack = s.call_stack
<1> DEFINE t == [s EXCEPT !.fork_depth = depth]
<1>1. /\ t \in State /\ t.rip = s.rip /\ t.pc = s.pc /\ t.fork_depth = depth
      /\ t.gpr = s.gpr /\ t.mem = s.mem
      /\ t.visits = s.visits /\ t.call_stack = s.call_stack
  BY DEF State
<1> HIDE DEF t
<1>2. Models(t) = Models(s)
  BY <1>1 DEF Models
<1> QED BY <1>1, <1>2 DEF t

\* A target pinned to n is the target of every input that is left.
LEMMA PinnedFacts ==
  ASSUME NEW s \in State, NEW e \in Expr, NEW n \in Nat, NEW depth \in Nat
  PROVE  LET t == Pinned([s EXCEPT !.fork_depth = depth], e, n)
         IN  Goes(t, s, e) /\ Models(t) = {v \in Models(s) : e[v] = n}
<1> DEFINE u == [s EXCEPT !.fork_depth = depth]
           w == push(u, When(e, n))
           t == [w EXCEPT !.rip = n]
<1>1. /\ u \in State /\ Models(u) = Models(s)
      /\ u.gpr = s.gpr /\ u.mem = s.mem
      /\ u.visits = s.visits /\ u.call_stack = s.call_stack
  BY DepthFacts
<1> HIDE DEF u
<1>2. When(e, n) \in SUBSET Inputs
  BY DEF When
<1>3. /\ w \in State /\ Models(w) = Models(s) \cap When(e, n)
      /\ w.gpr = s.gpr /\ w.mem = s.mem
      /\ w.visits = s.visits /\ w.call_stack = s.call_stack
  BY <1>1, <1>2, PushFacts
<1> HIDE DEF w
<1>4. /\ t \in State /\ t.rip = n /\ Models(t) = Models(s) \cap When(e, n)
      /\ t.gpr = s.gpr /\ t.mem = s.mem
      /\ t.visits = s.visits /\ t.call_stack = s.call_stack
  BY <1>3, RipFacts
<1>5. t = Pinned([s EXCEPT !.fork_depth = depth], e, n)
  BY DEF Pinned, u, w
<1> HIDE DEF t
<1>6. Models(t) = {v \in Models(s) : e[v] = n}
  BY <1>4 DEF When, Models
<1>7. Goes(t, s, e)
  BY <1>4, <1>6 DEF Goes
<1> QED BY <1>5, <1>6, <1>7

LEMMA GoesOnFacts ==
  ASSUME NEW s \in State, NEW e, NEW t, Goes(t, s, e),
         ~setup.gives_up => Models(s) \subseteq Models(t)
  PROVE  SplitsTo(GoesOn(t), s, e)
<1> DEFINE o == GoesOn(t)
<1>1. o.next = <<t>> /\ o.forks = <<>> /\ o.lost = {} /\ DOMAIN <<t>> = {1} /\ <<t>>[1] = t
  BY DEF GoesOn, Outcome
<1>2. <<>> \in Seq(State) /\ DOMAIN <<>> = {}
  OBVIOUS
<1> HIDE DEF o
<1>3. t \in State /\ Models(t) \subseteq Models(s)
  BY DEF Goes
<1>4. Splits(o, s)
  BY <1>1, <1>2, <1>3, CoveredFew DEF Splits
<1>5. (\A j \in DOMAIN o.next : Goes(o.next[j], s, e)) /\ \A j \in DOMAIN o.forks : FALSE
  BY <1>1, <1>2
<1> QED BY <1>4, <1>5 DEF SplitsTo, o

LEMMA DiesFacts ==
  ASSUME NEW s \in State, NEW e
  PROVE  SplitsTo(Dies(s), s, e)
<1> DEFINE o == Dies(s)
<1>1. o.next = <<>> /\ o.forks = <<>> /\ o.lost = Models(s)
  BY DEF Dies, Outcome
<1>2. <<>> \in Seq(State) /\ DOMAIN <<>> = {}
  OBVIOUS
<1> HIDE DEF o
<1>3. Models(s) \subseteq Inputs
  BY DEF Models
<1>4. Splits(o, s)
  BY <1>1, <1>2, <1>3, CoveredFew DEF Splits
<1> QED BY <1>1, <1>2, <1>4 DEF SplitsTo, o

\* The values an expression can take on a path are finitely many addresses.
LEMMA ValuesFacts ==
  ASSUME NEW s \in State, NEW e \in Expr
  PROVE  /\ Values(s, e) \in SUBSET Nat
         /\ IsFiniteSet(Values(s, e))
         /\ Cardinality(Values(s, e)) \in Nat
<1>1. Models(s) \in SUBSET Inputs
  BY DEF Models
<1>2. IsFiniteSet(Models(s))
  BY <1>1, SymxAssumption, FS_Subset
<1>3. Values(s, e) \in SUBSET Nat
  BY <1>1 DEF Values, Expr
<1> DEFINE f == [v \in Models(s) |-> e[v]]
<1>4. f \in Surjection(Models(s), Values(s, e))
  BY DEF Surjection, Values
<1>5. IsFiniteSet(Values(s, e))
  BY <1>2, <1>4, FS_Surjection
<1> QED BY <1>3, <1>5, FS_CardinalityType

\* get_value answers with a value the path has; with the only one, if Z3 never gives up.
LEMMA GetValueFacts ==
  ASSUME NEW s \in State, NEW e \in Expr, NEW got \in get_value(s, e), got # <<>>
  PROVE  /\ got[1] \in Nat
         /\ ~setup.gives_up => \A v \in Models(s) : e[v] = got[1]
<1>1. \E n \in Values(s, e) : got = <<n>>
  BY DEF get_value
<1>2. PICK n \in Values(s, e) : got = <<n>>
  BY <1>1
<1>3. got[1] = n /\ n \in Nat
  BY <1>2, ValuesFacts
<1>4. ASSUME ~setup.gives_up PROVE \A v \in Models(s) : e[v] = n
  <2>1. Cardinality(Values(s, e)) = 1
    BY <1>4 DEF get_value
  <2>2. \E x : Values(s, e) = {x}
    BY <2>1, ValuesFacts, FS_Singleton
  <2>3. \A v \in Models(s) : e[v] \in Values(s, e)
    BY DEF Values
  <2> QED BY <1>2, <2>2, <2>3
<1> QED BY <1>3, <1>4

LEMMA EnumerateFacts ==
  ASSUME NEW s \in State, NEW e \in Expr, setup \in Setup, NEW q \in enumerate(s, e)
  PROVE  q \in Seq(Nat) /\ \A i, j \in DOMAIN q : q[i] = q[j] => i = j
<1>1. CASE ~setup.smt
  <2>1. q = <<>>
    BY <1>1 DEF enumerate
  <2> QED BY <2>1
<1>2. CASE setup.smt
  <2> DEFINE all == Values(s, e)
             most == IF Cardinality(all) < setup.max_enumerate_targets
                       THEN Cardinality(all) ELSE setup.max_enumerate_targets
  <2>1. most \in Nat /\ all \in SUBSET Nat
    BY ValuesFacts DEF Setup
  <2>2. /\ q \in UNION {[1 .. n -> all] : n \in IF setup.gives_up THEN 0 .. most ELSE {most}}
        /\ \A i, j \in DOMAIN q : q[i] = q[j] => i = j
    BY <1>2 DEF enumerate
  <2> HIDE DEF most, all
  <2>3. PICK n \in Nat : q \in [1 .. n -> all]
    BY <2>1, <2>2
  <2>4. q \in [1 .. n -> Nat]
    BY <2>1, <2>3
  <2> QED BY <2>2, <2>4
<1> QED BY <1>1, <1>2

\* Distinct candidates take distinct inputs; those of no candidate are reported lost.
LEMMA CandidatesFacts ==
  ASSUME NEW s \in State, NEW e \in Expr, setup \in Setup, NEW q \in Seq(Nat), q # <<>>,
         \A i, j \in DOMAIN q : q[i] = q[j] => i = j
  PROVE  SplitsTo(Candidates(s, e, q), s, e)
<1> DEFINE room == IF s.fork_depth >= setup.max_fork_depth THEN 0
                   ELSE setup.max_fork_depth - s.fork_depth
           n == IF Len(q) - 1 < room THEN Len(q) - 1 ELSE room
           alt(i) == Pinned([fork(s) EXCEPT !.fork_depth = @ + i], e, q[i + 1])
           first == Pinned([s EXCEPT !.fork_depth = @ + n], e, q[1])
           fs == [i \in 1 .. n |-> alt(i)]
           o == Candidates(s, e, q)
<1>1. /\ Len(q) \in Nat /\ Len(q) >= 1 /\ DOMAIN q = 1 .. Len(q)
      /\ \A i \in 1 .. Len(q) : q[i] \in Nat
  OBVIOUS
<1>2. s.fork_depth \in Nat /\ setup.max_fork_depth \in Nat
  BY DEF State, Setup
<1>3. room \in Nat
  BY <1>2
<1>4. n \in Nat /\ n <= Len(q) - 1
  BY <1>1, <1>3
<1>5. /\ o.next = <<first>> /\ o.forks = fs
      /\ o.lost = {v \in Models(s) : \A i \in 1 .. n + 1 : e[v] # q[i]}
  BY DEF Candidates, Outcome
<1> HIDE DEF o, n
<1>6. Goes(first, s, e) /\ Models(first) = {v \in Models(s) : e[v] = q[1]}
  <2>1. s.fork_depth + n \in Nat /\ q[1] \in Nat
    BY <1>1, <1>2, <1>4
  <2> QED BY <2>1, PinnedFacts
<1>7. ASSUME NEW i \in 1 .. n
      PROVE  Goes(alt(i), s, e) /\ Models(alt(i)) = {v \in Models(s) : e[v] = q[i + 1]}
  <2>1. s.fork_depth + 1 \in Nat /\ s.fork_depth + 1 + i \in Nat /\ q[i + 1] \in Nat
    BY <1>1, <1>2, <1>4
  <2>2. [fork(s) EXCEPT !.fork_depth = @ + i] = [s EXCEPT !.fork_depth = s.fork_depth + 1 + i]
    BY DEF fork, State
  <2> DEFINE d == s.fork_depth + 1 + i
             m == q[i + 1]
             t == Pinned([s EXCEPT !.fork_depth = d], e, m)
  <2>3. alt(i) = t
    BY <2>2
  <2>4. d \in Nat /\ m \in Nat
    BY <2>1
  <2> HIDE DEF d, m
  <2>5. Goes(t, s, e) /\ Models(t) = {v \in Models(s) : e[v] = m}
    BY <2>4, PinnedFacts
  <2> HIDE DEF t, alt
  <2> QED BY <2>3, <2>5 DEF m
<1>8. \A i \in 1 .. n : alt(i) \in State
  BY <1>7 DEF Goes
<1> HIDE DEF first
<1>9. /\ fs \in Seq(State) /\ DOMAIN fs = 1 .. n
      /\ \A i \in 1 .. n : Goes(fs[i], s, e) /\ Models(fs[i]) = {v \in Models(s) : e[v] = q[i + 1]}
  <2>1. fs \in [1 .. n -> State]
    BY <1>8
  <2>2. \A i \in 1 .. n : fs[i] = alt(i)
    OBVIOUS
  <2> HIDE DEF fs, alt
  <2>3. fs \in Seq(State) /\ DOMAIN fs = 1 .. n
    BY <1>4, <2>1
  <2> QED BY <1>7, <2>2, <2>3
<1> HIDE DEF fs, alt
<1>10. Apart(fs)
  <2> SUFFICES ASSUME NEW i \in 1 .. n, NEW j \in 1 .. n, i # j
               PROVE  Models(fs[i]) \cap Models(fs[j]) = {}
    BY <1>9 DEF Apart
  <2>1. i + 1 \in DOMAIN q /\ j + 1 \in DOMAIN q /\ i + 1 # j + 1
    BY <1>1, <1>4
  <2>2. q[i + 1] # q[j + 1]
    BY <2>1
  <2> QED BY <1>9, <2>2
<1>11. Models(first) \cap Covered(fs) = {}
  <2> SUFFICES ASSUME NEW i \in 1 .. n PROVE Models(first) \cap Models(fs[i]) = {}
    BY <1>9 DEF Covered
  <2>1. i + 1 \in DOMAIN q /\ 1 \in DOMAIN q /\ i + 1 # 1
    BY <1>1, <1>4
  <2>2. q[i + 1] # q[1]
    BY <2>1
  <2> QED BY <1>6, <1>9, <2>2
<1>12. Covered(fs) \subseteq Models(s) /\ Models(first) \subseteq Models(s)
  BY <1>6, <1>9 DEF Covered
<1>13. ASSUME NEW v \in Models(s)
       PROVE  v \in Models(first) \/ v \in Covered(fs) \/ v \in o.lost
  <2> SUFFICES ASSUME v \notin o.lost, v \notin Models(first) PROVE v \in Covered(fs)
    OBVIOUS
  <2>1. PICK i \in 1 .. n + 1 : e[v] = q[i]
    BY <1>5
  <2>2. i # 1
    BY <1>6, <2>1
  <2>3. i - 1 \in 1 .. n /\ (i - 1) + 1 = i
    BY <1>4, <2>2
  <2>4. v \in Models(fs[i - 1])
    BY <1>9, <2>1, <2>3
  <2>5. v \in Inputs
    BY DEF Models
  <2> QED BY <1>9, <2>3, <2>4, <2>5 DEF Covered
<1>14. Models(s) \subseteq Inputs /\ first \in State
  BY <1>6 DEF Models, Goes
<1>15. Covered(o.next) = Models(first) /\ DOMAIN o.next = {1} /\ o.next[1] = first
  BY <1>5, CoveredFew
<1>16. Splits(o, s)
  BY <1>5, <1>9, <1>10, <1>11, <1>12, <1>13, <1>14, <1>15 DEF Splits
<1> QED BY <1>5, <1>6, <1>9, <1>15, <1>16 DEF SplitsTo, o

LEMMA ResolveFacts ==
  ASSUME NEW s \in State, NEW e \in Expr, setup \in Setup,
         NEW o \in resolve_symbolic_target(s, e)
  PROVE  SplitsTo(o, s, e)
<1>1. PICK got \in get_value(s, e) :
        o \in IF got # <<>> THEN {GoesOn(Pinned(s, e, got[1]))}
              ELSE IF setup.max_enumerate_targets = 0 THEN {Dies(s)}
              ELSE {IF q = <<>> THEN Dies(s) ELSE Candidates(s, e, q) : q \in enumerate(s, e)}
  BY DEF resolve_symbolic_target
<1>2. CASE got # <<>>
  <2> DEFINE n == got[1]
             t == Pinned(s, e, n)
  <2>1. n \in Nat /\ (~setup.gives_up => \A v \in Models(s) : e[v] = n)
    BY <1>2, GetValueFacts
  <2> HIDE DEF n
  <2>2. s.fork_depth \in Nat /\ s = [s EXCEPT !.fork_depth = s.fork_depth]
    BY DEF State
  <2>3. Goes(t, s, e) /\ Models(t) = {v \in Models(s) : e[v] = n}
    <3> DEFINE d == s.fork_depth
    <3>1. d \in Nat /\ s = [s EXCEPT !.fork_depth = d]
      BY <2>2
    <3> HIDE DEF d
    <3> QED BY <2>1, <3>1, PinnedFacts
  <2>4. o = GoesOn(t)
    BY <1>1, <1>2 DEF n
  <2> HIDE DEF t
  <2> QED BY <2>1, <2>3, <2>4, GoesOnFacts
<1>3. CASE got = <<>> /\ o = Dies(s)
  BY <1>3, DiesFacts
<1>4. CASE got = <<>> /\ o # Dies(s)
  <2>1. PICK q \in enumerate(s, e) : q # <<>> /\ o = Candidates(s, e, q)
    BY <1>1, <1>4
  <2>2. q \in Seq(Nat) /\ \A i, j \in DOMAIN q : q[i] = q[j] => i = j
    BY EnumerateFacts
  <2> QED BY <2>1, <2>2, CandidatesFacts
<1> QED BY <1>2, <1>3, <1>4

LEMMA JumpToFacts ==
  ASSUME NEW s \in State, NEW e \in Expr, setup \in Setup, NEW o \in JumpTo(s, e)
  PROVE  SplitsTo(o, s, e)
<1>1. CASE is_const(e)
  <2> DEFINE n == Value(e)
             t == [s EXCEPT !.rip = n]
  <2>1. (CHOOSE v \in Inputs : TRUE) \in Inputs
    BY SymxAssumption
  <2>2. n \in Nat
    BY <2>1 DEF Value, Expr
  <2>3. \A v \in Inputs : e[v] = n
    BY <1>1, <2>1 DEF is_const, Value
  <2>4. o = GoesOn(t)
    BY <1>1 DEF JumpTo
  <2> HIDE DEF n
  <2>5. /\ t \in State /\ t.rip = n /\ Models(t) = Models(s)
        /\ t.gpr = s.gpr /\ t.mem = s.mem
        /\ t.visits = s.visits /\ t.call_stack = s.call_stack
    BY <2>2, RipFacts
  <2> HIDE DEF t
  <2>6. Goes(t, s, e)
    BY <2>3, <2>5 DEF Goes, Models
  <2> QED BY <2>4, <2>5, <2>6, GoesOnFacts
<1>2. CASE ~is_const(e)
  BY <1>2, ResolveFacts DEF JumpTo
<1> QED BY <1>1, <1>2

\* A conditional branch goes where its condition says.
LEMMA BranchFacts ==
  ASSUME NEW s \in State, setup \in Setup, NEW cond \in SUBSET Inputs,
         NEW a \in Nat, NEW b \in Nat, NEW o \in Branch(s, cond, a, b)
  PROVE  SplitsTo(o, s, [v \in Inputs |-> IF v \in cond THEN a ELSE b])
<1> DEFINE e == [v \in Inputs |-> IF v \in cond THEN a ELSE b]
           rest == Inputs \ cond
<1>1. \A v \in Inputs : e[v] = IF v \in cond THEN a ELSE b
  OBVIOUS
<1>2. Models(s) \subseteq Inputs /\ rest \in SUBSET Inputs /\ s.fork_depth \in Nat
  BY DEF Models, State
<1> HIDE DEF e
<1>3. CASE cond \in {{}, Inputs}
  <2> DEFINE n == IF cond = Inputs THEN a ELSE b
             t == [s EXCEPT !.rip = n]
  <2>1. n \in Nat /\ o = GoesOn(t)
    BY <1>3 DEF Branch
  <2>2. \A v \in Inputs : e[v] = n
    BY <1>1, <1>3
  <2> HIDE DEF n
  <2>3. /\ t \in State /\ t.rip = n /\ Models(t) = Models(s)
        /\ t.gpr = s.gpr /\ t.mem = s.mem
        /\ t.visits = s.visits /\ t.call_stack = s.call_stack
    BY <2>1, RipFacts
  <2> HIDE DEF t
  <2>4. Goes(t, s, e)
    BY <1>2, <2>2, <2>3 DEF Goes
  <2> QED BY <2>1, <2>3, <2>4, GoesOnFacts DEF e
<1>4. CASE cond \notin {{}, Inputs}
  <2> DEFINE p == push(s, cond)
             r == push(s, rest)
             Taken == Outcome(<<[p EXCEPT !.rip = a]>>, <<>>, Models(s) \ cond)
             Fallen == Outcome(<<[r EXCEPT !.rip = b]>>, <<>>, Models(s) \cap cond)
  <2>1. o \in {BothSides(s, cond, a, b), Taken, Fallen, Dies(s)}
    <3>1. PICK tf \in Feasible(s, cond), ff \in Feasible(s, rest) :
            o = Sides(s, cond, a, b, tf, ff)
      BY <1>4 DEF Branch
    <3> HIDE DEF p, r
    <3>2. CASE tf /\ ff /\ s.fork_depth < setup.max_fork_depth
      BY <3>1, <3>2 DEF Sides
    <3>3. CASE ~(tf /\ ff /\ s.fork_depth < setup.max_fork_depth) /\ tf
      BY <3>1, <3>3 DEF Sides, p
    <3>4. CASE ~tf /\ ff
      BY <3>1, <3>4 DEF Sides, r
    <3>5. CASE ~tf /\ ~ff
      BY <3>1, <3>5 DEF Sides
    <3> QED BY <3>2, <3>3, <3>4, <3>5
  <2>2. /\ p \in State /\ Models(p) = Models(s) \cap cond
        /\ p.gpr = s.gpr /\ p.mem = s.mem /\ p.visits = s.visits
        /\ p.call_stack = s.call_stack /\ p.fork_depth = s.fork_depth
    BY PushFacts
  <2>3. /\ r \in State /\ Models(r) = Models(s) \cap rest
        /\ r.gpr = s.gpr /\ r.mem = s.mem /\ r.visits = s.visits
        /\ r.call_stack = s.call_stack /\ r.fork_depth = s.fork_depth
    BY <1>2, PushFacts
  <2>4. CASE o = Taken
    <3> DEFINE t == [p EXCEPT !.rip = a]
    <3> HIDE DEF p
    <3>1. /\ t \in State /\ t.rip = a /\ Models(t) = Models(s) \cap cond
          /\ t.gpr = s.gpr /\ t.mem = s.mem
          /\ t.visits = s.visits /\ t.call_stack = s.call_stack
      BY <2>2, RipFacts
    <3>2. o.next = <<t>> /\ o.forks = <<>> /\ o.lost = Models(s) \ cond
      BY <2>4 DEF Outcome
    <3> HIDE DEF t
    <3>3. Goes(t, s, e)
      BY <1>1, <1>2, <3>1 DEF Goes
    <3>4. /\ <<>> \in Seq(State) /\ DOMAIN <<>> = {}
          /\ DOMAIN <<t>> = {1} /\ <<t>>[1] = t
      OBVIOUS
    <3>5. Splits(o, s)
      BY <1>2, <3>1, <3>2, <3>4, CoveredFew DEF Splits
    <3>6. \A j \in DOMAIN o.next : Goes(o.next[j], s, e)
      BY <3>2, <3>3, <3>4
    <3>7. \A j \in DOMAIN o.forks : Goes(o.forks[j], s, e)
      BY <3>2, <3>4
    <3> QED BY <3>5, <3>6, <3>7 DEF SplitsTo, e
  <2>5. CASE o = Fallen
    <3> DEFINE t == [r EXCEPT !.rip = b]
    <3> HIDE DEF r
    <3>1. /\ t \in State /\ t.rip = b /\ Models(t) = Models(s) \cap rest
          /\ t.gpr = s.gpr /\ t.mem = s.mem
          /\ t.visits = s.visits /\ t.call_stack = s.call_stack
      BY <2>3, RipFacts
    <3>2. o.next = <<t>> /\ o.forks = <<>> /\ o.lost = Models(s) \cap cond
      BY <2>5 DEF Outcome
    <3> HIDE DEF t
    <3>3. Goes(t, s, e)
      BY <1>1, <1>2, <3>1 DEF Goes
    <3>4. /\ <<>> \in Seq(State) /\ DOMAIN <<>> = {}
          /\ DOMAIN <<t>> = {1} /\ <<t>>[1] = t
      OBVIOUS
    <3>5. Splits(o, s)
      BY <1>2, <3>1, <3>2, <3>4, CoveredFew DEF Splits
    <3>6. \A j \in DOMAIN o.next : Goes(o.next[j], s, e)
      BY <3>2, <3>3, <3>4
    <3>7. \A j \in DOMAIN o.forks : Goes(o.forks[j], s, e)
      BY <3>2, <3>4
    <3> QED BY <3>5, <3>6, <3>7 DEF SplitsTo, e
  <2>6. CASE o = BothSides(s, cond, a, b)
    <3> DEFINE t == [p EXCEPT !.rip = a, !.fork_depth = @ + 1]
               f == fork(s)
               g == push(f, rest)
               u == [g EXCEPT !.rip = b]
    <3>1. /\ t \in State /\ t.rip = a /\ Models(t) = Models(s) \cap cond
          /\ t.gpr = s.gpr /\ t.mem = s.mem
          /\ t.visits = s.visits /\ t.call_stack = s.call_stack
      <4> DEFINE d == p.fork_depth + 1
                 w == [p EXCEPT !.rip = a, !.fork_depth = d]
      <4>1. t = w
        OBVIOUS
      <4> HIDE DEF p
      <4>2. d \in Nat
        BY <1>2, <2>2
      <4> HIDE DEF d
      <4>3. /\ w \in State /\ w.rip = a /\ Models(w) = Models(p)
            /\ w.gpr = p.gpr /\ w.mem = p.mem
            /\ w.visits = p.visits /\ w.call_stack = p.call_stack
        <5>1. p \in State
          BY <2>2
        <5>2. /\ w \in State /\ w.rip = a /\ w.pc = p.pc
              /\ w.gpr = p.gpr /\ w.mem = p.mem
              /\ w.visits = p.visits /\ w.call_stack = p.call_stack
          BY <4>2, <5>1 DEF State
        <5> HIDE DEF w
        <5> QED BY <5>2 DEF Models
      <4> HIDE DEF w, t
      <4> QED BY <2>2, <4>1, <4>3
    <3>2. o.next = <<t>> /\ o.forks = <<u>> /\ o.lost = {}
      BY <2>6 DEF BothSides, Outcome
    <3>3. /\ f \in State /\ Models(f) = Models(s)
          /\ f.gpr = s.gpr /\ f.mem = s.mem
          /\ f.visits = s.visits /\ f.call_stack = s.call_stack
      <4>1. s.fork_depth + 1 \in Nat /\ f = [s EXCEPT !.fork_depth = s.fork_depth + 1]
        BY <1>2 DEF fork
      <4> HIDE DEF f
      <4> QED BY <4>1, DepthFacts
    <3> HIDE DEF f, t
    <3>4. /\ g \in State /\ Models(g) = Models(s) \cap rest
          /\ g.gpr = s.gpr /\ g.mem = s.mem
          /\ g.visits = s.visits /\ g.call_stack = s.call_stack
      BY <1>2, <3>3, PushFacts
    <3> HIDE DEF g
    <3>5. /\ u \in State /\ u.rip = b /\ Models(u) = Models(s) \cap rest
          /\ u.gpr = s.gpr /\ u.mem = s.mem
          /\ u.visits = s.visits /\ u.call_stack = s.call_stack
      BY <3>4, RipFacts
    <3> HIDE DEF u
    <3>6. Goes(t, s, e) /\ Goes(u, s, e)
      BY <1>1, <1>2, <3>1, <3>5 DEF Goes
    <3>7. /\ <<u>> \in Seq(State)
          /\ DOMAIN <<t>> = {1} /\ <<t>>[1] = t
          /\ DOMAIN <<u>> = {1} /\ <<u>>[1] = u
      BY <3>5
    <3>8. /\ Covered(<<t>>) = Models(t) /\ Covered(<<u>>) = Models(u) /\ Apart(<<u>>)
      BY CoveredFew
    <3>9. Splits(o, s)
      BY <1>2, <3>1, <3>2, <3>5, <3>7, <3>8 DEF Splits
    <3>10. \A j \in DOMAIN o.next : Goes(o.next[j], s, e)
      BY <3>2, <3>6, <3>7
    <3>11. \A j \in DOMAIN o.forks : Goes(o.forks[j], s, e)
      BY <3>2, <3>6, <3>7
    <3> QED BY <3>9, <3>10, <3>11 DEF SplitsTo, e
  <2> QED BY <2>1, <2>4, <2>5, <2>6, DiesFacts DEF e
<1> QED BY <1>3, <1>4

-----------------------------------------------------------------------------
(* One instruction, in the engine and in the machine *)

Machine == [rip : Nat, gpr : [Regs -> Nat], mem : Nat, calls : Seq(Nat)]

\* The machine state that s describes for the input v.
Abs(s, v) == [rip |-> s.rip, gpr |-> [r \in Regs |-> s.gpr[r][v]],
              mem |-> s.mem[v], calls |-> s.call_stack]

LEMMA AbsFacts ==
  ASSUME NEW s \in State, NEW v \in Inputs
  PROVE  Abs(s, v) \in Machine
<1>1. /\ s.gpr \in [Regs -> Expr] /\ s.mem \in Expr /\ s.rip \in Nat
      /\ s.call_stack \in Seq(Nat)
  BY DEF State
<1>2. \A r \in Regs : s.gpr[r][v] \in Nat
  BY <1>1 DEF Expr
<1>3. s.mem[v] \in Nat
  BY <1>1 DEF Expr
<1>4. [r \in Regs |-> s.gpr[r][v]] \in [Regs -> Nat]
  BY <1>2
<1> QED BY <1>1, <1>3, <1>4 DEF Abs, Machine

\* The machine's step from m, whose registers are g, memory c and calls d, is that of
\* the instruction i, which ends at next.
Steps(p, m, i, next, g, c, d) ==
  LET To(x) == [rip |-> x, gpr |-> g, mem |-> c, calls |-> d]
      Calls(x) == [rip |-> x, gpr |-> g, mem |-> c, calls |-> Append(d, next)]
  IN  /\ i.op = "mov" => ConcreteStep(p, m) =
           [rip |-> next, gpr |-> [g EXCEPT ![i.r] = i.c], mem |-> c, calls |-> d]
      /\ i.op = "load" => ConcreteStep(p, m) =
           [rip |-> next, gpr |-> [g EXCEPT ![i.r] = c], mem |-> c, calls |-> d]
      /\ i.op = "store" => ConcreteStep(p, m) =
           [rip |-> next, gpr |-> g, mem |-> g[i.r], calls |-> d]
      /\ i.op = "jeq" => ConcreteStep(p, m) = To(IF g[i.r] = i.c THEN i.t ELSE next)
      /\ i.op = "jmp" => ConcreteStep(p, m) = To(i.t)
      /\ i.op = "jmpr" => ConcreteStep(p, m) = To(g[i.r])
      /\ i.op = "call" => ConcreteStep(p, m) = Calls(i.t)
      /\ i.op = "callr" => ConcreteStep(p, m) = Calls(g[i.r])
      /\ i.op = "ret" /\ d = <<>> => ConcreteStep(p, m) = To(c)
      /\ i.op = "ret" /\ d # <<>> => ConcreteStep(p, m) =
           [rip |-> Last(d), gpr |-> g, mem |-> c, calls |-> Front(d)]

LEMMA StepFacts ==
  ASSUME NEW p \in Seq(Instr), NEW a \in 0 .. Len(p) - 1, NEW g \in [Regs -> Nat],
         NEW c \in Nat, NEW d \in Seq(Nat)
  PROVE  Steps(p, [rip |-> a, gpr |-> g, mem |-> c, calls |-> d], p[a + 1], a + 1, g, c, d)
<1> DEFINE m == [rip |-> a, gpr |-> g, mem |-> c, calls |-> d]
           i == p[a + 1]
<1>1. m.rip = a /\ m.gpr = g /\ m.mem = c /\ m.calls = d
  OBVIOUS
<1>2. ConcreteStep(p, m) =
        CASE i.op = "mov" -> [m EXCEPT !.gpr[i.r] = i.c, !.rip = a + 1]
          [] i.op = "load" -> [m EXCEPT !.gpr[i.r] = c, !.rip = a + 1]
          [] i.op = "store" -> [m EXCEPT !.mem = g[i.r], !.rip = a + 1]
          [] i.op = "jeq" -> [m EXCEPT !.rip = IF g[i.r] = i.c THEN i.t ELSE a + 1]
          [] i.op = "jmp" -> [m EXCEPT !.rip = i.t]
          [] i.op = "jmpr" -> [m EXCEPT !.rip = g[i.r]]
          [] i.op = "call" -> [m EXCEPT !.rip = i.t, !.calls = Append(@, a + 1)]
          [] i.op = "callr" -> [m EXCEPT !.rip = g[i.r], !.calls = Append(@, a + 1)]
          [] i.op = "ret" -> IF d = <<>> THEN [m EXCEPT !.rip = c]
                             ELSE [m EXCEPT !.rip = Last(d), !.calls = Front(@)]
  BY <1>1 DEF ConcreteStep
<1> HIDE DEF i
<1>3. i.op = "mov" => ConcreteStep(p, m) =
        [rip |-> a + 1, gpr |-> [g EXCEPT ![i.r] = i.c], mem |-> c, calls |-> d]
  BY <1>2
<1>4. i.op = "load" => ConcreteStep(p, m) =
        [rip |-> a + 1, gpr |-> [g EXCEPT ![i.r] = c], mem |-> c, calls |-> d]
  BY <1>2
<1>5. i.op = "store" => ConcreteStep(p, m) =
        [rip |-> a + 1, gpr |-> g, mem |-> g[i.r], calls |-> d]
  BY <1>2
<1>6. i.op = "jeq" => ConcreteStep(p, m) =
        [rip |-> IF g[i.r] = i.c THEN i.t ELSE a + 1, gpr |-> g, mem |-> c, calls |-> d]
  BY <1>2
<1>7. /\ i.op = "jmp" => ConcreteStep(p, m) = [rip |-> i.t, gpr |-> g, mem |-> c, calls |-> d]
      /\ i.op = "jmpr" => ConcreteStep(p, m) = [rip |-> g[i.r], gpr |-> g, mem |-> c, calls |-> d]
  BY <1>2
<1>8. /\ i.op = "call" => ConcreteStep(p, m) =
           [rip |-> i.t, gpr |-> g, mem |-> c, calls |-> Append(d, a + 1)]
      /\ i.op = "callr" => ConcreteStep(p, m) =
           [rip |-> g[i.r], gpr |-> g, mem |-> c, calls |-> Append(d, a + 1)]
  BY <1>2
<1>9. /\ i.op = "ret" /\ d = <<>> => ConcreteStep(p, m) =
           [rip |-> c, gpr |-> g, mem |-> c, calls |-> d]
      /\ i.op = "ret" /\ d # <<>> => ConcreteStep(p, m) =
           [rip |-> Last(d), gpr |-> g, mem |-> c, calls |-> Front(d)]
  BY <1>2
<1> HIDE DEF m
<1> QED BY <1>3, <1>4, <1>5, <1>6, <1>7, <1>8, <1>9 DEF Steps, i, m

\* t is s after the instruction i of p; apply_op leaves rip alone when i falls through.
Leads(t, s, i, p) ==
  /\ t \in State /\ t.visits = s.visits /\ (i.op # "store" => t.mem = s.mem)
  /\ \A v \in Models(t) : v \in Models(s) /\ Abs(t, v) = ConcreteStep(p, Abs(s, v))

FallsThrough(t, s, i, p) ==
  /\ i.op \in {"mov", "load", "store"}
  /\ t.rip = s.rip
  /\ Leads([t EXCEPT !.rip = s.rip + 1], s, i, p)

\* Where a jump goes, and the machine with it.
LEMMA GoesLeads ==
  ASSUME NEW s \in State, NEW u \in State, Models(u) = Models(s),
         u.gpr = s.gpr, u.mem = s.mem, u.visits = s.visits,
         NEW i, NEW p, NEW e, NEW t, Goes(t, u, e),
         \A v \in Models(s) : ConcreteStep(p, Abs(s, v)) =
            [rip |-> e[v], gpr |-> Abs(s, v).gpr, mem |-> Abs(s, v).mem, calls |-> u.call_stack]
  PROVE  Leads(t, s, i, p)
<1>1. /\ t \in State /\ t.gpr = s.gpr /\ t.mem = s.mem /\ t.visits = s.visits
      /\ t.call_stack = u.call_stack
      /\ \A v \in Models(t) : v \in Models(s) /\ t.rip = e[v]
  BY DEF Goes
<1>2. ASSUME NEW v \in Models(t) PROVE Abs(t, v) = ConcreteStep(p, Abs(s, v))
  <2>1. v \in Models(s) /\ t.rip = e[v]
    BY <1>1
  <2>2. Abs(s, v).gpr = [r \in Regs |-> s.gpr[r][v]] /\ Abs(s, v).mem = s.mem[v]
    BY DEF Abs
  <2>3. Abs(t, v) = [rip |-> e[v], gpr |-> [r \in Regs |-> s.gpr[r][v]],
                     mem |-> s.mem[v], calls |-> u.call_stack]
    BY <1>1, <2>1 DEF Abs
  <2> QED BY <2>1, <2>2, <2>3
<1> QED BY <1>1, <1>2 DEF Leads

\* What an instruction makes of a state.
Applied(o, s, i, p) ==
  /\ Splits(o, s)
  /\ \A j \in DOMAIN o.next : Leads(o.next[j], s, i, p) \/ FallsThrough(o.next[j], s, i, p)
  /\ \A j \in DOMAIN o.forks : Leads(o.forks[j], s, i, p)

LEMMA JumpApplied ==
  ASSUME NEW s \in State, NEW u \in State, Models(u) = Models(s),
         u.gpr = s.gpr, u.mem = s.mem, u.visits = s.visits,
         NEW i, NEW p, NEW e, NEW o, SplitsTo(o, u, e),
         \A v \in Models(s) : ConcreteStep(p, Abs(s, v)) =
            [rip |-> e[v], gpr |-> Abs(s, v).gpr, mem |-> Abs(s, v).mem, calls |-> u.call_stack]
  PROVE  Applied(o, s, i, p)
<1>1. /\ Splits(o, u)
      /\ \A j \in DOMAIN o.next : Goes(o.next[j], u, e)
      /\ \A j \in DOMAIN o.forks : Goes(o.forks[j], u, e)
  BY DEF SplitsTo
<1>2. Splits(o, s)
  BY <1>1 DEF Splits
<1>3. \A t : Goes(t, u, e) => Leads(t, s, i, p)
  BY GoesLeads
<1> QED BY <1>1, <1>2, <1>3 DEF Applied

LEMMA FallApplied ==
  ASSUME NEW s \in State, NEW t \in State, Models(t) = Models(s),
         NEW i, NEW p, FallsThrough(t, s, i, p)
  PROVE  Applied(GoesOn(t), s, i, p)
<1> DEFINE o == GoesOn(t)
<1>1. o.next = <<t>> /\ o.forks = <<>> /\ o.lost = {} /\ DOMAIN <<t>> = {1} /\ <<t>>[1] = t
  BY DEF GoesOn, Outcome
<1>2. <<>> \in Seq(State) /\ DOMAIN <<>> = {}
  OBVIOUS
<1> HIDE DEF o
<1>3. Splits(o, s)
  BY <1>1, <1>2, CoveredFew DEF Splits
<1> QED BY <1>1, <1>2, <1>3 DEF Applied, o

LEMMA ApplyFacts ==
  ASSUME setup \in Setup, NEW s \in State, s.rip \in 0 .. Len(setup.prog) - 1,
         NEW o \in apply_op(s, setup.prog[s.rip + 1])
  PROVE  Applied(o, s, setup.prog[s.rip + 1], setup.prog)
<1> DEFINE p == setup.prog
           i == p[s.rip + 1]
           next == s.rip + 1
<1> SUFFICES Applied(o, s, i, p)
  OBVIOUS
<1>1. p \in Seq(Instr)
  BY DEF Setup
<1> HIDE DEF p
<1>2. i \in Instr
  <2>1. s.rip + 1 \in 1 .. Len(p)
    BY <1>1 DEF p
  <2> QED BY <1>1, <2>1
<1>3. /\ s.gpr \in [Regs -> Expr] /\ s.mem \in Expr /\ s.rip \in Nat
      /\ s.call_stack \in Seq(Nat) /\ next \in Nat
  BY DEF State
<1>4. i.r \in Regs /\ i.c \in Nat /\ i.t \in Nat
      /\ i.op \in {"mov", "load", "store", "jeq", "jmp", "jmpr", "call", "callr", "ret"}
  BY <1>2 DEF Instr
<1>5. s.gpr[i.r] \in Expr
  BY <1>3, <1>4
<1>6. o \in apply_op(s, i) /\ s.rip \in 0 .. Len(p) - 1
  BY DEF p
<1> DEFINE g(v) == [r \in Regs |-> s.gpr[r][v]]
           c(v) == s.mem[v]
           d == s.call_stack
<1>7. \A v \in Models(s) : /\ v \in Inputs
                           /\ g(v) \in [Regs -> Nat] /\ c(v) \in Nat
                           /\ g(v)[i.r] = s.gpr[i.r][v]
                           /\ Abs(s, v) = [rip |-> s.rip, gpr |-> g(v), mem |-> c(v), calls |-> d]
                           /\ Abs(s, v).gpr = g(v) /\ Abs(s, v).mem = c(v)
  <2> TAKE v \in Models(s)
  <2>1. v \in Inputs
    BY DEF Models
  <2>2. \A r \in Regs : s.gpr[r][v] \in Nat
    BY <1>3, <2>1 DEF Expr
  <2>3. s.mem[v] \in Nat
    BY <1>3, <2>1 DEF Expr
  <2> QED BY <1>4, <2>1, <2>2, <2>3 DEF Abs
<1> HIDE DEF i, g, c
<1>8. ASSUME NEW v \in Models(s)
      PROVE  Steps(p, Abs(s, v), i, next, g(v), c(v), d)
  <2>1. g(v) \in [Regs -> Nat] /\ c(v) \in Nat /\ d \in Seq(Nat)
        /\ Abs(s, v) = [rip |-> s.rip, gpr |-> g(v), mem |-> c(v), calls |-> d]
    BY <1>3, <1>7
  <2> QED BY <1>1, <1>6, <2>1, StepFacts DEF i
<1>9. ASSUME NEW e \in Expr, o \in JumpTo(s, e),
             \A v \in Models(s) : ConcreteStep(p, Abs(s, v)) =
                [rip |-> e[v], gpr |-> g(v), mem |-> c(v), calls |-> d]
      PROVE  Applied(o, s, i, p)
  <2>1. SplitsTo(o, s, e)
    BY <1>9, JumpToFacts
  <2> QED BY <1>7, <1>9, <2>1, JumpApplied
<1> DEFINE called == [s EXCEPT !.call_stack = Append(@, next)]
<1>10. ASSUME NEW e \in Expr, o \in JumpTo(called, e),
              \A v \in Models(s) : ConcreteStep(p, Abs(s, v)) =
                 [rip |-> e[v], gpr |-> g(v), mem |-> c(v), calls |-> Append(d, next)]
       PROVE  Applied(o, s, i, p)
  <2>1. /\ called \in State /\ called.pc = s.pc /\ called.call_stack = Append(d, next)
        /\ called.gpr = s.gpr /\ called.mem = s.mem /\ called.visits = s.visits
    <3> DEFINE q == Append(s.call_stack, next)
    <3>1. q \in Seq(Nat)
      BY <1>3
    <3> HIDE DEF q
    <3>2. LET t == [s EXCEPT !.call_stack = q]
          IN  /\ t \in State /\ t.pc = s.pc /\ t.call_stack = q
              /\ t.gpr = s.gpr /\ t.mem = s.mem /\ t.visits = s.visits
      BY <3>1 DEF State
    <3> QED BY <3>2 DEF q
  <2>2. Models(called) = Models(s)
    <3> HIDE DEF called
    <3> QED BY <2>1 DEF Models
  <2> HIDE DEF called
  <2>3. SplitsTo(o, called, e)
    BY <1>10, <2>1, JumpToFacts
  <2> QED BY <1>7, <1>10, <2>1, <2>2, <2>3, JumpApplied
<1>11. CASE i.op = "mov"
  <2> DEFINE gpr == [s.gpr EXCEPT ![i.r] = k(i.c)]
             t == [s EXCEPT !.gpr = gpr]
             w == [t EXCEPT !.rip = next]
  <2>1. o = GoesOn(t)
    BY <1>6, <1>11 DEF apply_op
  <2>2. k(i.c) \in Expr /\ gpr \in [Regs -> Expr]
    BY <1>3, <1>4 DEF k, Expr
  <2>3. ASSUME NEW v \in Inputs
        PROVE  [r \in Regs |-> gpr[r][v]] = [g(v) EXCEPT ![i.r] = i.c]
    BY <1>3, <1>4 DEF k, g
  <2> HIDE DEF gpr
  <2>4. /\ t \in State /\ t.pc = s.pc /\ t.rip = s.rip
        /\ w \in State /\ w.pc = s.pc /\ w.rip = next /\ w.gpr = gpr
        /\ w.mem = s.mem /\ w.visits = s.visits /\ w.call_stack = s.call_stack
    BY <1>3, <2>2 DEF State
  <2> HIDE DEF t, w
  <2>5. Models(t) = Models(s) /\ Models(w) = Models(s)
    BY <2>4 DEF Models
  <2>6. \A v \in Models(w) : Abs(w, v) = ConcreteStep(p, Abs(s, v))
    <3> TAKE v \in Models(w)
    <3>1. v \in Models(s) /\ v \in Inputs
      BY <1>7, <2>5
    <3>2. Abs(w, v) = [rip |-> next, gpr |-> [r \in Regs |-> gpr[r][v]], mem |-> c(v), calls |-> d]
      BY <2>4 DEF Abs, c
    <3> QED BY <1>8, <1>11, <2>3, <3>1, <3>2 DEF Steps
  <2>7. Leads(w, s, i, p)
    BY <2>4, <2>5, <2>6 DEF Leads
  <2>8. FallsThrough(t, s, i, p)
    BY <1>11, <2>4, <2>7 DEF FallsThrough, w
  <2> QED BY <2>1, <2>4, <2>5, <2>8, FallApplied
<1>12. CASE i.op = "load"
  <2> DEFINE gpr == [s.gpr EXCEPT ![i.r] = s.mem]
             t == [s EXCEPT !.gpr = gpr]
             w == [t EXCEPT !.rip = next]
  <2>1. o = GoesOn(t)
    BY <1>6, <1>12 DEF apply_op
  <2>2. gpr \in [Regs -> Expr]
    BY <1>3, <1>4
  <2>3. ASSUME NEW v \in Inputs
        PROVE  [r \in Regs |-> gpr[r][v]] = [g(v) EXCEPT ![i.r] = c(v)]
    BY <1>3, <1>4 DEF g, c
  <2> HIDE DEF gpr
  <2>4. /\ t \in State /\ t.pc = s.pc /\ t.rip = s.rip
        /\ w \in State /\ w.pc = s.pc /\ w.rip = next /\ w.gpr = gpr
        /\ w.mem = s.mem /\ w.visits = s.visits /\ w.call_stack = s.call_stack
    BY <1>3, <2>2 DEF State
  <2> HIDE DEF t, w
  <2>5. Models(t) = Models(s) /\ Models(w) = Models(s)
    BY <2>4 DEF Models
  <2>6. \A v \in Models(w) : Abs(w, v) = ConcreteStep(p, Abs(s, v))
    <3> TAKE v \in Models(w)
    <3>1. v \in Models(s) /\ v \in Inputs
      BY <1>7, <2>5
    <3>2. Abs(w, v) = [rip |-> next, gpr |-> [r \in Regs |-> gpr[r][v]], mem |-> c(v), calls |-> d]
      BY <2>4 DEF Abs, c
    <3> QED BY <1>8, <1>12, <2>3, <3>1, <3>2 DEF Steps
  <2>7. Leads(w, s, i, p)
    BY <2>4, <2>5, <2>6 DEF Leads
  <2>8. FallsThrough(t, s, i, p)
    BY <1>12, <2>4, <2>7 DEF FallsThrough, w
  <2> QED BY <2>1, <2>4, <2>5, <2>8, FallApplied
<1>13. CASE i.op = "store"
  <2> DEFINE mem == s.gpr[i.r]
             t == [s EXCEPT !.mem = mem]
             w == [t EXCEPT !.rip = next]
  <2>1. o = GoesOn(t)
    BY <1>6, <1>13 DEF apply_op
  <2>2. mem \in Expr /\ \A v \in Models(s) : mem[v] = g(v)[i.r]
    BY <1>5, <1>7
  <2> HIDE DEF mem
  <2>4. /\ t \in State /\ t.pc = s.pc /\ t.rip = s.rip
        /\ w \in State /\ w.pc = s.pc /\ w.rip = next /\ w.gpr = s.gpr
        /\ w.mem = mem /\ w.visits = s.visits /\ w.call_stack = s.call_stack
    BY <1>3, <2>2 DEF State
  <2> HIDE DEF t, w
  <2>5. Models(t) = Models(s) /\ Models(w) = Models(s)
    BY <2>4 DEF Models
  <2>6. \A v \in Models(w) : Abs(w, v) = ConcreteStep(p, Abs(s, v))
    <3> TAKE v \in Models(w)
    <3>1. v \in Models(s) /\ v \in Inputs
      BY <1>7, <2>5
    <3>2. Abs(w, v) = [rip |-> next, gpr |-> g(v), mem |-> g(v)[i.r], calls |-> d]
      BY <2>2, <2>4, <3>1 DEF Abs, g
    <3> QED BY <1>8, <1>13, <3>1, <3>2 DEF Steps
  <2>7. Leads(w, s, i, p)
    BY <1>13, <2>4, <2>5, <2>6 DEF Leads
  <2>8. FallsThrough(t, s, i, p)
    BY <1>13, <2>4, <2>7 DEF FallsThrough, w
  <2> QED BY <2>1, <2>4, <2>5, <2>8, FallApplied
<1>14. CASE i.op = "jeq"
  <2> DEFINE cond == When(s.gpr[i.r], i.c)
             e == [v \in Inputs |-> IF v \in cond THEN i.t ELSE next]
  <2>1. cond \in SUBSET Inputs /\ \A v \in Inputs : v \in cond <=> s.gpr[i.r][v] = i.c
    BY DEF When
  <2>2. o \in Branch(s, cond, i.t, next)
    BY <1>6, <1>14 DEF apply_op
  <2> HIDE DEF cond
  <2>3. SplitsTo(o, s, e)
    BY <1>3, <1>4, <2>1, <2>2, BranchFacts
  <2>4. \A v \in Models(s) : ConcreteStep(p, Abs(s, v)) =
           [rip |-> e[v], gpr |-> g(v), mem |-> c(v), calls |-> d]
    <3> TAKE v \in Models(s)
    <3>1. e[v] = IF g(v)[i.r] = i.c THEN i.t ELSE next
      BY <1>7, <2>1
    <3> HIDE DEF e
    <3> QED BY <1>8, <1>14, <3>1 DEF Steps
  <2> HIDE DEF e
  <2> QED BY <1>7, <2>3, <2>4, JumpApplied
<1>15. CASE i.op = "jmp"
  <2> DEFINE e == k(i.t)
  <2>1. e \in Expr /\ \A v \in Inputs : e[v] = i.t
    BY <1>4 DEF k, Expr
  <2>2. o \in JumpTo(s, e)
    BY <1>6, <1>15 DEF apply_op
  <2> HIDE DEF e
  <2> QED BY <1>7, <1>8, <1>9, <1>15, <2>1, <2>2 DEF Steps
<1>16. CASE i.op = "jmpr"
  <2> DEFINE e == s.gpr[i.r]
  <2>1. e \in Expr /\ \A v \in Models(s) : e[v] = g(v)[i.r]
    BY <1>5, <1>7
  <2>2. o \in JumpTo(s, e)
    BY <1>6, <1>16 DEF apply_op
  <2> HIDE DEF e
  <2> QED BY <1>8, <1>9, <1>16, <2>1, <2>2 DEF Steps
<1>17. CASE i.op = "call"
  <2> DEFINE e == k(i.t)
  <2>1. e \in Expr /\ \A v \in Inputs : e[v] = i.t
    BY <1>4 DEF k, Expr
  <2>2. o \in JumpTo(called, e)
    BY <1>6, <1>17 DEF apply_op
  <2> HIDE DEF e, called
  <2> QED BY <1>7, <1>8, <1>10, <1>17, <2>1, <2>2 DEF Steps
<1>18. CASE i.op = "callr"
  <2> DEFINE e == s.gpr[i.r]
  <2>1. e \in Expr /\ \A v \in Models(s) : e[v] = g(v)[i.r]
    BY <1>5, <1>7
  <2>2. o \in JumpTo(called, e)
    BY <1>6, <1>18 DEF apply_op
  <2> HIDE DEF e, called
  <2> QED BY <1>8, <1>10, <1>18, <2>1, <2>2 DEF Steps
<1>19. CASE i.op = "ret" /\ d = <<>>
  <2>1. o \in JumpTo(s, s.mem)
    BY <1>6, <1>19 DEF apply_op
  <2>2. \A v \in Models(s) : ConcreteStep(p, Abs(s, v)) =
           [rip |-> s.mem[v], gpr |-> g(v), mem |-> c(v), calls |-> d]
    BY <1>8, <1>19 DEF c, Steps
  <2> QED BY <1>3, <1>9, <2>1, <2>2
<1>20. CASE i.op = "ret" /\ d # <<>>
  <2> DEFINE x == Last(s.call_stack)
             q == Front(s.call_stack)
             t == [s EXCEPT !.rip = x, !.call_stack = q]
  <2>1. o = GoesOn(t)
    BY <1>6, <1>20 DEF apply_op
  <2>2. x \in Nat /\ q \in Seq(Nat)
    BY <1>3, <1>20 DEF Last, Front
  <2> HIDE DEF x, q
  <2>3. /\ t \in State /\ t.pc = s.pc /\ t.rip = x /\ t.gpr = s.gpr
        /\ t.mem = s.mem /\ t.visits = s.visits /\ t.call_stack = q
    BY <1>3, <2>2 DEF State
  <2> HIDE DEF t
  <2>4. Models(t) = Models(s)
    BY <2>3 DEF Models
  <2> DEFINE u == [s EXCEPT !.call_stack = q]
             e == [v \in Inputs |-> x]
  <2>5. /\ u \in State /\ u.pc = s.pc /\ u.gpr = s.gpr
        /\ u.mem = s.mem /\ u.visits = s.visits /\ u.call_stack = q
    BY <2>2 DEF State
  <2>6. \A v \in Models(s) : v \in Inputs /\ e[v] = x
    BY <1>7
  <2> HIDE DEF u, e
  <2>7. Models(u) = Models(s)
    BY <2>5 DEF Models
  <2>8. Goes(t, u, e)
    BY <2>3, <2>4, <2>5, <2>6, <2>7 DEF Goes
  <2>9. SplitsTo(o, u, e)
    BY <2>1, <2>4, <2>5, <2>7, <2>8, GoesOnFacts
  <2>10. \A v \in Models(s) : ConcreteStep(p, Abs(s, v)) =
           [rip |-> e[v], gpr |-> Abs(s, v).gpr, mem |-> Abs(s, v).mem, calls |-> u.call_stack]
    BY <1>7, <1>8, <1>20, <2>5, <2>6 DEF x, q, Steps
  <2> QED BY <2>5, <2>7, <2>9, <2>10, JumpApplied
<1> QED BY <1>4, <1>11, <1>12, <1>13, <1>14, <1>15, <1>16, <1>17, <1>18, <1>19, <1>20

-----------------------------------------------------------------------------
(* How far an instruction forks *)

\* t is no deeper than s, or within the cap, which a fork for a symbolic target exceeds
\* by one.
Near(t, s) == t.fork_depth <= s.fork_depth \/ t.fork_depth <= setup.max_fork_depth + 1

\* No more forks than the cap has room for.
Capped(o, s) ==
  /\ Len(o.forks) <= setup.max_fork_depth
  /\ \A j \in DOMAIN o.next : Near(o.next[j], s)
  /\ \A j \in DOMAIN o.forks : Near(o.forks[j], s)

LEMMA PinnedDepth ==
  ASSUME NEW s \in State, NEW e, NEW n
  PROVE  Pinned(s, e, n).fork_depth = s.fork_depth
<1> DEFINE t == push(s, When(e, n))
<1>1. t.fork_depth = s.fork_depth /\ DOMAIN t = DOMAIN s
  BY DEF push, State
<1>2. [t EXCEPT !.rip = n].fork_depth = t.fork_depth
  <2> HIDE DEF t
  <2> QED OBVIOUS
<1> QED BY <1>1, <1>2 DEF Pinned

LEMMA GoesOnCapped ==
  ASSUME NEW s \in State, setup \in Setup, NEW t, t.fork_depth = s.fork_depth
  PROVE  Capped(GoesOn(t), s)
<1> DEFINE o == GoesOn(t)
<1>1. o.next = <<t>> /\ o.forks = <<>> /\ DOMAIN <<t>> = {1} /\ <<t>>[1] = t
  BY DEF GoesOn, Outcome
<1>2. Len(<<>>) = 0 /\ DOMAIN <<>> = {}
  OBVIOUS
<1>3. setup.max_fork_depth \in Nat /\ s.fork_depth \in Nat
  BY DEF Setup, State
<1> HIDE DEF o
<1>4. Near(t, s)
  BY <1>3 DEF Near
<1> QED BY <1>1, <1>2, <1>3, <1>4 DEF Capped, o

LEMMA DiesCapped ==
  ASSUME NEW s, NEW u, setup \in Setup
  PROVE  Capped(Dies(u), s)
<1> DEFINE o == Dies(u)
<1>1. o.next = <<>> /\ o.forks = <<>>
  BY DEF Dies, Outcome
<1>2. Len(<<>>) = 0 /\ DOMAIN <<>> = {}
  OBVIOUS
<1>3. setup.max_fork_depth \in Nat
  BY DEF Setup
<1> HIDE DEF o
<1> QED BY <1>1, <1>2, <1>3 DEF Capped, o

\* The state counts its forks; each fork counts itself once more.
LEMMA CandidatesCapped ==
  ASSUME NEW s \in State, NEW e, setup \in Setup, NEW q \in Seq(Nat), q # <<>>
  PROVE  Capped(Candidates(s, e, q), s)
<1> DEFINE room == IF s.fork_depth >= setup.max_fork_depth THEN 0
                   ELSE setup.max_fork_depth - s.fork_depth
           more == Len(q) - 1
           n == IF more < room THEN more ELSE room
           alt(i) == Pinned([fork(s) EXCEPT !.fork_depth = @ + i], e, q[i + 1])
           first == Pinned([s EXCEPT !.fork_depth = @ + n], e, q[1])
           fs == [i \in 1 .. n |-> alt(i)]
           o == Candidates(s, e, q)
           d == s.fork_depth
           cap == setup.max_fork_depth
<1>1. more \in Nat
  OBVIOUS
<1>2. d \in Nat /\ cap \in Nat
  BY DEF State, Setup
<1>3. n \in Nat /\ n <= cap /\ (n = 0 \/ d + n <= cap)
  <2> HIDE DEF more
  <2>1. room \in Nat /\ room <= cap /\ (room = 0 \/ d + room = cap)
    BY <1>2
  <2> HIDE DEF room
  <2> QED BY <1>1, <1>2, <2>1
<1>4. o.next = <<first>> /\ o.forks = fs
  BY DEF Candidates, Outcome
<1> HIDE DEF o, n
<1>5. first.fork_depth = d + n
  <2> DEFINE u == [s EXCEPT !.fork_depth = d + n]
  <2>1. u \in State /\ u.fork_depth = d + n
    <3> DEFINE m == d + n
    <3>1. m \in Nat
      BY <1>2, <1>3
    <3> HIDE DEF m
    <3>2. LET w == [s EXCEPT !.fork_depth = m] IN w \in State /\ w.fork_depth = m
      BY <3>1, DepthFacts
    <3> QED BY <3>2 DEF m
  <2>2. first = Pinned(u, e, q[1])
    OBVIOUS
  <2> HIDE DEF u, first
  <2> QED BY <2>1, <2>2, PinnedDepth
<1>6. ASSUME NEW i \in 1 .. n PROVE alt(i).fork_depth = d + 1 + i
  <2> DEFINE m == d + 1 + i
             u == [s EXCEPT !.fork_depth = m]
  <2>1. m \in Nat
    <3>1. i \in Nat
      BY <1>3
    <3> QED BY <1>2, <3>1
  <2>2. [fork(s) EXCEPT !.fork_depth = @ + i] = u
    BY DEF fork, State
  <2>3. alt(i) = Pinned(u, e, q[i + 1])
    BY <2>2
  <2> HIDE DEF m, alt
  <2>4. u \in State /\ u.fork_depth = m
    BY <2>1, DepthFacts
  <2> HIDE DEF u
  <2>5. alt(i).fork_depth = m
    BY <2>3, <2>4, PinnedDepth
  <2> QED BY <2>5 DEF m
<1> HIDE DEF first, alt, d, cap
<1>7. Near(first, s)
  BY <1>2, <1>3, <1>5 DEF Near, d, cap
<1>8. \A i \in 1 .. n : Near(alt(i), s)
  <2> TAKE i \in 1 .. n
  <2>1. d + 1 + i <= cap + 1
    BY <1>2, <1>3
  <2> QED BY <1>6, <2>1 DEF Near, cap
<1>9. Len(fs) = n /\ DOMAIN fs = 1 .. n /\ \A i \in 1 .. n : fs[i] = alt(i)
  BY <1>3
<1> HIDE DEF fs
<1>10. DOMAIN <<first>> = {1} /\ <<first>>[1] = first
  OBVIOUS
<1> QED BY <1>3, <1>4, <1>7, <1>8, <1>9, <1>10 DEF Capped, o, cap

LEMMA JumpCapped ==
  ASSUME NEW s \in State, NEW e \in Expr, setup \in Setup, NEW o \in JumpTo(s, e)
  PROVE  Capped(o, s)
<1>1. CASE is_const(e)
  <2> DEFINE t == [s EXCEPT !.rip = Value(e)]
  <2>1. o = GoesOn(t)
    BY <1>1 DEF JumpTo
  <2>2. t.fork_depth = s.fork_depth
    BY DEF State
  <2> HIDE DEF t
  <2> QED BY <2>1, <2>2, GoesOnCapped
<1>2. CASE ~is_const(e)
  <2>1. PICK got \in get_value(s, e) :
          o \in IF got # <<>> THEN {GoesOn(Pinned(s, e, got[1]))}
                ELSE IF setup.max_enumerate_targets = 0 THEN {Dies(s)}
                ELSE {IF q = <<>> THEN Dies(s) ELSE Candidates(s, e, q) : q \in enumerate(s, e)}
    BY <1>2 DEF JumpTo, resolve_symbolic_target
  <2>2. CASE got # <<>>
    <3>1. o = GoesOn(Pinned(s, e, got[1]))
      BY <2>1, <2>2
    <3> QED BY <3>1, PinnedDepth, GoesOnCapped
  <2>3. CASE got = <<>> /\ o = Dies(s)
    BY <2>3, DiesCapped
  <2>4. CASE got = <<>> /\ o # Dies(s)
    <3>1. PICK q \in enumerate(s, e) : q # <<>> /\ o = Candidates(s, e, q)
      BY <2>1, <2>4
    <3>2. q \in Seq(Nat)
      BY EnumerateFacts
    <3> QED BY <3>1, <3>2, CandidatesCapped
  <2> QED BY <2>2, <2>3, <2>4
<1> QED BY <1>1, <1>2

LEMMA BranchCapped ==
  ASSUME NEW s \in State, setup \in Setup, NEW cond \in SUBSET Inputs,
         NEW a \in Nat, NEW b \in Nat, NEW o \in Branch(s, cond, a, b)
  PROVE  Capped(o, s)
<1> DEFINE rest == Inputs \ cond
           p == push(s, cond)
           r == push(s, rest)
           f == push(fork(s), rest)
<1>1. s.fork_depth \in Nat /\ setup.max_fork_depth \in Nat
  BY DEF State, Setup
<1>2. /\ p \in State /\ p.fork_depth = s.fork_depth
      /\ r \in State /\ r.fork_depth = s.fork_depth
  BY PushFacts
<1>3. f \in State /\ f.fork_depth = s.fork_depth + 1
  <2> DEFINE m == s.fork_depth + 1
             u == [s EXCEPT !.fork_depth = m]
  <2>1. fork(s) = u /\ m \in Nat
    BY <1>1 DEF fork
  <2> HIDE DEF m
  <2>2. u \in State /\ u.fork_depth = m
    BY <2>1, DepthFacts
  <2> HIDE DEF u
  <2>3. rest \in SUBSET Inputs
    OBVIOUS
  <2>4. push(u, rest) \in State /\ push(u, rest).fork_depth = m
    BY <2>2, <2>3, PushFacts
  <2> QED BY <2>1, <2>4 DEF m
<1>4. CASE cond \in {{}, Inputs}
  <2> DEFINE t == [s EXCEPT !.rip = IF cond = Inputs THEN a ELSE b]
  <2>1. o = GoesOn(t)
    BY <1>4 DEF Branch
  <2>2. t.fork_depth = s.fork_depth
    BY DEF State
  <2> HIDE DEF t
  <2> QED BY <2>1, <2>2, GoesOnCapped
<1>5. CASE cond \notin {{}, Inputs}
  <2>1. PICK tf \in Feasible(s, cond), ff \in Feasible(s, rest) :
          o = Sides(s, cond, a, b, tf, ff)
    BY <1>5 DEF Branch
  <2>2. CASE tf /\ ff /\ s.fork_depth < setup.max_fork_depth
    <3> DEFINE t == [p EXCEPT !.rip = a, !.fork_depth = @ + 1]
               u == [f EXCEPT !.rip = b]
    <3>1. o.next = <<t>> /\ o.forks = <<u>>
      BY <2>1, <2>2 DEF Sides, BothSides, Outcome
    <3> HIDE DEF p, f
    <3>2. t.fork_depth = s.fork_depth + 1 /\ u.fork_depth = s.fork_depth + 1
      BY <1>2, <1>3 DEF State
    <3> HIDE DEF t, u
    <3>3. Near(t, s) /\ Near(u, s) /\ 1 <= setup.max_fork_depth
      BY <1>1, <2>2, <3>2 DEF Near
    <3>4. /\ DOMAIN <<t>> = {1} /\ <<t>>[1] = t
          /\ DOMAIN <<u>> = {1} /\ <<u>>[1] = u /\ Len(<<u>>) = 1
      OBVIOUS
    <3> QED BY <3>1, <3>3, <3>4 DEF Capped
  <2> DEFINE Alone(t) == o.next = <<t>> /\ o.forks = <<>>
  <2>3. ASSUME NEW t, Alone(t), t.fork_depth = s.fork_depth PROVE Capped(o, s)
    <3>1. o.next = <<t>> /\ o.forks = <<>> /\ DOMAIN <<t>> = {1} /\ <<t>>[1] = t
      BY <2>3
    <3>2. Len(<<>>) = 0 /\ DOMAIN <<>> = {}
      OBVIOUS
    <3>3. Near(t, s)
      BY <1>1, <2>3 DEF Near
    <3> QED BY <1>1, <3>1, <3>2, <3>3 DEF Capped
  <2>4. CASE ~(tf /\ ff /\ s.fork_depth < setup.max_fork_depth) /\ tf
    <3> DEFINE t == [p EXCEPT !.rip = a]
    <3>1. Alone(t)
      BY <2>1, <2>4 DEF Sides, Outcome
    <3> HIDE DEF p, Alone
    <3>2. t.fork_depth = s.fork_depth
      BY <1>2 DEF State
    <3> HIDE DEF t
    <3> QED BY <2>3, <3>1, <3>2
  <2>5. CASE ~tf /\ ff
    <3> DEFINE t == [r EXCEPT !.rip = b]
    <3>1. Alone(t)
      BY <2>1, <2>5 DEF Sides, Outcome
    <3> HIDE DEF r, Alone
    <3>2. t.fork_depth = s.fork_depth
      BY <1>2 DEF State
    <3> HIDE DEF t
    <3> QED BY <2>3, <3>1, <3>2
  <2>6. CASE ~tf /\ ~ff
    <3>1. o = Dies(s)
      BY <2>1, <2>6 DEF Sides
    <3> QED BY <3>1, DiesCapped
  <2> QED BY <2>2, <2>4, <2>5, <2>6
<1> QED BY <1>4, <1>5

LEMMA ApplyCapped ==
  ASSUME setup \in Setup, NEW s \in State, NEW i \in Instr, NEW o \in apply_op(s, i)
  PROVE  Capped(o, s)
<1> DEFINE next == s.rip + 1
           called == [s EXCEPT !.call_stack = Append(@, next)]
<1>1. /\ s.gpr \in [Regs -> Expr] /\ s.mem \in Expr /\ s.rip \in Nat
      /\ s.call_stack \in Seq(Nat) /\ next \in Nat
  BY DEF State
<1>2. /\ i.r \in Regs /\ i.c \in Nat /\ i.t \in Nat
      /\ i.op \in {"mov", "load", "store", "jeq", "jmp", "jmpr", "call", "callr", "ret"}
  BY DEF Instr
<1>3. s.gpr[i.r] \in Expr /\ k(i.t) \in Expr
  BY <1>1, <1>2 DEF k, Expr
<1>4. called \in State /\ called.fork_depth = s.fork_depth
  <2> DEFINE q == Append(s.call_stack, next)
  <2>1. q \in Seq(Nat)
    BY <1>1
  <2> HIDE DEF q
  <2>2. LET t == [s EXCEPT !.call_stack = q] IN t \in State /\ t.fork_depth = s.fork_depth
    BY <2>1 DEF State
  <2> QED BY <2>2 DEF q
<1>5. ASSUME NEW e \in Expr, o \in JumpTo(called, e) PROVE Capped(o, s)
  <2> HIDE DEF called
  <2>1. Capped(o, called)
    BY <1>4, <1>5, JumpCapped
  <2>2. \A t : Near(t, called) => Near(t, s)
    BY <1>4 DEF Near
  <2> QED BY <2>1, <2>2 DEF Capped
<1>6. ASSUME NEW t, o = GoesOn(t), t.fork_depth = s.fork_depth PROVE Capped(o, s)
  BY <1>6, GoesOnCapped
<1>7. CASE i.op = "mov"
  <2> DEFINE t == [s EXCEPT !.gpr[i.r] = k(i.c)]
  <2>1. o = GoesOn(t) /\ t.fork_depth = s.fork_depth
    BY <1>7 DEF apply_op, State
  <2> HIDE DEF t
  <2> QED BY <1>6, <2>1
<1>8. CASE i.op = "load"
  <2> DEFINE t == [s EXCEPT !.gpr[i.r] = s.mem]
  <2>1. o = GoesOn(t) /\ t.fork_depth = s.fork_depth
    BY <1>8 DEF apply_op, State
  <2> HIDE DEF t
  <2> QED BY <1>6, <2>1
<1>9. CASE i.op = "store"
  <2> DEFINE t == [s EXCEPT !.mem = s.gpr[i.r]]
  <2>1. o = GoesOn(t) /\ t.fork_depth = s.fork_depth
    BY <1>9 DEF apply_op, State
  <2> HIDE DEF t
  <2> QED BY <1>6, <2>1
<1>10. CASE i.op = "jeq"
  <2> DEFINE cond == When(s.gpr[i.r], i.c)
  <2>1. cond \in SUBSET Inputs
    BY DEF When
  <2>2. o \in Branch(s, cond, i.t, next)
    BY <1>10 DEF apply_op
  <2> HIDE DEF cond, next
  <2> QED BY <1>1, <1>2, <2>1, <2>2, BranchCapped
<1>11. CASE i.op \in {"jmp", "jmpr"}
  <2>1. o \in JumpTo(s, k(i.t)) \/ o \in JumpTo(s, s.gpr[i.r])
    BY <1>11 DEF apply_op
  <2> QED BY <1>3, <2>1, JumpCapped
<1>12. CASE i.op \in {"call", "callr"}
  <2>1. o \in JumpTo(called, k(i.t)) \/ o \in JumpTo(called, s.gpr[i.r])
    BY <1>12 DEF apply_op
  <2> HIDE DEF called
  <2> QED BY <1>3, <1>5, <2>1
<1>13. CASE i.op = "ret" /\ s.call_stack # <<>>
  <2> DEFINE t == [s EXCEPT !.rip = Last(s.call_stack), !.call_stack = Front(@)]
  <2>1. o = GoesOn(t) /\ t.fork_depth = s.fork_depth
    BY <1>13 DEF apply_op, State
  <2> HIDE DEF t
  <2> QED BY <1>6, <2>1
<1>14. CASE i.op = "ret" /\ s.call_stack = <<>>
  <2>1. o \in JumpTo(s, s.mem)
    BY <1>14 DEF apply_op
  <2> QED BY <1>1, <2>1, JumpCapped
<1> QED BY <1>2, <1>7, <1>8, <1>9, <1>10, <1>11, <1>12, <1>13, <1>14

-----------------------------------------------------------------------------
(* The paths partition the inputs *)

\* All paths are in G; cur holds at most one.
In(G) ==
  /\ queue \in Seq(G)
  /\ cur = <<>> \/ \E s \in G : cur = <<s>>
  /\ finished \in Seq(G)

Disjoint ==
  /\ Apart(queue) /\ Apart(finished)
  /\ Covered(queue) \cap Covered(cur) = {}
  /\ Covered(queue) \cap Covered(finished) = {}
  /\ Covered(cur) \cap Covered(finished) = {}

Explored == Covered(queue) \cup Covered(cur) \cup Covered(finished)

\* The inductive invariant of the partition.
PInv ==
  /\ setup \in Setups
  /\ In(State)
  /\ Disjoint
  /\ dropped \subseteq Inputs
  /\ ~setup.gives_up => Explored \cup dropped = Inputs

LEMMA StateClosed == Closed(State)
  BY MergeFacts DEF Closed

LEMMA CoveredInputs == \A q, s : Covered(q) \subseteq Inputs /\ Models(s) \subseteq Inputs
  BY DEF Covered, Models

\* The next path, with the partners it takes in.
LEMMA PopFacts ==
  ASSUME NEW G \in SUBSET State, setup.enable_merging /\ ~setup.block => Closed(G),
         In(G), Disjoint, PopState
  PROVE  In(G)' /\ Disjoint' /\ Explored' = Explored
<1>1. /\ queue \in Seq(G) /\ queue # <<>> /\ cur = <<>> /\ finished \in Seq(G)
      /\ finished' = finished
  BY DEF In, PopState
<1> DEFINE h == Head(queue)
           rest == Tail(queue)
<1>2. /\ h \in G /\ rest \in Seq(G)
      /\ Covered(queue) = Models(h) \cup Covered(rest)
      /\ Apart(rest) /\ Models(h) \cap Covered(rest) = {}
  BY <1>1, CoveredHead DEF Disjoint
<1> DEFINE r == IF setup.enable_merging /\ ~setup.block THEN MergeScan(h, rest)
                ELSE [s |-> h, left |-> rest]
<1>3. cur' = <<r.s>> /\ queue' = r.left
  BY DEF PopState
<1> HIDE DEF h, rest
<1>4. /\ r.s \in G /\ r.left \in Seq(G)
      /\ Apart(r.left) /\ Models(r.s) \cap Covered(r.left) = {}
      /\ Models(r.s) \cup Covered(r.left) = Covered(queue)
  <2>1. CASE setup.enable_merging /\ ~setup.block
    <3>1. r = MergeScan(h, rest) /\ Closed(G)
      BY <2>1
    <3> HIDE DEF r
    <3> QED BY <1>2, <3>1, MergeScanFacts
  <2>2. CASE ~(setup.enable_merging /\ ~setup.block)
    <3>1. r.s = h /\ r.left = rest
      BY <2>2
    <3> HIDE DEF r
    <3> QED BY <1>2, <3>1
  <2> QED BY <2>1, <2>2
<1> HIDE DEF r
<1>5. In(G)'
  BY <1>1, <1>3, <1>4 DEF In
<1>6. Covered(cur') = Models(r.s) /\ Covered(cur) = {}
  BY <1>1, <1>3, CoveredFew
<1>7. /\ Apart(queue') /\ Apart(finished')
      /\ Covered(queue') \cap Covered(cur') = {}
      /\ Covered(queue') \cap Covered(finished') = {}
      /\ Covered(cur') \cap Covered(finished') = {}
  BY <1>1, <1>3, <1>4, <1>6 DEF Disjoint
<1>8. Covered(queue') \cup Covered(cur') \cup Covered(finished') = Explored
  BY <1>1, <1>3, <1>4, <1>6 DEF Explored
<1> QED BY <1>5, <1>7, <1>8 DEF Disjoint, Explored

LEMMA FinishFacts ==
  ASSUME NEW G \in SUBSET State, setup.enable_merging /\ ~setup.block => Closed(G),
         In(G), Disjoint, FinishPath
  PROVE  In(G)' /\ Disjoint' /\ Explored' = Explored
<1>1. PICK s \in G : cur = <<s>>
  BY DEF In, FinishPath
<1>2. /\ finished' = IF setup.block THEN Append(finished, s) ELSE AddFinished(s)
      /\ cur' = <<>> /\ queue' = queue
  BY <1>1 DEF FinishPath
<1>3. Covered(cur) = Models(s) /\ Covered(cur') = {}
  BY <1>1, <1>2, CoveredFew
<1>4. finished \in Seq(G) /\ Apart(finished) /\ Models(s) \cap Covered(finished) = {}
  BY <1>3 DEF In, Disjoint
<1>5. /\ finished' \in Seq(G) /\ Apart(finished')
      /\ Covered(finished') = Covered(finished) \cup Models(s)
  <2>1. CASE setup.block
    BY <1>2, <1>4, <2>1, CoveredAppend
  <2>2. CASE ~setup.block
    BY <1>2, <1>4, <2>2, AddFinishedFacts
  <2> QED BY <2>1, <2>2
<1>6. In(G)'
  BY <1>2, <1>5 DEF In
<1>7. /\ Apart(queue') /\ Apart(finished')
      /\ Covered(queue') \cap Covered(cur') = {}
      /\ Covered(queue') \cap Covered(finished') = {}
      /\ Covered(cur') \cap Covered(finished') = {}
  BY <1>2, <1>3, <1>5 DEF Disjoint
<1>8. Covered(queue') \cup Covered(cur') \cup Covered(finished') = Explored
  BY <1>2, <1>3, <1>5 DEF Explored
<1> QED BY <1>6, <1>7, <1>8 DEF Disjoint, Explored

LEMMA KillFacts ==
  ASSUME NEW G \in SUBSET State, In(G), Disjoint, KillPath
  PROVE  In(G)' /\ Disjoint' /\ Explored \cup dropped = Explored' \cup dropped'
<1>1. PICK s \in G : cur = <<s>>
  BY DEF In, KillPath, Runs
<1>2. /\ dropped' = dropped \cup Models(s)
      /\ cur' = <<>> /\ queue' = queue /\ finished' = finished
  BY <1>1 DEF KillPath
<1>3. Covered(cur) = Models(s) /\ Covered(cur') = {}
  BY <1>1, <1>2, CoveredFew
<1>4. In(G)'
  BY <1>2 DEF In
<1>5. /\ Apart(queue') /\ Apart(finished')
      /\ Covered(queue') \cap Covered(cur') = {}
      /\ Covered(queue') \cap Covered(finished') = {}
      /\ Covered(cur') \cap Covered(finished') = {}
  BY <1>2, <1>3 DEF Disjoint
<1>6. Explored \cup dropped
        = Covered(queue') \cup Covered(cur') \cup Covered(finished') \cup dropped'
  BY <1>2, <1>3 DEF Explored
<1> QED BY <1>4, <1>5, <1>6 DEF Disjoint, Explored

\* The visit is counted before the instruction is applied.
Visited(s) == [s EXCEPT !.visits[s.rip] = @ + 1]

LEMMA VisitedFacts ==
  ASSUME NEW s \in State
  PROVE  /\ Visited(s) \in State /\ Models(Visited(s)) = Models(s)
         /\ Visited(s).gpr = s.gpr /\ Visited(s).mem = s.mem /\ Visited(s).rip = s.rip
         /\ Visited(s).call_stack = s.call_stack
         /\ Visited(s).visits = [s.visits EXCEPT ![s.rip] = @ + 1]
<1> DEFINE w == [s.visits EXCEPT ![s.rip] = @ + 1]
           t == [s EXCEPT !.visits = w]
<1>1. Visited(s) = t
  BY DEF Visited
<1>2. w \in [0 .. StopAt -> Nat]
  <2>1. s.visits \in [0 .. StopAt -> Nat]
    BY DEF State
  <2> DEFINE f == s.visits
             a == s.rip
  <2> HIDE DEF f, a
  <2>2. f \in [0 .. StopAt -> Nat]
    BY <2>1 DEF f
  <2>3. \A b \in 0 .. StopAt : f[b] \in Nat
    BY <2>2
  <2>4. [f EXCEPT ![a] = @ + 1] = [b \in 0 .. StopAt |-> IF b = a THEN f[b] + 1 ELSE f[b]]
    BY <2>2
  <2>5. \A b \in 0 .. StopAt : (IF b = a THEN f[b] + 1 ELSE f[b]) \in Nat
    BY <2>3
  <2>6. [f EXCEPT ![a] = @ + 1] \in [0 .. StopAt -> Nat]
    BY <2>4, <2>5
  <2> QED BY <2>6 DEF f, a
<1> HIDE DEF w
<1>3. /\ t \in State /\ t.pc = s.pc /\ t.visits = w
      /\ t.gpr = s.gpr /\ t.mem = s.mem /\ t.rip = s.rip /\ t.call_stack = s.call_stack
  BY <1>2 DEF State
<1> HIDE DEF t
<1>4. Models(t) = Models(s)
  BY <1>3 DEF Models
<1> QED BY <1>1, <1>3, <1>4 DEF w

LEMMA AdvanceFacts ==
  ASSUME NEW t \in State, NEW a
  PROVE  /\ Advance(t, a) \in State /\ Models(Advance(t, a)) = Models(t)
         /\ Advance(t, a) = IF t.rip = a THEN [t EXCEPT !.rip = a + 1] ELSE t
<1>1. CASE t.rip = a
  <2>1. t.rip + 1 \in Nat
    BY DEF State
  <2>2. Advance(t, a) = [t EXCEPT !.rip = t.rip + 1]
    BY <1>1 DEF Advance
  <2> DEFINE n == t.rip + 1
  <2> HIDE DEF n
  <2>3. [t EXCEPT !.rip = n] \in State /\ Models([t EXCEPT !.rip = n]) = Models(t)
    BY <2>1, RipFacts DEF n
  <2> QED BY <1>1, <2>2, <2>3 DEF n
<1>2. CASE t.rip # a
  BY <1>2 DEF Advance
<1> QED BY <1>1, <1>2

\* One instruction of the current path.
LEMMA ExecuteFacts ==
  ASSUME PInv, Execute
  PROVE  \E s, o :
           /\ s \in State /\ cur = <<s>> /\ s.rip \in 0 .. Len(setup.prog) - 1
           /\ s.visits[s.rip] < max_visits_per_rip
           /\ Applied(o, Visited(s), setup.prog[s.rip + 1], setup.prog)
           /\ Capped(o, Visited(s))
           /\ \/ o.next = <<>> /\ cur' = <<>>
              \/ \E t \in State : o.next = <<t>> /\ cur' = <<Advance(t, s.rip)>>
           /\ queue' = IF setup.block THEN queue ELSE queue \o o.forks
           /\ dropped' = dropped \cup o.lost \cup (IF setup.block THEN Covered(o.forks) ELSE {})
           /\ finished' = finished
<1>1. PICK s \in State : cur = <<s>>
  BY DEF PInv, In, Execute, Runs
<1>2. /\ s.rip \in 0 .. Len(setup.prog) - 1
      /\ s.visits[s.rip] < max_visits_per_rip
      /\ finished' = finished
  BY <1>1 DEF Execute
<1>3. PICK o \in apply_op(Visited(s), setup.prog[s.rip + 1]) :
        /\ cur' = [j \in DOMAIN o.next |-> Advance(o.next[j], s.rip)]
        /\ queue' = IF setup.block THEN queue ELSE queue \o o.forks
        /\ dropped' = dropped \cup o.lost
                        \cup (IF setup.block THEN UNION {Models(o.forks[j]) : j \in DOMAIN o.forks}
                              ELSE {})
  BY <1>1 DEF Execute, Visited
<1>4. setup \in Setup
  BY SymxAssumption DEF PInv
<1>5. Applied(o, Visited(s), setup.prog[s.rip + 1], setup.prog)
  <2>1. Visited(s) \in State /\ Visited(s).rip = s.rip
    BY VisitedFacts
  <2> QED BY <1>2, <1>4, <2>1, ApplyFacts
<1>6. Capped(o, Visited(s))
  <2>1. Visited(s) \in State /\ setup.prog \in Seq(Instr)
    BY <1>4, VisitedFacts DEF Setup
  <2>2. setup.prog[s.rip + 1] \in Instr
    <3> DEFINE p == setup.prog
    <3> HIDE DEF p
    <3>1. p \in Seq(Instr) /\ s.rip + 1 \in 1 .. Len(p)
      BY <1>2, <2>1 DEF p
    <3> QED BY <3>1 DEF p
  <2> QED BY <1>4, <2>1, <2>2, ApplyCapped
<1>7. UNION {Models(o.forks[j]) : j \in DOMAIN o.forks} = Covered(o.forks)
  BY DEF Covered, Models
<1>8. \/ o.next = <<>> /\ cur' = <<>>
      \/ \E t \in State : o.next = <<t>> /\ cur' = <<Advance(t, s.rip)>>
  <2>1. CASE o.next = <<>>
    <3>1. DOMAIN o.next = {}
      BY <2>1
    <3>2. cur' = <<>>
      BY <1>3, <3>1
    <3> QED BY <2>1, <3>2
  <2>2. ASSUME NEW t \in State, o.next = <<t>> PROVE cur' = <<Advance(t, s.rip)>>
    <3>1. DOMAIN o.next = 1 .. 1 /\ o.next[1] = t
      BY <2>2
    <3>2. cur' = [j \in 1 .. 1 |-> Advance(t, s.rip)]
      BY <1>3, <3>1
    <3> QED BY <3>2
  <2> QED BY <1>5, <2>1, <2>2 DEF Applied, Splits
<1> QED BY <1>1, <1>2, <1>3, <1>5, <1>6, <1>7, <1>8

LEMMA ExecutePartition ==
  ASSUME PInv, Execute
  PROVE  /\ In(State)' /\ Disjoint' /\ dropped' \subseteq Inputs
         /\ ~setup.gives_up => Explored \cup dropped \subseteq Explored' \cup dropped'
<1>1. PICK s, o :
           /\ s \in State /\ cur = <<s>> /\ s.rip \in 0 .. Len(setup.prog) - 1
           /\ Applied(o, Visited(s), setup.prog[s.rip + 1], setup.prog)
           /\ \/ o.next = <<>> /\ cur' = <<>>
              \/ \E t \in State : o.next = <<t>> /\ cur' = <<Advance(t, s.rip)>>
           /\ queue' = IF setup.block THEN queue ELSE queue \o o.forks
           /\ dropped' = dropped \cup o.lost \cup (IF setup.block THEN Covered(o.forks) ELSE {})
           /\ finished' = finished
  BY ExecuteFacts
<1>2. Splits(o, Visited(s)) /\ Models(Visited(s)) = Models(s)
  BY <1>1, VisitedFacts DEF Applied
<1>3. /\ Covered(cur') = Covered(o.next)
      /\ cur' = <<>> \/ \E t \in State : cur' = <<t>>
  <2>1. CASE o.next = <<>> /\ cur' = <<>>
    BY <2>1
  <2>2. ASSUME NEW t \in State, o.next = <<t>>, cur' = <<Advance(t, s.rip)>>
        PROVE  Covered(cur') = Covered(o.next) /\ \E u \in State : cur' = <<u>>
    BY <2>2, AdvanceFacts, CoveredFew
  <2> QED BY <1>1, <2>1, <2>2
<1>4. /\ o.forks \in Seq(State) /\ Apart(o.forks)
      /\ Covered(cur') \cap Covered(o.forks) = {}
      /\ Covered(cur') \cup Covered(o.forks) \subseteq Models(s)
      /\ o.lost \subseteq Inputs
      /\ ~setup.gives_up => Models(s) \subseteq Covered(cur') \cup Covered(o.forks) \cup o.lost
  BY <1>2, <1>3 DEF Splits
<1>5. /\ queue \in Seq(State) /\ finished \in Seq(State) /\ dropped \subseteq Inputs
      /\ Apart(queue) /\ Apart(finished)
      /\ Covered(queue) \cap Models(s) = {}
      /\ Covered(queue) \cap Covered(finished) = {}
      /\ Models(s) \cap Covered(finished) = {}
      /\ Covered(cur) = Models(s)
  BY <1>1, CoveredFew DEF PInv, In, Disjoint
<1> DEFINE new == IF setup.block THEN {} ELSE Covered(o.forks)
<1>6. queue' \in Seq(State) /\ Apart(queue') /\ Covered(queue') = Covered(queue) \cup new
  <2>1. CASE setup.block
    BY <1>1, <1>5, <2>1
  <2>2. CASE ~setup.block
    <3>1. queue' = queue \o o.forks
      BY <1>1, <2>2
    <3>2. /\ queue \o o.forks \in Seq(State)
          /\ Covered(queue \o o.forks) = Covered(queue) \cup Covered(o.forks)
          /\ Apart(queue \o o.forks)
               <=> Apart(queue) /\ Apart(o.forks) /\ Covered(queue) \cap Covered(o.forks) = {}
      BY <1>4, <1>5, CoveredConcat
    <3>3. Covered(queue) \cap Covered(o.forks) = {}
      BY <1>4, <1>5
    <3> QED BY <1>4, <1>5, <2>2, <3>1, <3>2, <3>3
  <2> QED BY <2>1, <2>2
<1>7. new \subseteq Covered(o.forks) /\ dropped' = dropped \cup o.lost \cup (Covered(o.forks) \ new)
  BY <1>1
<1> HIDE DEF new
<1>8. In(State)'
  BY <1>1, <1>3, <1>5, <1>6 DEF In
<1>9. /\ Apart(queue') /\ Apart(finished')
      /\ Covered(queue') \cap Covered(cur') = {}
      /\ Covered(queue') \cap Covered(finished') = {}
      /\ Covered(cur') \cap Covered(finished') = {}
  BY <1>1, <1>4, <1>5, <1>6, <1>7
<1>10. dropped' \subseteq Inputs
  BY <1>4, <1>5, <1>7, CoveredInputs
<1>11. ~setup.gives_up => Explored \cup dropped
         \subseteq Covered(queue') \cup Covered(cur') \cup Covered(finished') \cup dropped'
  BY <1>1, <1>4, <1>5, <1>6, <1>7 DEF Explored
<1> QED BY <1>8, <1>9, <1>10, <1>11 DEF Disjoint, Explored

LEMMA SeedFacts ==
  /\ Seed \in State /\ Models(Seed) = Inputs
  /\ Seed.visits = [a \in 0 .. StopAt |-> 0] /\ Seed.mem = [v \in Inputs |-> v]
  /\ \A v \in Inputs : Abs(Seed, v) = Start(v)
<1> DEFINE g == [r0 |-> [v \in Inputs |-> v], r1 |-> k(1)]
           c == [v \in Inputs |-> v]
           w == [a \in 0 .. StopAt |-> 0]
<1>1. c \in Expr /\ k(1) \in Expr
  BY SymxAssumption DEF Expr, k
<1>2. /\ g \in [Regs -> Expr] /\ \A v \in Inputs : [r \in Regs |-> g[r][v]] = [r0 |-> v, r1 |-> 1]
  BY <1>1 DEF Regs, k
<1>3. w \in [0 .. StopAt -> Nat]
  OBVIOUS
<1>4. <<>> \in Seq(SUBSET Inputs) /\ <<>> \in Seq(Nat) /\ DOMAIN <<>> = {}
  OBVIOUS
<1>5. Seed = [gpr |-> g, mem |-> c, rip |-> 0, pc |-> <<>>, fork_depth |-> 0, visits |-> w,
              call_stack |-> <<>>]
  BY DEF Seed
<1> HIDE DEF g, w
<1>6. Seed \in State
  BY <1>1, <1>2, <1>3, <1>4, <1>5 DEF State
<1>7. Models(Seed) = Inputs
  BY <1>4, <1>5 DEF Models
<1>8. \A v \in Inputs : Abs(Seed, v) = Start(v)
  BY <1>2, <1>5 DEF Abs, Start
<1> QED BY <1>5, <1>6, <1>7, <1>8 DEF w

LEMMA PInvInit == Init => PInv
<1> SUFFICES ASSUME Init PROVE PInv
  OBVIOUS
<1>1. /\ setup \in Setups /\ queue = <<Seed>> /\ cur = <<>> /\ finished = <<>> /\ dropped = {}
  BY DEF Init
<1>2. Seed \in State /\ Models(Seed) = Inputs
  BY SeedFacts
<1>3. <<Seed>> \in Seq(State) /\ <<>> \in Seq(State)
  BY <1>2
<1>4. Covered(queue) = Inputs /\ Covered(cur) = {} /\ Covered(finished) = {}
  BY <1>1, <1>2, CoveredFew
<1>5. Apart(queue) /\ Apart(finished)
  BY <1>1, CoveredFew
<1> QED BY <1>1, <1>3, <1>4, <1>5 DEF PInv, In, Disjoint, Explored

LEMMA PInvNext == PInv /\ [Next]_vars => PInv'
<1> SUFFICES ASSUME PInv, [Next]_vars PROVE PInv'
  OBVIOUS
<1> USE DEF PInv
<1>1. CASE PopState
  <2>1. setup' = setup /\ dropped' = dropped
    BY <1>1 DEF PopState
  <2>2. In(State)' /\ Disjoint' /\ Explored' = Explored
    BY <1>1, StateClosed, PopFacts
  <2> QED BY <2>1, <2>2
<1>2. CASE FinishPath
  <2>1. setup' = setup /\ dropped' = dropped
    BY <1>2 DEF FinishPath
  <2>2. In(State)' /\ Disjoint' /\ Explored' = Explored
    BY <1>2, StateClosed, FinishFacts
  <2> QED BY <2>1, <2>2
<1>3. CASE KillPath
  <2>1. setup' = setup
    BY <1>3 DEF KillPath
  <2>2. In(State)' /\ Disjoint' /\ Explored \cup dropped = Explored' \cup dropped'
    BY <1>3, KillFacts
  <2>3. dropped' \subseteq Inputs
    <3>1. \E s : dropped' = dropped \cup Models(s)
      BY <1>3 DEF KillPath
    <3> QED BY <3>1, CoveredInputs
  <2> QED BY <2>1, <2>2, <2>3
<1>4. CASE Execute
  <2>1. setup' = setup
    BY <1>4 DEF Execute
  <2>2. /\ In(State)' /\ Disjoint' /\ dropped' \subseteq Inputs
        /\ ~setup.gives_up => Explored \cup dropped \subseteq Explored' \cup dropped'
    BY <1>4, ExecutePartition
  <2>3. Explored' \subseteq Inputs
    BY CoveredInputs DEF Explored
  <2> QED BY <2>1, <2>2, <2>3
<1>5. CASE UNCHANGED vars
  <2>1. /\ setup' = setup /\ queue' = queue /\ cur' = cur
        /\ finished' = finished /\ dropped' = dropped
    BY <1>5 DEF vars
  <2>2. Covered(queue)' = Covered(queue) /\ Covered(cur)' = Covered(cur)
        /\ Covered(finished)' = Covered(finished)
    BY <2>1
  <2> QED BY <2>1, <2>2 DEF In, Disjoint, Explored
<1> QED BY <1>1, <1>2, <1>3, <1>4, <1>5 DEF Next

LEMMA Invariance == Spec => []PInv
  BY PInvInit, PInvNext, PTL DEF Spec

LEMMA PathsCovered ==
  ASSUME PInv
  PROVE  Apart(Paths) /\ Covered(Paths) = Explored
<1>1. queue \in Seq(State) /\ finished \in Seq(State)
  BY DEF PInv, In
<1>2. cur \in Seq(State) /\ (cur = <<>> \/ \E s : cur = <<s>>)
  <2>1. CASE cur = <<>>
    BY <2>1
  <2>2. ASSUME NEW s \in State, cur = <<s>> PROVE cur \in Seq(State)
    BY <2>2
  <2> QED BY <2>1, <2>2 DEF PInv, In
<1>3. Apart(cur)
  BY <1>2, CoveredFew
<1>4. /\ queue \o cur \in Seq(State)
      /\ Covered(queue \o cur) = Covered(queue) \cup Covered(cur)
      /\ Apart(queue \o cur)
           <=> Apart(queue) /\ Apart(cur) /\ Covered(queue) \cap Covered(cur) = {}
  BY <1>1, <1>2, CoveredConcat, ConcatPlaces
<1> DEFINE q == queue \o cur
<1> HIDE DEF q
<1>5. /\ q \in Seq(State)
      /\ Covered(q \o finished) = Covered(q) \cup Covered(finished)
      /\ Apart(q \o finished)
           <=> Apart(q) /\ Apart(finished) /\ Covered(q) \cap Covered(finished) = {}
  BY <1>1, <1>4, CoveredConcat DEF q
<1>6. Paths = q \o finished
  BY DEF Paths, q
<1> QED BY <1>3, <1>4, <1>5, <1>6 DEF q, PInv, Disjoint, Explored

\* No input is explored on two paths: no input satisfies the conditions of two states
\* that are queued, running or finished, however branches, calls and jumps to symbolic
\* targets forked them and merging joined them, for any programs, configurations and
\* answers of the solver.
THEOREM OnePathPerInput == Spec => []PathsDisjoint
<1>1. PInv => PathsDisjoint
  BY PathsCovered DEF Apart, PathsDisjoint
<1> QED BY <1>1, Invariance, PTL

\* Every input is on some path or known to be dropped, as long as Z3 never answers
\* unknown.
THEOREM EveryInputOnAPath == Spec => []NothingLost
<1>1. PInv => NothingLost
  <2> SUFFICES ASSUME PInv, ~setup.gives_up, NEW v \in Inputs
               PROVE  v \in dropped \/ \E i \in DOMAIN Paths : v \in Models(Paths[i])
    BY DEF NothingLost
  <2>1. v \in Covered(Paths) \/ v \in dropped
    BY PathsCovered DEF PInv
  <2> QED BY <2>1 DEF Covered
<1> QED BY <1>1, Invariance, PTL

-----------------------------------------------------------------------------
(* The paths follow the runs *)

\* The visits s has counted.  Every instruction adds one and no fork or merge takes one
\* away, so that their number bounds the length of the run s has followed.
Seen(s, p) == {x \in (0 .. Len(p) - 1) \X (1 .. max_visits_per_rip) : x[2] <= s.visits[x[1]]}

\* The inductive invariant: for every input of s, s is where the run on it got to, after
\* no more steps than s has counted visits; and what merging may lose is as at the start.
Tracks(s, su) ==
  /\ \A v \in Models(s) :
       \E n \in 0 .. Cardinality(Seen(s, su.prog)) : Run(su.prog, v)[n] = Abs(s, v)
  /\ su.enable_merging /\ ~su.block => s.mem = [v \in Inputs |-> v]

Tracked(su) == {s \in State : Tracks(s, su)}

LEMMA SeenFacts ==
  ASSUME NEW p \in Seq(Instr), Len(p) <= StopAt + 1, NEW s \in State
  PROVE  /\ IsFiniteSet(Seen(s, p)) /\ Cardinality(Seen(s, p)) \in Nat
         /\ Cardinality(Seen(s, p)) <= Longest(p)
         /\ \A t \in State : (\A a \in 0 .. StopAt : s.visits[a] <= t.visits[a]) =>
              Cardinality(Seen(s, p)) <= Cardinality(Seen(t, p))
<1> DEFINE L == Len(p)
           X == max_visits_per_rip
           A == 0 .. L - 1
           B == 1 .. X
<1>1. L \in Nat /\ X \in Nat /\ StopAt \in Nat
  BY SymxAssumption
<1>2. IsFiniteSet(A) /\ Cardinality(A) = L
  <2>1. 0 \in Int /\ L - 1 \in Int
    BY <1>1
  <2>2. IsFiniteSet(A) /\ Cardinality(A) = IF 0 > L - 1 THEN 0 ELSE (L - 1) - 0 + 1
    BY <2>1, FS_Interval
  <2> QED BY <1>1, <2>2
<1>3. IsFiniteSet(B) /\ Cardinality(B) = X
  <2>1. 1 \in Int /\ X \in Int
    BY <1>1
  <2>2. IsFiniteSet(B) /\ Cardinality(B) = IF 1 > X THEN 0 ELSE X - 1 + 1
    BY <2>1, FS_Interval
  <2> QED BY <1>1, <2>2
<1> DEFINE grid == A \X B
<1>4. IsFiniteSet(grid) /\ Cardinality(grid) = Longest(p)
  <2> HIDE DEF L, X, A, B
  <2>1. IsFiniteSet(grid) /\ Cardinality(grid) = L * X
    BY <1>2, <1>3, FS_Product
  <2>2. L * X = X * L
    BY <1>1
  <2>3. Longest(p) = X * L
    BY DEF Longest, X, L
  <2> QED BY <2>1, <2>2, <2>3
<1>5. \A u : Seen(u, p) \in SUBSET grid
  BY DEF Seen
<1>6. \A u : Seen(u, p) = {x \in grid : x[2] <= u.visits[x[1]]}
  BY DEF Seen
<1>7. \A a \in A : a \in 0 .. StopAt
  BY <1>1
<1>8. \A x \in grid : x[1] \in A /\ x[2] \in Int
  BY <1>1
<1> HIDE DEF A, B, L, X, grid
<1>9. \A u : IsFiniteSet(Seen(u, p)) /\ Cardinality(Seen(u, p)) <= Longest(p)
  BY <1>4, <1>5, FS_Subset
<1>10. \A u : Cardinality(Seen(u, p)) \in Nat
  BY <1>9, FS_CardinalityType
<1>11. ASSUME NEW t \in State, \A a \in 0 .. StopAt : s.visits[a] <= t.visits[a]
       PROVE  Cardinality(Seen(s, p)) <= Cardinality(Seen(t, p))
  <2>1. s.visits \in [0 .. StopAt -> Nat] /\ t.visits \in [0 .. StopAt -> Nat]
    BY DEF State
  <2>2. ASSUME NEW x \in Seen(s, p) PROVE x \in Seen(t, p)
    <3>1. x \in grid /\ x[2] <= s.visits[x[1]]
      BY <1>6
    <3>2. x[1] \in 0 .. StopAt /\ x[2] \in Int
      BY <1>7, <1>8, <3>1
    <3>3. s.visits[x[1]] \in Nat /\ t.visits[x[1]] \in Nat /\ s.visits[x[1]] <= t.visits[x[1]]
      BY <1>11, <2>1, <3>2
    <3>4. x[2] <= t.visits[x[1]]
      BY <3>1, <3>2, <3>3
    <3> QED BY <1>6, <3>1, <3>4
  <2>3. Seen(s, p) \in SUBSET Seen(t, p)
    BY <2>2
  <2> QED BY <1>9, <2>3, FS_Subset
<1> QED BY <1>9, <1>10, <1>11

\* A visit below the cap counts.
LEMMA SeenVisit ==
  ASSUME NEW p \in Seq(Instr), Len(p) <= StopAt + 1, NEW s \in State,
         s.rip \in 0 .. Len(p) - 1, s.visits[s.rip] < max_visits_per_rip
  PROVE  /\ Cardinality(Seen(Visited(s), p)) = Cardinality(Seen(s, p)) + 1
         /\ Cardinality(Seen(s, p)) \in 0 .. Longest(p) - 1
<1> DEFINE a == s.rip
           w == s.visits
           new == <<a, w[a] + 1>>
           X == max_visits_per_rip
           grid == (0 .. Len(p) - 1) \X (1 .. X)
           t == Visited(s)
<1>1. /\ w \in [0 .. StopAt -> Nat] /\ a \in 0 .. Len(p) - 1 /\ a \in 0 .. StopAt
      /\ w[a] \in Nat /\ w[a] < X /\ X \in Nat
  <2>1. w \in [0 .. StopAt -> Nat]
    BY DEF State
  <2>2. Len(p) \in Nat /\ X \in Nat /\ StopAt \in Nat
    BY SymxAssumption
  <2>3. a \in 0 .. StopAt
    BY <2>2
  <2> QED BY <2>1, <2>2, <2>3
<1>2. t \in State /\ t.visits = [w EXCEPT ![a] = @ + 1]
  BY VisitedFacts
<1>3. t.visits = [b \in 0 .. StopAt |-> IF b = a THEN w[b] + 1 ELSE w[b]]
  BY <1>1, <1>2
<1>4. new \in grid
  BY <1>1
<1>5. /\ Seen(s, p) = {x \in grid : x[2] <= w[x[1]]}
      /\ Seen(t, p) = {x \in grid : x[2] <= t.visits[x[1]]}
  BY DEF Seen
<1>6. \A x \in grid : /\ x[1] \in 0 .. Len(p) - 1 /\ x[2] \in 1 .. X /\ x = <<x[1], x[2]>>
  OBVIOUS
<1>7. \A b \in 0 .. Len(p) - 1 : b \in 0 .. StopAt /\ w[b] \in Nat
  <2>1. Len(p) \in Nat /\ StopAt \in Nat
    BY SymxAssumption
  <2> QED BY <1>1, <2>1
<1> HIDE DEF grid, t, w, a
<1>8. new[1] = a /\ new[2] = w[a] + 1
  OBVIOUS
<1>9. new \notin Seen(s, p)
  <2>1. ~(w[a] + 1 <= w[a])
    BY <1>1
  <2> QED BY <1>5, <1>8, <2>1
<1>10. ASSUME NEW x \in grid PROVE x \in Seen(t, p) <=> x \in Seen(s, p) \/ x = new
  <2> DEFINE b == x[1]
             n == x[2]
  <2>1. b \in 0 .. StopAt /\ w[b] \in Nat /\ n \in Nat /\ x = <<b, n>>
    BY <1>1, <1>6, <1>7
  <2>2. x \in Seen(s, p) <=> n <= w[b]
    BY <1>5
  <2>3. x \in Seen(t, p) <=> n <= (IF b = a THEN w[b] + 1 ELSE w[b])
    BY <1>3, <1>5, <2>1
  <2>4. x = new <=> b = a /\ n = w[a] + 1
    BY <2>1
  <2> HIDE DEF b, n, new
  <2>5. CASE b = a
    BY <2>1, <2>2, <2>3, <2>4, <2>5
  <2>6. CASE b # a
    BY <2>2, <2>3, <2>4, <2>6
  <2> QED BY <2>5, <2>6
<1>11. Seen(t, p) = Seen(s, p) \cup {new}
  BY <1>4, <1>5, <1>10
<1> HIDE DEF new
<1>12. IsFiniteSet(Seen(s, p)) /\ Cardinality(Seen(s, p)) \in Nat
  BY SeenFacts
<1>13. Cardinality(Seen(t, p)) = Cardinality(Seen(s, p)) + 1
  BY <1>9, <1>11, <1>12, FS_AddElement
<1>14. Cardinality(Seen(t, p)) <= Longest(p) /\ Longest(p) \in Nat
  BY <1>2, SeenFacts, LongestNat
<1> QED BY <1>12, <1>13, <1>14 DEF t

\* Merging keeps track, as long as no store came before.
LEMMA MergedTracked ==
  ASSUME NEW su \in Setups, su.enable_merging, ~su.block,
         NEW s \in Tracked(su), NEW o \in Tracked(su),
         s.rip = o.rip, s.call_stack = o.call_stack
  PROVE  merge_diamond(s, o) \in Tracked(su)
<1> DEFINE t == merge_diamond(s, o)
           dist == Tail_(s, common_pc_prefix(s, o))
           p == su.prog
<1>1. s \in State /\ o \in State /\ Tracks(s, su) /\ Tracks(o, su)
  BY DEF Tracked
<1>2. /\ t \in State
      /\ Models(t) = Models(s) \cup Models(o)
      /\ \A v \in Models(s) : v \in dist
      /\ \A v \in Models(o) : v \in dist => v \in Models(s)
      /\ t.gpr = [r \in Regs |-> [v \in Inputs |->
                    IF v \in dist THEN s.gpr[r][v] ELSE o.gpr[r][v]]]
      /\ t.mem = s.mem /\ t.rip = s.rip /\ t.call_stack = s.call_stack
      /\ \A a \in 0 .. StopAt : s.visits[a] <= t.visits[a] /\ o.visits[a] <= t.visits[a]
  BY <1>1, MergeFacts
<1> HIDE DEF t, dist
<1>3. s.mem = [v \in Inputs |-> v] /\ o.mem = [v \in Inputs |-> v]
  BY <1>1 DEF Tracks
<1>4. p \in Seq(Instr) /\ Len(p) <= StopAt + 1
  BY SymxAssumption DEF Setup
<1> HIDE DEF p
<1>5. /\ Cardinality(Seen(s, p)) \in Nat /\ Cardinality(Seen(o, p)) \in Nat
      /\ Cardinality(Seen(t, p)) \in Nat
      /\ Cardinality(Seen(s, p)) <= Cardinality(Seen(t, p))
      /\ Cardinality(Seen(o, p)) <= Cardinality(Seen(t, p))
  BY <1>1, <1>2, <1>4, SeenFacts
<1>6. \A u : Models(u) \subseteq Inputs
  BY DEF Models
<1>7. ASSUME NEW v \in Models(s) PROVE Abs(t, v) = Abs(s, v)
  <2>1. v \in Inputs /\ v \in dist
    BY <1>2, <1>6
  <2>2. \A r \in Regs : t.gpr[r][v] = s.gpr[r][v]
    BY <1>2, <2>1
  <2> QED BY <1>2, <2>2 DEF Abs
<1>8. ASSUME NEW v \in Models(o), v \notin Models(s) PROVE Abs(t, v) = Abs(o, v)
  <2>1. v \in Inputs /\ v \notin dist
    BY <1>2, <1>6, <1>8
  <2>2. \A r \in Regs : t.gpr[r][v] = o.gpr[r][v]
    BY <1>2, <2>1
  <2>3. t.rip = o.rip /\ t.call_stack = o.call_stack /\ t.mem = o.mem
    BY <1>2, <1>3
  <2> QED BY <2>2, <2>3 DEF Abs
<1>9. ASSUME NEW v \in Models(t)
      PROVE  \E n \in 0 .. Cardinality(Seen(t, p)) : Run(p, v)[n] = Abs(t, v)
  <2>1. CASE v \in Models(s)
    <3>1. PICK n \in 0 .. Cardinality(Seen(s, p)) : Run(p, v)[n] = Abs(s, v)
      BY <1>1, <2>1 DEF Tracks, p
    <3>2. n \in 0 .. Cardinality(Seen(t, p))
      BY <1>5, <3>1
    <3> QED BY <1>7, <2>1, <3>1, <3>2
  <2>2. CASE v \notin Models(s)
    <3>1. v \in Models(o)
      BY <1>2, <2>2
    <3>2. PICK n \in 0 .. Cardinality(Seen(o, p)) : Run(p, v)[n] = Abs(o, v)
      BY <1>1, <3>1 DEF Tracks, p
    <3>3. n \in 0 .. Cardinality(Seen(t, p))
      BY <1>5, <3>2
    <3> QED BY <1>8, <2>2, <3>1, <3>2, <3>3
  <2> QED BY <2>1, <2>2
<1>10. Tracks(t, su)
  BY <1>2, <1>3, <1>9 DEF Tracks, p
<1> QED BY <1>2, <1>10 DEF Tracked, t

LEMMA TrackedClosed ==
  ASSUME NEW su \in Setups, su.enable_merging, ~su.block
  PROVE  Closed(Tracked(su))
<1> SUFFICES ASSUME NEW s \in Tracked(su), NEW o \in Tracked(su), can_merge_with(s, o)
             PROVE  merge_diamond(s, o) \in Tracked(su) /\ merge_diamond(o, s) \in Tracked(su)
  BY DEF Closed
<1>1. s.rip = o.rip /\ s.call_stack = o.call_stack
  BY DEF can_merge_with
<1> QED BY <1>1, MergedTracked

\* An instruction keeps track: the run makes the step the state makes.
LEMMA LeadsTracked ==
  ASSUME MergersStoreNothing, NEW su \in Setups, NEW s \in Tracked(su),
         s.rip \in 0 .. Len(su.prog) - 1, s.visits[s.rip] < max_visits_per_rip,
         NEW t, Leads(t, Visited(s), su.prog[s.rip + 1], su.prog)
  PROVE  t \in Tracked(su)
<1> DEFINE p == su.prog
           i == p[s.rip + 1]
           c == Cardinality(Seen(s, p))
<1>1. s \in State /\ Tracks(s, su)
  BY DEF Tracked
<1>2. p \in Seq(Instr) /\ Len(p) <= StopAt + 1
  BY SymxAssumption DEF Setup
<1>3. Cardinality(Seen(Visited(s), p)) = c + 1 /\ c \in 0 .. Longest(p) - 1
  BY <1>1, <1>2, SeenVisit
<1>4. /\ t \in State /\ t.visits = Visited(s).visits
      /\ i.op # "store" => t.mem = Visited(s).mem
      /\ \A v \in Models(t) : v \in Models(Visited(s)) /\ Abs(t, v) = ConcreteStep(p, Abs(Visited(s), v))
  BY DEF Leads
<1>5. /\ Models(Visited(s)) = Models(s) /\ Visited(s).mem = s.mem
      /\ \A v : Abs(Visited(s), v) = Abs(s, v)
  BY <1>1, VisitedFacts DEF Abs
<1>6. Seen(t, p) = Seen(Visited(s), p)
  BY <1>4 DEF Seen
<1>7. c \in Nat /\ Cardinality(Seen(t, p)) = c + 1 /\ Longest(p) \in Nat
  BY <1>2, <1>3, <1>6, LongestNat
<1>8. ASSUME NEW v \in Models(t)
      PROVE  \E n \in 0 .. Cardinality(Seen(t, p)) : Run(p, v)[n] = Abs(t, v)
  <2>1. v \in Models(s) /\ Abs(t, v) = ConcreteStep(p, Abs(s, v))
    BY <1>4, <1>5
  <2>2. PICK n \in 0 .. c : Run(p, v)[n] = Abs(s, v)
    BY <1>1, <2>1 DEF Tracks
  <2> HIDE DEF c, p
  <2>3. n \in 0 .. Longest(p) - 1 /\ n + 1 \in 0 .. c + 1
    BY <1>3, <1>7, <2>2
  <2>4. Run(p, v)[n + 1] = ConcreteStep(p, Run(p, v)[n])
    BY <1>2, <2>3, RunFacts
  <2> QED BY <1>7, <2>1, <2>2, <2>3, <2>4
<1>9. su.enable_merging /\ ~su.block => t.mem = [v \in Inputs |-> v]
  <2> SUFFICES ASSUME su.enable_merging, ~su.block PROVE t.mem = [v \in Inputs |-> v]
    OBVIOUS
  <2>1. s.rip + 1 \in DOMAIN p
    <3>1. Len(p) \in Nat /\ DOMAIN p = 1 .. Len(p)
      BY <1>2
    <3>2. s.rip \in 0 .. Len(p) - 1
      OBVIOUS
    <3> HIDE DEF p
    <3> QED BY <3>1, <3>2
  <2>2. i.op # "store"
    BY <2>1 DEF MergersStoreNothing
  <2> QED BY <1>1, <1>4, <1>5, <2>2 DEF Tracks
<1> HIDE DEF c, p, i
<1>10. Tracks(t, su)
  BY <1>8, <1>9 DEF Tracks, p
<1> QED BY <1>4, <1>10 DEF Tracked

\* The state that goes on, with the length of its instruction added where rip stayed.
LEMMA AdvanceTracked ==
  ASSUME MergersStoreNothing, NoSelfJump, NEW su \in Setups, NEW s \in Tracked(su),
         s.rip \in 0 .. Len(su.prog) - 1, s.visits[s.rip] < max_visits_per_rip,
         NEW t \in State,
         \/ Leads(t, Visited(s), su.prog[s.rip + 1], su.prog)
         \/ FallsThrough(t, Visited(s), su.prog[s.rip + 1], su.prog)
  PROVE  Advance(t, s.rip) \in Tracked(su)
<1> DEFINE p == su.prog
           i == p[s.rip + 1]
           a == s.rip
<1>1. s \in State /\ Tracks(s, su) /\ Visited(s).rip = a
  BY VisitedFacts DEF Tracked
<1>2. Advance(t, a) \in State /\ Models(Advance(t, a)) = Models(t)
      /\ Advance(t, a) = IF t.rip = a THEN [t EXCEPT !.rip = a + 1] ELSE t
  BY AdvanceFacts
<1>3. CASE FallsThrough(t, Visited(s), i, p)
  <2>1. t.rip = a /\ Leads([t EXCEPT !.rip = a + 1], Visited(s), i, p)
    BY <1>1, <1>3 DEF FallsThrough
  <2>2. Leads(Advance(t, a), Visited(s), i, p)
    BY <1>2, <2>1
  <2> QED BY <2>2, LeadsTracked
<1>4. CASE Leads(t, Visited(s), i, p) /\ t.rip # a
  BY <1>2, <1>4, LeadsTracked
<1>5. CASE Leads(t, Visited(s), i, p) /\ t.rip = a
  <2>1. t \in Tracked(su)
    BY <1>5, LeadsTracked
  <2>2. ASSUME NEW v \in Models(t) PROVE FALSE
    <3>1. /\ v \in Models(s) /\ v \in Inputs
          /\ Abs(t, v) = ConcreteStep(p, Abs(s, v))
      <4>1. /\ Models(Visited(s)) = Models(s)
            /\ Abs(Visited(s), v) = Abs(s, v)
        BY <1>1, VisitedFacts DEF Abs
      <4>2. v \in Models(Visited(s)) /\ Abs(t, v) = ConcreteStep(p, Abs(Visited(s), v))
        BY <1>5 DEF Leads
      <4>3. v \in Inputs
        BY DEF Models
      <4> QED BY <4>1, <4>2, <4>3
    <3>2. PICK n \in 0 .. Cardinality(Seen(s, p)) : Run(p, v)[n] = Abs(s, v)
      BY <1>1, <3>1 DEF Tracks
    <3>3. n \in 0 .. Longest(p)
      <4>1. p \in Seq(Instr) /\ Len(p) <= StopAt + 1
        BY SymxAssumption DEF Setup
      <4>2. Cardinality(Seen(s, p)) \in Nat /\ Cardinality(Seen(s, p)) <= Longest(p)
            /\ Longest(p) \in Nat
        BY <1>1, <4>1, SeenFacts, LongestNat
      <4> QED BY <3>2, <4>2
    <3>4. Abs(s, v) \in Trajectory(p, v)
      BY <3>2, <3>3 DEF Trajectory
    <3>5. Abs(s, v).rip = a /\ Abs(t, v).rip = a
      BY <1>5 DEF Abs
    <3>6. ConcreteStep(p, Abs(s, v)).rip # a
      BY <3>1, <3>4, <3>5 DEF NoSelfJump
    <3> QED BY <3>1, <3>5, <3>6
  <2>3. Models(Advance(t, a)) = {}
    BY <1>2, <2>2
  <2>4. Advance(t, a).mem = t.mem
    <3>1. Advance(t, a) = [t EXCEPT !.rip = a + 1]
      BY <1>2, <1>5
    <3> QED BY <3>1 DEF State
  <2>5. Tracks(Advance(t, a), su)
    BY <2>1, <2>3, <2>4 DEF Tracks, Tracked
  <2> QED BY <1>2, <2>5 DEF Tracked
<1> QED BY <1>3, <1>4, <1>5

LEMMA ExecuteTracked ==
  ASSUME MergersStoreNothing, NoSelfJump, NEW su \in Setups, su = setup,
         PInv, In(Tracked(su)), Execute
  PROVE  In(Tracked(su))'
<1> DEFINE G == Tracked(su)
<1>1. PICK s, o :
           /\ s \in State /\ cur = <<s>> /\ s.rip \in 0 .. Len(su.prog) - 1
           /\ s.visits[s.rip] < max_visits_per_rip
           /\ Applied(o, Visited(s), su.prog[s.rip + 1], su.prog)
           /\ \/ o.next = <<>> /\ cur' = <<>>
              \/ \E t \in State : o.next = <<t>> /\ cur' = <<Advance(t, s.rip)>>
           /\ queue' = IF su.block THEN queue ELSE queue \o o.forks
           /\ finished' = finished
  BY ExecuteFacts
<1>2. s \in G
  <2>1. \A t : <<t>> # <<>> /\ <<t>>[1] = t
    OBVIOUS
  <2> QED BY <1>1, <2>1 DEF In
<1>3. /\ Splits(o, Visited(s))
      /\ \A j \in DOMAIN o.next : \/ Leads(o.next[j], Visited(s), su.prog[s.rip + 1], su.prog)
                                  \/ FallsThrough(o.next[j], Visited(s), su.prog[s.rip + 1], su.prog)
      /\ \A j \in DOMAIN o.forks : Leads(o.forks[j], Visited(s), su.prog[s.rip + 1], su.prog)
  BY <1>1 DEF Applied
<1>4. o.forks \in Seq(G)
  <2>1. o.forks \in Seq(State)
    BY <1>3 DEF Splits
  <2>2. \A j \in DOMAIN o.forks : o.forks[j] \in G
    BY <1>1, <1>2, <1>3, LeadsTracked
  <2> HIDE DEF G
  <2> QED BY <2>1, <2>2
<1>5. cur' = <<>> \/ \E t \in G : cur' = <<t>>
  <2> SUFFICES ASSUME NEW t \in State, o.next = <<t>>, cur' = <<Advance(t, s.rip)>>
               PROVE  Advance(t, s.rip) \in G
    BY <1>1
  <2>1. 1 \in DOMAIN o.next /\ o.next[1] = t
    OBVIOUS
  <2>2. \/ Leads(t, Visited(s), su.prog[s.rip + 1], su.prog)
        \/ FallsThrough(t, Visited(s), su.prog[s.rip + 1], su.prog)
    BY <1>3, <2>1
  <2> QED BY <1>1, <1>2, <2>2, AdvanceTracked
<1>6. queue \in Seq(G) /\ finished \in Seq(G)
  BY DEF In
<1> HIDE DEF G
<1>7. queue' \in Seq(G)
  BY <1>1, <1>4, <1>6, ConcatPlaces
<1>8. finished' \in Seq(G)
  BY <1>1, <1>6
<1> QED BY <1>5, <1>7, <1>8 DEF In, G

TInv ==
  /\ PInv
  /\ In(Tracked(setup))
  /\ concrete = [v \in Inputs |-> Trajectory(setup.prog, v)]

LEMMA TInvInit == Init => TInv
<1> SUFFICES ASSUME Init PROVE TInv
  OBVIOUS
<1>1. /\ setup \in Setups /\ queue = <<Seed>> /\ cur = <<>> /\ finished = <<>>
      /\ concrete = [v \in Inputs |-> Trajectory(setup.prog, v)]
  BY DEF Init
<1> DEFINE p == setup.prog
<1>2. p \in Seq(Instr) /\ Len(p) <= StopAt + 1
  BY <1>1, SymxAssumption DEF Setup
<1> HIDE DEF p
<1>3. Seed \in State /\ Seed.mem = [v \in Inputs |-> v] /\ \A v \in Inputs : Abs(Seed, v) = Start(v)
  BY SeedFacts
<1>4. Cardinality(Seen(Seed, p)) \in Nat
  BY <1>2, <1>3, SeenFacts
<1>5. 0 \in 0 .. Cardinality(Seen(Seed, p))
  BY <1>4
<1>6. \A v \in Models(Seed) : v \in Inputs /\ Run(p, v)[0] = Abs(Seed, v)
  BY <1>2, <1>3, RunFacts DEF Models
<1>7. Seed \in Tracked(setup)
  BY <1>3, <1>5, <1>6 DEF Tracked, Tracks, p
<1> DEFINE G == Tracked(setup)
<1> HIDE DEF G
<1>8. <<Seed>> \in Seq(G) /\ <<>> \in Seq(G)
  BY <1>7 DEF G
<1> QED BY <1>1, <1>8, PInvInit DEF TInv, In, G

LEMMA TInvNext ==
  ASSUME MergersStoreNothing, NoSelfJump
  PROVE  TInv /\ [Next]_vars => TInv'
<1> SUFFICES ASSUME TInv, [Next]_vars PROVE TInv'
  OBVIOUS
<1>1. PInv /\ PInv'
  BY PInvNext DEF TInv
<1>2. setup' = setup /\ concrete' = concrete
  BY DEF Next, PopState, FinishPath, KillPath, Execute, vars
<1>3. PICK su \in Setups : su = setup
  BY <1>1 DEF PInv
<1> DEFINE G == Tracked(su)
<1>4. In(G)
  BY <1>3 DEF TInv
<1>5. setup.enable_merging /\ ~setup.block => Closed(G)
  BY <1>3, TrackedClosed
<1>6. G \in SUBSET State /\ Disjoint
  BY <1>1 DEF Tracked, PInv
<1>7. In(G)'
  <2>1. CASE Execute
    BY <1>1, <1>3, <1>4, <2>1, ExecuteTracked
  <2> HIDE DEF G
  <2>2. CASE PopState
    BY <1>4, <1>5, <1>6, <2>2, PopFacts
  <2>3. CASE FinishPath
    BY <1>4, <1>5, <1>6, <2>3, FinishFacts
  <2>4. CASE KillPath
    BY <1>4, <1>6, <2>4, KillFacts
  <2>5. CASE UNCHANGED vars
    BY <1>4, <2>5 DEF vars, In
  <2> QED BY <2>1, <2>2, <2>3, <2>4, <2>5 DEF Next
<1>8. Tracked(setup)' = G
  BY <1>2, <1>3
<1>9. In(Tracked(setup))'
  BY <1>2, <1>3, <1>7 DEF In
<1> QED BY <1>1, <1>2, <1>9 DEF TInv

LEMMA TInvTracks ==
  ASSUME TInv
  PROVE  OnTrajectory
<1> DEFINE G == Tracked(setup)
           p == setup.prog
<1>1. Paths \in Seq(G)
  <2>1. queue \in Seq(G) /\ finished \in Seq(G) /\ (cur = <<>> \/ \E s \in G : cur = <<s>>)
    BY DEF TInv, In
  <2> HIDE DEF G
  <2>2. cur \in Seq(G)
    <3>1. CASE cur = <<>>
      BY <3>1
    <3>2. ASSUME NEW s \in G, cur = <<s>> PROVE cur \in Seq(G)
      BY <3>2
    <3> QED BY <2>1, <3>1, <3>2
  <2>3. queue \o cur \in Seq(G)
    BY <2>1, <2>2, ConcatPlaces
  <2> QED BY <2>1, <2>3, ConcatPlaces DEF Paths
<1>2. ASSUME NEW s \in G, NEW v \in Models(s)
      PROVE  \E m \in concrete[v] :
               /\ m.rip = s.rip /\ m.mem = s.mem[v] /\ m.calls = s.call_stack
               /\ \A r \in Regs : m.gpr[r] = s.gpr[r][v]
  <2>1. s \in State /\ v \in Inputs
    BY DEF Tracked, Models
  <2>2. PICK n \in 0 .. Cardinality(Seen(s, p)) : Run(p, v)[n] = Abs(s, v)
    BY DEF Tracked, Tracks
  <2>3. n \in 0 .. Longest(p)
    <3>1. p \in Seq(Instr) /\ Len(p) <= StopAt + 1
      BY SymxAssumption DEF Setup, TInv, PInv
    <3> HIDE DEF p
    <3>2. /\ Cardinality(Seen(s, p)) \in Nat /\ Cardinality(Seen(s, p)) <= Longest(p)
          /\ Longest(p) \in Nat
      BY <2>1, <3>1, SeenFacts, LongestNat
    <3> QED BY <2>2, <3>2
  <2>4. Abs(s, v) \in concrete[v]
    BY <2>1, <2>2, <2>3 DEF Trajectory, TInv
  <2>5. /\ Abs(s, v).rip = s.rip /\ Abs(s, v).mem = s.mem[v] /\ Abs(s, v).calls = s.call_stack
        /\ \A r \in Regs : Abs(s, v).gpr[r] = s.gpr[r][v]
    BY DEF Abs
  <2> QED BY <2>4, <2>5
<1> HIDE DEF G
<1>3. \A i \in DOMAIN Paths : Paths[i] \in G
  BY <1>1
<1> QED BY <1>2, <1>3 DEF OnTrajectory

\* What a path says of the registers, of memory, of the address and of the call stack
\* for an input that satisfies its condition is true of the real run on that input, for
\* any programs that jump nowhere to themselves, any configurations, solver answers and
\* caps, provided that what is merged has stored nothing.
THEOREM PathsFollowRuns ==
  MergersStoreNothing /\ NoSelfJump => (Spec => []OnTrajectory)
<1> SUFFICES ASSUME MergersStoreNothing, NoSelfJump PROVE Spec => []OnTrajectory
  OBVIOUS
<1>1. Init => TInv
  BY TInvInit
<1>2. TInv /\ [Next]_vars => TInv'
  BY TInvNext
<1>3. TInv => OnTrajectory
  BY TInvTracks
<1> QED BY <1>1, <1>2, <1>3, PTL DEF Spec

-----------------------------------------------------------------------------
(* The caps *)

\* The states that forks, visits and merges lead to.
Within(su) ==
  {s \in State : /\ s.fork_depth <= su.max_fork_depth + 1
                 /\ \A a \in 0 .. StopAt : s.visits[a] <= max_visits_per_rip}

LEMMA MergeCounts ==
  ASSUME NEW s \in State, NEW o \in State
  PROVE  /\ merge_diamond(s, o).fork_depth = s.fork_depth
         /\ \A a \in 0 .. StopAt : merge_diamond(s, o).visits[a] \in {s.visits[a], o.visits[a]}
<1> DEFINE gpr == [r \in Regs |-> [v \in Inputs |->
                     IF v \in Tail_(s, common_pc_prefix(s, o)) THEN s.gpr[r][v] ELSE o.gpr[r][v]]]
           cp == common_pc_prefix(s, o)
           pc == Append(SubSeq(s.pc, 1, cp), Tail_(s, cp) \cup Tail_(o, cp))
           visits == [a \in DOMAIN s.visits |->
                        IF s.visits[a] < o.visits[a] THEN o.visits[a] ELSE s.visits[a]]
           t == [s EXCEPT !.gpr = gpr, !.pc = pc, !.visits = visits]
<1>1. merge_diamond(s, o) = t
  BY DEF merge_diamond
<1>2. s.visits \in [0 .. StopAt -> Nat]
  BY DEF State
<1>3. \A a \in 0 .. StopAt : visits[a] \in {s.visits[a], o.visits[a]}
  BY <1>2
<1> HIDE DEF gpr, pc, visits
<1>4. t.fork_depth = s.fork_depth /\ t.visits = visits
  BY DEF State
<1> QED BY <1>1, <1>3, <1>4

LEMMA WithinClosed ==
  ASSUME NEW su
  PROVE  Closed(Within(su))
<1>1. ASSUME NEW s \in Within(su), NEW o \in Within(su)
      PROVE  merge_diamond(s, o) \in Within(su)
  <2> DEFINE t == merge_diamond(s, o)
  <2>1. s \in State /\ o \in State
    BY DEF Within
  <2>2. /\ t \in State /\ t.fork_depth = s.fork_depth
        /\ \A a \in 0 .. StopAt : t.visits[a] \in {s.visits[a], o.visits[a]}
    BY <2>1, MergeFacts, MergeCounts
  <2> HIDE DEF t
  <2>3. t \in Within(su)
    BY <2>2 DEF Within
  <2> QED BY <2>3 DEF t
<1> QED BY <1>1 DEF Closed

\* All that comes of an instruction has counted the same visits.
LEMMA SameVisits ==
  ASSUME NEW s, NEW i, NEW p, NEW o, Applied(o, s, i, p)
  PROVE  /\ \A j \in DOMAIN o.next : o.next[j] \in State /\ o.next[j].visits = s.visits
         /\ \A j \in DOMAIN o.forks : o.forks[j] \in State /\ o.forks[j].visits = s.visits
<1>1. ASSUME NEW t \in State, FallsThrough(t, s, i, p) PROVE t.visits = s.visits
  <2> DEFINE n == s.rip + 1
             w == [t EXCEPT !.rip = n]
  <2>1. w.visits = s.visits
    BY <1>1 DEF FallsThrough, Leads
  <2> HIDE DEF n
  <2>2. w.visits = t.visits
    BY DEF State
  <2> QED BY <2>1, <2>2
<1>2. ASSUME NEW j \in DOMAIN o.next PROVE o.next[j] \in State /\ o.next[j].visits = s.visits
  <2>1. o.next[j] \in State
    <3>1. CASE o.next = <<>>
      <4>1. DOMAIN o.next = {}
        BY <3>1
      <4> QED BY <4>1
    <3>2. ASSUME NEW t \in State, o.next = <<t>> PROVE o.next[j] \in State
      <4>1. j = 1 /\ o.next[1] = t
        BY <3>2
      <4> QED BY <4>1
    <3> QED BY <3>1, <3>2 DEF Applied, Splits
  <2>2. Leads(o.next[j], s, i, p) \/ FallsThrough(o.next[j], s, i, p)
    BY DEF Applied
  <2> QED BY <1>1, <2>1, <2>2 DEF Leads
<1>3. \A j \in DOMAIN o.forks : o.forks[j] \in State /\ o.forks[j].visits = s.visits
  BY DEF Applied, Leads
<1> QED BY <1>2, <1>3

LEMMA AdvanceCounts ==
  ASSUME NEW t \in State, NEW a
  PROVE  Advance(t, a).visits = t.visits /\ Advance(t, a).fork_depth = t.fork_depth
<1> DEFINE n == a + 1
           w == [t EXCEPT !.rip = n]
<1> HIDE DEF n
<1>1. w.visits = t.visits /\ w.fork_depth = t.fork_depth
  BY DEF State
<1> HIDE DEF w
<1>2. Advance(t, a) = w \/ Advance(t, a) = t
  BY AdvanceFacts DEF w, n
<1> QED BY <1>1, <1>2

LEMMA ExecuteWithin ==
  ASSUME PInv, NEW su \in Setups, su = setup, In(Within(su)), Execute
  PROVE  In(Within(su))'
<1> DEFINE G == Within(su)
<1>1. PICK s, o :
           /\ s \in State /\ cur = <<s>> /\ s.rip \in 0 .. Len(su.prog) - 1
           /\ s.visits[s.rip] < max_visits_per_rip
           /\ Applied(o, Visited(s), su.prog[s.rip + 1], su.prog)
           /\ Capped(o, Visited(s))
           /\ \/ o.next = <<>> /\ cur' = <<>>
              \/ \E t \in State : o.next = <<t>> /\ cur' = <<Advance(t, s.rip)>>
           /\ queue' = IF su.block THEN queue ELSE queue \o o.forks
           /\ finished' = finished
  BY ExecuteFacts
<1>2. s \in G
  <2>1. \A t : <<t>> # <<>> /\ <<t>>[1] = t
    OBVIOUS
  <2> QED BY <1>1, <2>1 DEF In
<1>3. ASSUME NEW a \in 0 .. StopAt PROVE Visited(s).visits[a] <= max_visits_per_rip
  <2> DEFINE w == s.visits
             r == s.rip
             X == max_visits_per_rip
  <2>1. /\ w \in [0 .. StopAt -> Nat] /\ w[r] < X /\ w[a] <= X /\ X \in Nat
        /\ Visited(s).visits = [w EXCEPT ![r] = @ + 1]
    BY <1>1, <1>2, VisitedFacts, SymxAssumption DEF State, Within
  <2> HIDE DEF w, r, X
  <2>2. w[a] \in Nat
    BY <2>1
  <2>3. CASE a = r
    <3>1. Visited(s).visits[a] = w[a] + 1
      BY <2>1, <2>3
    <3> QED BY <2>1, <2>2, <2>3, <3>1 DEF X
  <2>4. CASE a # r
    <3>1. Visited(s).visits[a] = w[a]
      BY <2>1, <2>4
    <3> QED BY <2>1, <3>1 DEF X
  <2> QED BY <2>3, <2>4
<1>4. Visited(s).fork_depth = s.fork_depth
  <2> DEFINE w == [s.visits EXCEPT ![s.rip] = @ + 1]
  <2>1. Visited(s) = [s EXCEPT !.visits = w]
    BY DEF Visited
  <2> HIDE DEF w
  <2> QED BY <1>1, <2>1 DEF State
<1>5. ASSUME NEW t \in State, t.visits = Visited(s).visits, Near(t, Visited(s)) PROVE t \in G
  <2>1. t.fork_depth \in Nat /\ s.fork_depth \in Nat /\ su.max_fork_depth \in Nat
    BY <1>1, SymxAssumption DEF State, Setup
  <2>2. s.fork_depth <= su.max_fork_depth + 1
    BY <1>2 DEF Within
  <2>3. t.fork_depth <= su.max_fork_depth + 1
    BY <1>4, <1>5, <2>1, <2>2 DEF Near
  <2> QED BY <1>3, <1>5, <2>3 DEF Within
<1>6. o.forks \in Seq(G)
  <2>1. o.forks \in Seq(State)
    BY <1>1 DEF Applied, Splits
  <2>2. \A j \in DOMAIN o.forks : o.forks[j] \in G
    <3> HIDE DEF G
    <3> QED BY <1>1, <1>5, SameVisits DEF Capped
  <2> HIDE DEF G
  <2> QED BY <2>1, <2>2
<1>7. cur' = <<>> \/ \E t \in G : cur' = <<t>>
  <2> SUFFICES ASSUME NEW t \in State, o.next = <<t>>, cur' = <<Advance(t, s.rip)>>
               PROVE  Advance(t, s.rip) \in G
    BY <1>1
  <2>1. 1 \in DOMAIN o.next /\ o.next[1] = t
    OBVIOUS
  <2>2. t.visits = Visited(s).visits /\ Near(t, Visited(s))
    BY <1>1, <2>1, SameVisits DEF Capped
  <2>3. /\ Advance(t, s.rip) \in State
        /\ Advance(t, s.rip).visits = t.visits /\ Advance(t, s.rip).fork_depth = t.fork_depth
    BY AdvanceFacts, AdvanceCounts
  <2>4. Near(Advance(t, s.rip), Visited(s))
    BY <2>2, <2>3 DEF Near
  <2> HIDE DEF G
  <2> QED BY <1>5, <2>2, <2>3, <2>4
<1>8. queue \in Seq(G) /\ finished \in Seq(G)
  BY DEF In
<1> HIDE DEF G
<1>9. queue' \in Seq(G)
  BY <1>1, <1>6, <1>8, ConcatPlaces
<1>10. finished' \in Seq(G)
  BY <1>1, <1>8
<1> QED BY <1>7, <1>9, <1>10 DEF In, G

CInv == PInv /\ In(Within(setup))

LEMMA CInvInit == Init => CInv
<1> SUFFICES ASSUME Init PROVE CInv
  OBVIOUS
<1>1. setup \in Setups /\ queue = <<Seed>> /\ cur = <<>> /\ finished = <<>>
  BY DEF Init
<1> DEFINE G == Within(setup)
<1>2. Seed \in G
  <2>1. Seed \in State /\ Seed.visits = [a \in 0 .. StopAt |-> 0] /\ Seed.fork_depth = 0
    BY SeedFacts DEF Seed
  <2>2. setup.max_fork_depth \in Nat /\ max_visits_per_rip \in Nat
    BY <1>1, SymxAssumption DEF Setup
  <2>3. 0 <= setup.max_fork_depth + 1
    BY <2>2
  <2>4. \A a \in 0 .. StopAt : Seed.visits[a] <= max_visits_per_rip
    <3> TAKE a \in 0 .. StopAt
    <3>1. Seed.visits[a] = 0
      BY <2>1
    <3> QED BY <2>2, <3>1
  <2> QED BY <2>1, <2>3, <2>4 DEF Within
<1> HIDE DEF G
<1>3. <<Seed>> \in Seq(G) /\ <<>> \in Seq(G)
  BY <1>2
<1> QED BY <1>1, <1>3, PInvInit DEF CInv, In, G

LEMMA CInvNext == CInv /\ [Next]_vars => CInv'
<1> SUFFICES ASSUME CInv, [Next]_vars PROVE CInv'
  OBVIOUS
<1>1. PInv /\ PInv'
  BY PInvNext DEF CInv
<1>2. setup' = setup
  BY DEF Next, PopState, FinishPath, KillPath, Execute, vars
<1>3. PICK su \in Setups : su = setup
  BY <1>1 DEF PInv
<1> DEFINE G == Within(su)
<1>4. In(G)
  BY <1>3 DEF CInv
<1>5. Closed(G) /\ G \in SUBSET State /\ Disjoint
  BY <1>1, WithinClosed DEF Within, PInv
<1>6. In(G)'
  <2>1. CASE Execute
    BY <1>1, <1>3, <1>4, <2>1, ExecuteWithin
  <2> HIDE DEF G
  <2>2. CASE PopState
    BY <1>4, <1>5, <2>2, PopFacts
  <2>3. CASE FinishPath
    BY <1>4, <1>5, <2>3, FinishFacts
  <2>4. CASE KillPath
    BY <1>4, <1>5, <2>4, KillFacts
  <2>5. CASE UNCHANGED vars
    BY <1>4, <2>5 DEF vars, In
  <2> QED BY <2>1, <2>2, <2>3, <2>4, <2>5 DEF Next
<1>7. In(Within(setup))'
  BY <1>2, <1>3, <1>6 DEF In
<1> QED BY <1>1, <1>7 DEF CInv

\* Everything the engine explores is within the caps: no path has passed an address more
\* often than max_visits_per_rip, and none is deeper than one fork beyond max_fork_depth.
CapsHold ==
  \A i \in DOMAIN Paths :
    /\ Paths[i].fork_depth <= setup.max_fork_depth + 1
    /\ \A a \in 0 .. StopAt : Paths[i].visits[a] <= max_visits_per_rip

\* However branches and symbolic targets fork states and merging joins them, each keeps
\* to the caps of Config, but for the one fork too many that a symbolic target makes.
THEOREM CapsAreKept == Spec => []CapsHold
<1>1. CInv => CapsHold
  <2> SUFFICES ASSUME CInv PROVE CapsHold
    OBVIOUS
  <2> DEFINE G == Within(setup)
  <2>1. queue \in Seq(G) /\ finished \in Seq(G) /\ (cur = <<>> \/ \E s \in G : cur = <<s>>)
    BY DEF CInv, In
  <2> HIDE DEF G
  <2>2. cur \in Seq(G)
    <3>1. CASE cur = <<>>
      BY <3>1
    <3>2. ASSUME NEW s \in G, cur = <<s>> PROVE cur \in Seq(G)
      BY <3>2
    <3> QED BY <2>1, <3>1, <3>2
  <2>3. queue \o cur \in Seq(G)
    BY <2>1, <2>2, ConcatPlaces
  <2>4. Paths \in Seq(G)
    BY <2>1, <2>3, ConcatPlaces DEF Paths
  <2>5. \A i \in DOMAIN Paths : Paths[i] \in G
    BY <2>4
  <2> QED BY <2>5 DEF CapsHold, G, Within
<1> QED BY <1>1, CInvInit, CInvNext, PTL DEF Spec

-----------------------------------------------------------------------------
(* Powers and sums *)

Powers(b, n) ==
  LET pow[i \in 0 .. n] == IF i = 0 THEN 1 ELSE b * pow[i - 1]
  IN pow

LEMMA PowersFacts ==
  ASSUME NEW b \in Nat, NEW n \in Nat
  PROVE  /\ Powers(b, n) \in [0 .. n -> Nat] /\ Powers(b, n)[0] = 1
         /\ \A i \in 1 .. n : Powers(b, n)[i] = b * Powers(b, n)[i - 1]
<1> DEFINE Good(f, l) == /\ f \in [0 .. l -> Nat] /\ f[0] = 1
                         /\ \A i \in 1 .. l : f[i] = b * f[i - 1]
           T == {l \in Nat : \E f : Good(f, l)}
<1>1. 0 \in T
  <2> DEFINE f == [i \in 0 .. 0 |-> 1]
  <2>1. Good(f, 0)
    OBVIOUS
  <2> HIDE DEF Good, f
  <2> QED BY <2>1
<1>2. ASSUME NEW l \in Nat, l \in T PROVE l + 1 \in T
  <2>1. PICK f : Good(f, l)
    BY <1>2
  <2> DEFINE y == b * f[l]
             g == [i \in 0 .. l + 1 |-> IF i = l + 1 THEN y ELSE f[i]]
  <2>2. y \in Nat
    <3> DEFINE x == f[l]
    <3>1. x \in Nat
      BY <2>1
    <3> HIDE DEF x
    <3> QED BY <3>1 DEF x
  <2>3. (\A i \in 0 .. l : i \in 0 .. l + 1 /\ g[i] = f[i]) /\ g[l + 1] = y
    OBVIOUS
  <2>4. g \in [0 .. l + 1 -> Nat]
    <3> HIDE DEF y
    <3>1. \A i \in 0 .. l + 1 : i # l + 1 => i \in 0 .. l
      OBVIOUS
    <3> QED BY <2>1, <2>2, <3>1
  <2> HIDE DEF g
  <2>5. \A i \in 1 .. l + 1 : g[i] = b * g[i - 1]
    <3> TAKE i \in 1 .. l + 1
    <3>1. i - 1 \in 0 .. l
      OBVIOUS
    <3>2. CASE i = l + 1
      BY <2>3, <3>1, <3>2
    <3>3. CASE i # l + 1
      <4>1. i \in 1 .. l /\ i \in 0 .. l
        BY <3>3
      <4> QED BY <2>1, <2>3, <3>1, <4>1
    <3> QED BY <3>2, <3>3
  <2>6. g[0] = 1
    BY <2>1, <2>3
  <2>7. Good(g, l + 1) /\ l + 1 \in Nat
    BY <2>4, <2>5, <2>6
  <2> HIDE DEF Good
  <2> QED BY <2>7
<1>3. \E f : Good(f, n)
  <2> HIDE DEF T, Good
  <2>1. n \in T
    BY <1>1, <1>2, AllNats
  <2> QED BY <2>1 DEF T
<1>4. PICK f : Good(f, n)
  BY <1>3
<1>5. f = [i \in 0 .. n |-> IF i = 0 THEN 1 ELSE b * f[i - 1]]
  <2> DEFINE h == [i \in 0 .. n |-> IF i = 0 THEN 1 ELSE b * f[i - 1]]
  <2>1. \A i \in 0 .. n : i # 0 => i \in 1 .. n
    OBVIOUS
  <2>2. \A i \in 0 .. n : f[i] = h[i]
    BY <1>4, <2>1
  <2>3. f = [i \in 0 .. n |-> f[i]] /\ h = [i \in 0 .. n |-> h[i]]
    BY <1>4
  <2> HIDE DEF h
  <2>4. f = h
    BY <2>2, <2>3
  <2> QED BY <2>4 DEF h
<1> DEFINE r == Powers(b, n)
<1>6. r = [i \in 0 .. n |-> IF i = 0 THEN 1 ELSE b * r[i - 1]]
  BY <1>5 DEF Powers
<1> HIDE DEF r
<1>7. \A i \in 0 .. n : r[i] = IF i = 0 THEN 1 ELSE b * r[i - 1]
  <2> DEFINE h == [i \in 0 .. n |-> IF i = 0 THEN 1 ELSE b * r[i - 1]]
  <2>1. r = h
    BY <1>6
  <2>2. \A i \in 0 .. n : h[i] = IF i = 0 THEN 1 ELSE b * r[i - 1]
    OBVIOUS
  <2> HIDE DEF h
  <2> QED BY <2>1, <2>2
<1>8. r[0] = 1
  BY <1>7
<1>9. \A i \in 1 .. n : i \in 0 .. n /\ i # 0
  OBVIOUS
<1>10. \A i \in 1 .. n : r[i] = b * r[i - 1]
  BY <1>7, <1>9
<1>11. r \in [0 .. n -> Nat]
  <2> DEFINE U == {i \in Nat : i <= n => r[i] \in Nat}
  <2>1. 0 \in U
    BY <1>8
  <2>2. ASSUME NEW i \in Nat, i \in U PROVE i + 1 \in U
    <3> SUFFICES ASSUME i + 1 <= n PROVE r[i + 1] \in Nat
      OBVIOUS
    <3>1. i + 1 \in 1 .. n /\ (i + 1) - 1 = i /\ r[i] \in Nat
      BY <2>2
    <3> DEFINE x == r[i]
    <3>2. r[i + 1] = b * x /\ x \in Nat
      BY <1>10, <3>1
    <3> HIDE DEF x
    <3> QED BY <3>2
  <2> HIDE DEF U
  <2>3. \A i \in Nat : i \in U
    BY <2>1, <2>2, AllNats
  <2>4. \A i \in 0 .. n : r[i] \in Nat
    BY <2>3 DEF U
  <2> DEFINE h(i) == IF i = 0 THEN 1 ELSE b * r[i - 1]
  <2>5. r = [i \in 0 .. n |-> h(i)]
    BY <1>6
  <2>6. \A i \in 0 .. n : h(i) = r[i]
    BY <1>7
  <2> HIDE DEF h
  <2> QED BY <2>4, <2>5, <2>6
<1> QED BY <1>8, <1>10, <1>11 DEF r

\* A power of a positive number is positive, and no smaller than the lower ones.
LEMMA PowersGrow ==
  ASSUME NEW b \in Nat \ {0}, NEW n \in Nat
  PROVE  /\ \A i \in 0 .. n : Powers(b, n)[i] >= 1
         /\ \A i, j \in 0 .. n : i <= j => Powers(b, n)[i] <= Powers(b, n)[j]
<1> DEFINE r == Powers(b, n)
           U == {i \in Nat : i <= n => r[i] >= 1 /\ \A j \in 0 .. i : r[j] <= r[i]}
<1>1. /\ r \in [0 .. n -> Nat] /\ r[0] = 1
      /\ \A i \in 1 .. n : r[i] = b * r[i - 1]
  BY PowersFacts
<1> HIDE DEF r
<1>2. 0 \in U
  <2>1. \A j \in 0 .. 0 : j = 0
    OBVIOUS
  <2> QED BY <1>1, <2>1
<1>3. ASSUME NEW i \in Nat, i \in U PROVE i + 1 \in U
  <2> SUFFICES ASSUME i + 1 <= n
               PROVE  r[i + 1] >= 1 /\ \A j \in 0 .. i + 1 : r[j] <= r[i + 1]
    OBVIOUS
  <2>1. i \in 0 .. n /\ i + 1 \in 1 .. n /\ i + 1 \in 0 .. n /\ (i + 1) - 1 = i
    OBVIOUS
  <2>2. r[i] >= 1 /\ \A j \in 0 .. i : r[j] <= r[i]
    BY <1>3, <2>1
  <2> DEFINE x == r[i]
             y == r[i + 1]
  <2>3. x \in Nat /\ y \in Nat /\ y = b * x
    BY <1>1, <2>1
  <2>4. x <= y /\ y >= 1
    <3>1. b - 1 \in Nat /\ x >= 1
      BY <2>2
    <3> HIDE DEF x, y
    <3>2. b * x = x + (b - 1) * x /\ (b - 1) * x \in Nat
      BY <2>3, <3>1
    <3> DEFINE z == (b - 1) * x
    <3>3. y = x + z /\ z \in Nat
      BY <2>3, <3>2
    <3> HIDE DEF z
    <3> QED BY <2>3, <3>1, <3>3
  <2>5. ASSUME NEW j \in 0 .. i + 1 PROVE r[j] <= y
    <3>1. CASE j = i + 1
      BY <2>3, <3>1
    <3>2. CASE j # i + 1
      <4>1. j \in 0 .. i /\ j \in 0 .. n
        BY <2>1, <3>2
      <4>2. r[j] \in Nat /\ r[j] <= x
        BY <1>1, <2>2, <4>1
      <4> HIDE DEF x, y
      <4> QED BY <2>3, <2>4, <4>2
    <3> QED BY <3>1, <3>2
  <2> QED BY <2>4, <2>5
<1> HIDE DEF U
<1>4. \A i \in Nat : i \in U
  BY <1>2, <1>3, AllNats
<1>5. \A i \in 0 .. n : r[i] >= 1 /\ \A j \in 0 .. i : r[j] <= r[i]
  BY <1>4 DEF U
<1>6. \A i, j \in 0 .. n : i <= j => i \in 0 .. j
  OBVIOUS
<1> QED BY <1>5, <1>6 DEF r

\* The sums of the first entries of f.
Sums(f) ==
  LET sum[n \in 0 .. Len(f)] == IF n = 0 THEN 0 ELSE sum[n - 1] + f[n]
  IN sum

SumOf(f) == Sums(f)[Len(f)]

LEMMA SumsFacts ==
  ASSUME NEW f \in Seq(Nat)
  PROVE  /\ Sums(f)[0] = 0
         /\ \A n \in 0 .. Len(f) : Sums(f)[n] \in Nat
         /\ \A n \in 1 .. Len(f) : Sums(f)[n] = Sums(f)[n - 1] + f[n]
<1> DEFINE N == Len(f)
           Good(g, l) == /\ g \in [0 .. l -> Nat] /\ g[0] = 0
                         /\ \A i \in 1 .. l : g[i] = g[i - 1] + f[i]
           T == {l \in Nat : l <= N => \E g : Good(g, l)}
<1>0. N \in Nat /\ \A i \in 1 .. N : f[i] \in Nat
  OBVIOUS
<1> HIDE DEF N
<1>1. 0 \in T
  <2> DEFINE g == [i \in 0 .. 0 |-> 0]
  <2>1. Good(g, 0)
    OBVIOUS
  <2> HIDE DEF Good, g
  <2> QED BY <2>1
<1>2. ASSUME NEW l \in Nat, l \in T PROVE l + 1 \in T
  <2> SUFFICES ASSUME l + 1 <= N PROVE \E g : Good(g, l + 1)
    <3> HIDE DEF Good
    <3> QED OBVIOUS
  <2>1. PICK g : Good(g, l)
    <3>1. l <= N
      BY <1>0
    <3> HIDE DEF Good
    <3> QED BY <1>2, <3>1
  <2> DEFINE y == g[l] + f[l + 1]
             h == [i \in 0 .. l + 1 |-> IF i = l + 1 THEN y ELSE g[i]]
  <2>2. y \in Nat
    <3>1. l + 1 \in 1 .. N /\ g[l] \in Nat
      BY <1>0, <2>1
    <3> QED BY <1>0, <3>1
  <2>3. (\A i \in 0 .. l : i \in 0 .. l + 1 /\ h[i] = g[i]) /\ h[l + 1] = y
    OBVIOUS
  <2>4. h \in [0 .. l + 1 -> Nat]
    <3> HIDE DEF y
    <3>1. \A i \in 0 .. l + 1 : i # l + 1 => i \in 0 .. l
      OBVIOUS
    <3> QED BY <2>1, <2>2, <3>1
  <2> HIDE DEF h
  <2>5. \A i \in 1 .. l + 1 : h[i] = h[i - 1] + f[i]
    <3> TAKE i \in 1 .. l + 1
    <3>1. i - 1 \in 0 .. l
      OBVIOUS
    <3>2. CASE i = l + 1
      BY <2>3, <3>1, <3>2
    <3>3. CASE i # l + 1
      <4>1. i \in 1 .. l /\ i \in 0 .. l
        BY <3>3
      <4> QED BY <2>1, <2>3, <3>1, <4>1
    <3> QED BY <3>2, <3>3
  <2>6. h[0] = 0
    BY <2>1, <2>3
  <2>7. Good(h, l + 1)
    BY <2>4, <2>5, <2>6
  <2> HIDE DEF Good
  <2> QED BY <2>7
<1>3. \E g : Good(g, N)
  <2> HIDE DEF T, Good
  <2>1. N \in T
    BY <1>0, <1>1, <1>2, AllNats
  <2> QED BY <1>0, <2>1 DEF T
<1>4. PICK g : Good(g, N)
  BY <1>3
<1>5. g = [i \in 0 .. N |-> IF i = 0 THEN 0 ELSE g[i - 1] + f[i]]
  <2> DEFINE h == [i \in 0 .. N |-> IF i = 0 THEN 0 ELSE g[i - 1] + f[i]]
  <2>1. \A i \in 0 .. N : i # 0 => i \in 1 .. N
    BY <1>0
  <2>2. \A i \in 0 .. N : g[i] = h[i]
    BY <1>4, <2>1
  <2>3. g = [i \in 0 .. N |-> g[i]] /\ h = [i \in 0 .. N |-> h[i]]
    BY <1>4
  <2> HIDE DEF h
  <2>4. g = h
    BY <2>2, <2>3
  <2> QED BY <2>4 DEF h
<1> DEFINE r == Sums(f)
<1>6. r = [i \in 0 .. N |-> IF i = 0 THEN 0 ELSE r[i - 1] + f[i]]
  BY <1>5 DEF Sums, N
<1> HIDE DEF r
<1>7. \A i \in 0 .. N : r[i] = IF i = 0 THEN 0 ELSE r[i - 1] + f[i]
  <2> DEFINE h == [i \in 0 .. N |-> IF i = 0 THEN 0 ELSE r[i - 1] + f[i]]
  <2>1. r = h
    BY <1>6
  <2>2. \A i \in 0 .. N : h[i] = IF i = 0 THEN 0 ELSE r[i - 1] + f[i]
    OBVIOUS
  <2> HIDE DEF h
  <2> QED BY <2>1, <2>2
<1>8. r[0] = 0
  BY <1>0, <1>7
<1>9. \A i \in 1 .. N : i \in 0 .. N /\ i # 0
  BY <1>0
<1>10. \A i \in 1 .. N : r[i] = r[i - 1] + f[i]
  BY <1>7, <1>9
<1>11. \A i \in 0 .. N : r[i] \in Nat
  <2> DEFINE U == {i \in Nat : i <= N => r[i] \in Nat}
  <2>1. 0 \in U
    BY <1>8
  <2>2. ASSUME NEW i \in Nat, i \in U PROVE i + 1 \in U
    <3> SUFFICES ASSUME i + 1 <= N PROVE r[i + 1] \in Nat
      OBVIOUS
    <3>1. i + 1 \in 1 .. N /\ (i + 1) - 1 = i /\ r[i] \in Nat
      BY <1>0, <2>2
    <3>2. r[i + 1] = r[i] + f[i + 1] /\ f[i + 1] \in Nat
      BY <1>0, <1>10, <3>1
    <3> QED BY <3>1, <3>2
  <2> HIDE DEF U
  <2>3. \A i \in Nat : i \in U
    BY <2>1, <2>2, AllNats
  <2> QED BY <1>0, <2>3 DEF U
<1> QED BY <1>8, <1>10, <1>11 DEF r, N

\* h is f with g behind it.
Joined(h, f, g) ==
  /\ Len(h) = Len(f) + Len(g)
  /\ \A i \in 1 .. Len(f) : h[i] = f[i]
  /\ \A i \in 1 .. Len(g) : h[Len(f) + i] = g[i]

LEMMA SumJoined ==
  ASSUME NEW f \in Seq(Nat), NEW g \in Seq(Nat), NEW h \in Seq(Nat), Joined(h, f, g)
  PROVE  SumOf(h) = SumOf(f) + SumOf(g)
<1> DEFINE M == Len(f)
           N == Len(g)
           F == Sums(f)
           G == Sums(g)
           H == Sums(h)
<1>1. /\ M \in Nat /\ N \in Nat /\ Len(h) = M + N
      /\ \A i \in 1 .. M : h[i] = f[i] /\ f[i] \in Nat
      /\ \A i \in 1 .. N : h[M + i] = g[i] /\ g[i] \in Nat
  <2>1. M \in Nat /\ \A i \in 1 .. M : f[i] \in Nat
    OBVIOUS
  <2>2. N \in Nat /\ \A i \in 1 .. N : g[i] \in Nat
    OBVIOUS
  <2>3. /\ Len(h) = M + N
        /\ \A i \in 1 .. M : h[i] = f[i]
        /\ \A i \in 1 .. N : h[M + i] = g[i]
    BY Zenon DEF Joined
  <2> HIDE DEF M, N
  <2> QED BY <2>1, <2>2, <2>3
<1>2. /\ F[0] = 0 /\ \A n \in 0 .. M : F[n] \in Nat
      /\ \A n \in 1 .. M : F[n] = F[n - 1] + f[n]
  BY SumsFacts
<1>3. /\ G[0] = 0 /\ \A n \in 0 .. N : G[n] \in Nat
      /\ \A n \in 1 .. N : G[n] = G[n - 1] + g[n]
  BY SumsFacts
<1>4. /\ H[0] = 0
      /\ \A n \in 1 .. M + N : H[n] = H[n - 1] + h[n]
  BY <1>1, SumsFacts
<1>5. SumOf(f) = F[M] /\ SumOf(g) = G[N] /\ SumOf(h) = H[M + N]
  BY <1>1 DEF SumOf
<1> HIDE DEF M, N, F, G, H
<1>6. H[M] = F[M]
  <2> DEFINE U == {i \in Nat : i <= M => H[i] = F[i]}
  <2>1. 0 \in U
    BY <1>2, <1>4
  <2>2. ASSUME NEW i \in Nat, i \in U PROVE i + 1 \in U
    <3> SUFFICES ASSUME i + 1 <= M PROVE H[i + 1] = F[i + 1]
      OBVIOUS
    <3>1. /\ i + 1 \in 1 .. M /\ i + 1 \in 1 .. M + N /\ (i + 1) - 1 = i
          /\ H[i] = F[i]
      BY <1>1, <2>2
    <3> QED BY <1>1, <1>2, <1>4, <3>1
  <2> HIDE DEF U
  <2>3. M \in U
    BY <1>1, <2>1, <2>2, AllNats
  <2> QED BY <1>1, <2>3 DEF U
<1>7. H[M + N] = F[M] + G[N]
  <2> DEFINE U == {i \in Nat : i <= N => H[M + i] = F[M] + G[i]}
  <2>0. F[M] \in Nat
    BY <1>1, <1>2
  <2>1. 0 \in U
    <3>1. M + 0 = M /\ F[M] + 0 = F[M]
      BY <1>1, <2>0
    <3> QED BY <1>3, <1>6, <3>1
  <2>2. ASSUME NEW i \in Nat, i \in U PROVE i + 1 \in U
    <3> SUFFICES ASSUME i + 1 <= N PROVE H[M + (i + 1)] = F[M] + G[i + 1]
      OBVIOUS
    <3>1. /\ i + 1 \in 1 .. N /\ M + (i + 1) \in 1 .. M + N
          /\ (i + 1) - 1 = i /\ (M + (i + 1)) - 1 = M + i
          /\ i \in 0 .. N /\ H[M + i] = F[M] + G[i]
      BY <1>1, <2>2
    <3>2. H[M + (i + 1)] = H[M + i] + h[M + (i + 1)]
      BY <1>4, <3>1
    <3>3. h[M + (i + 1)] = g[i + 1] /\ g[i + 1] \in Nat /\ G[i] \in Nat
      BY <1>1, <1>3, <3>1
    <3>4. G[i + 1] = G[i] + g[i + 1]
      BY <1>3, <3>1
    <3> DEFINE x == F[M]
               y == G[i]
               z == g[i + 1]
    <3>5. H[M + (i + 1)] = (x + y) + z
      BY <3>1, <3>2, <3>3
    <3>6. G[i + 1] = y + z
      BY <3>4
    <3>7. x \in Nat /\ y \in Nat /\ z \in Nat
      BY <2>0, <3>3
    <3> HIDE DEF x, y, z
    <3>8. (x + y) + z = x + (y + z)
      BY ONLY <3>7
    <3>9. H[M + (i + 1)] = x + G[i + 1]
      BY ONLY <3>5, <3>6, <3>8
    <3> QED BY <3>9 DEF x
  <2> HIDE DEF U
  <2>3. N \in U
    BY <1>1, <2>1, <2>2, AllNats
  <2> QED BY <1>1, <2>3 DEF U
<1> QED BY <1>5, <1>7

LEMMA SumFew ==
  /\ SumOf(<<>>) = 0
  /\ \A x \in Nat : SumOf(<<x>>) = x
<1>1. SumOf(<<>>) = 0
  <2>1. <<>> \in Seq(Nat) /\ Len(<<>>) = 0
    OBVIOUS
  <2> QED BY <2>1, SumsFacts DEF SumOf
<1>2. ASSUME NEW x \in Nat PROVE SumOf(<<x>>) = x
  <2> DEFINE f == <<x>>
  <2>1. f \in Seq(Nat) /\ Len(f) = 1 /\ f[1] = x /\ 1 \in 1 .. Len(f)
    OBVIOUS
  <2> HIDE DEF f
  <2>2. Sums(f)[0] = 0 /\ Sums(f)[1] = Sums(f)[1 - 1] + f[1]
    BY <2>1, SumsFacts
  <2>3. Sums(f)[1] = x
    BY <2>1, <2>2
  <2> QED BY <2>1, <2>3 DEF SumOf, f
<1> QED BY <1>1, <1>2

LEMMA SumBound ==
  ASSUME NEW f \in Seq(Nat), NEW w \in Nat, \A i \in 1 .. Len(f) : f[i] <= w
  PROVE  SumOf(f) \in Nat /\ SumOf(f) <= Len(f) * w
<1> DEFINE N == Len(f)
           F == Sums(f)
           U == {n \in Nat : n <= N => F[n] <= n * w}
<1>1. N \in Nat /\ \A i \in 1 .. N : f[i] \in Nat /\ f[i] <= w
  OBVIOUS
<1>2. /\ F[0] = 0 /\ \A n \in 0 .. N : F[n] \in Nat
      /\ \A n \in 1 .. N : F[n] = F[n - 1] + f[n]
  BY SumsFacts
<1>3. SumOf(f) = F[N]
  BY DEF SumOf
<1> HIDE DEF N, F
<1>4. 0 \in U
  BY <1>2
<1>5. ASSUME NEW n \in Nat, n \in U PROVE n + 1 \in U
  <2> SUFFICES ASSUME n + 1 <= N PROVE F[n + 1] <= (n + 1) * w
    OBVIOUS
  <2> DEFINE x == F[n]
             y == f[n + 1]
             z == n * w
  <2>1. n + 1 \in 1 .. N /\ (n + 1) - 1 = n /\ n \in 0 .. N /\ x <= z
    BY <1>1, <1>5
  <2>2. F[n + 1] = x + y /\ x \in Nat /\ y \in Nat /\ y <= w
    BY <1>1, <1>2, <2>1
  <2>3. (n + 1) * w = z + w /\ z \in Nat
    OBVIOUS
  <2> HIDE DEF x, y, z
  <2> QED BY <2>1, <2>2, <2>3
<1> HIDE DEF U
<1>6. N \in U
  BY <1>1, <1>4, <1>5, AllNats
<1>7. F[N] <= N * w /\ F[N] \in Nat
  BY <1>1, <1>2, <1>6 DEF U
<1> QED BY <1>3, <1>7 DEF N

-----------------------------------------------------------------------------
(* The run is bounded *)

\* The visits s may still count.
Unused(s, p) == Longest(p) - Cardinality(Seen(s, p))

\* What may come of s, twice: an instruction uses up a visit of s and makes of it at most
\* max_fork_depth + 1 states, and as many, and one step, is what the base leaves over.
Weight(s, su) == 2 * Powers(su.max_fork_depth + 2, Longest(su.prog))[Unused(s, su.prog)]
Most(su) == 2 * Powers(su.max_fork_depth + 2, Longest(su.prog))[Longest(su.prog)]

Weights(q, su) == [i \in DOMAIN q |-> Weight(q[i], su)]
Total(q, su) == SumOf(Weights(q, su))

\* The steps that are left, at most: a state that runs has been taken from the queue.
StepsLeft == Total(queue, setup) + IF cur = <<>> THEN 0 ELSE Weight(cur[1], setup) - 1

LEMMA SetupFacts ==
  ASSUME NEW su \in Setups
  PROVE  /\ su.prog \in Seq(Instr) /\ Len(su.prog) <= StopAt + 1
         /\ su.max_fork_depth \in Nat /\ Longest(su.prog) \in Nat
<1>1. /\ su.prog \in Seq(Instr) /\ Len(su.prog) <= StopAt + 1
      /\ su.max_fork_depth \in Nat
  BY SymxAssumption DEF Setup
<1> QED BY <1>1, LongestNat

LEMMA WeightFacts ==
  ASSUME NEW su \in Setups, NEW s \in State
  PROVE  /\ Weight(s, su) \in Nat /\ Weight(s, su) >= 2
         /\ Weight(s, su) <= Most(su) /\ Most(su) \in Nat
         /\ \A t \in State : (\A a \in 0 .. StopAt : s.visits[a] <= t.visits[a]) =>
              Weight(t, su) <= Weight(s, su)
<1> DEFINE p == su.prog
           L == Longest(p)
           b == su.max_fork_depth + 2
           P == Powers(b, L)
           C(t) == Cardinality(Seen(t, p))
<1>1. p \in Seq(Instr) /\ Len(p) <= StopAt + 1 /\ L \in Nat /\ b \in Nat \ {0}
  BY SetupFacts
<1>2. \A t \in State : C(t) \in Nat /\ C(t) <= L
  BY <1>1, SeenFacts
<1>3. \A t \in State : (\A a \in 0 .. StopAt : s.visits[a] <= t.visits[a]) => C(s) <= C(t)
  BY <1>1, SeenFacts
<1>4. \A t : Weight(t, su) = 2 * P[L - C(t)]
  BY DEF Weight, Unused
<1>5. Most(su) = 2 * P[L]
  BY DEF Most
<1>6. /\ P \in [0 .. L -> Nat]
      /\ \A i \in 0 .. L : P[i] >= 1
      /\ \A i, j \in 0 .. L : i <= j => P[i] <= P[j]
  <2> HIDE DEF L, b
  <2> QED BY <1>1, PowersFacts, PowersGrow
<1> HIDE DEF P, L, C, b
<1>7. \A t \in State : L - C(t) \in 0 .. L /\ L - C(t) <= L
  BY <1>1, <1>2
<1>8. L \in 0 .. L
  BY <1>1
<1>9. P[L - C(s)] \in Nat /\ P[L - C(s)] >= 1 /\ P[L] \in Nat /\ P[L - C(s)] <= P[L]
  BY <1>6, <1>7, <1>8
<1>10. ASSUME NEW t \in State, C(s) <= C(t) PROVE Weight(t, su) <= Weight(s, su)
  <2>1. L - C(t) <= L - C(s)
    BY <1>1, <1>2, <1>10
  <2>2. P[L - C(t)] <= P[L - C(s)] /\ P[L - C(t)] \in Nat
    BY <1>6, <1>7, <2>1
  <2> QED BY <1>4, <1>9, <2>2
<1> QED BY <1>3, <1>4, <1>5, <1>9, <1>10

\* The next instruction's states weigh as much less as there may be of them.
LEMMA WeightVisited ==
  ASSUME NEW su \in Setups, NEW s \in State,
         s.rip \in 0 .. Len(su.prog) - 1, s.visits[s.rip] < max_visits_per_rip,
         NEW t \in State, t.visits = Visited(s).visits
  PROVE  Weight(s, su) = (su.max_fork_depth + 2) * Weight(t, su)
<1> DEFINE p == su.prog
           L == Longest(p)
           b == su.max_fork_depth + 2
           P == Powers(b, L)
           c == Cardinality(Seen(s, p))
<1>1. p \in Seq(Instr) /\ Len(p) <= StopAt + 1 /\ L \in Nat /\ b \in Nat
  BY SetupFacts
<1>2. Cardinality(Seen(Visited(s), p)) = c + 1 /\ c \in 0 .. L - 1
  BY <1>1, SeenVisit
<1>3. Seen(t, p) = Seen(Visited(s), p)
  BY DEF Seen
<1>4. Weight(s, su) = 2 * P[L - c] /\ Weight(t, su) = 2 * P[L - (c + 1)]
  BY <1>2, <1>3 DEF Weight, Unused
<1>5. /\ P \in [0 .. L -> Nat]
      /\ \A i \in 1 .. L : P[i] = b * P[i - 1]
  <2> HIDE DEF L, b
  <2> QED BY <1>1, PowersFacts
<1> HIDE DEF P, L, c, b
<1>6. L - c \in 1 .. L /\ (L - c) - 1 = L - (c + 1) /\ L - (c + 1) \in 0 .. L
  BY <1>1, <1>2
<1> DEFINE x == P[L - (c + 1)]
<1>7. x \in Nat /\ P[L - c] = b * x
  BY <1>5, <1>6
<1> HIDE DEF x
<1>8. 2 * (b * x) = b * (2 * x)
  BY <1>1, <1>7
<1> QED BY <1>4, <1>7, <1>8 DEF b, x

LEMMA WeightsFacts ==
  ASSUME NEW su \in Setups, NEW q \in Seq(State)
  PROVE  /\ Weights(q, su) \in Seq(Nat) /\ Len(Weights(q, su)) = Len(q)
         /\ \A i \in 1 .. Len(q) : Weights(q, su)[i] = Weight(q[i], su)
<1> DEFINE N == Len(q)
           w == [i \in 1 .. N |-> Weight(q[i], su)]
<1>1. N \in Nat /\ DOMAIN q = 1 .. N /\ \A i \in 1 .. N : q[i] \in State
  OBVIOUS
<1>2. Weights(q, su) = w
  BY <1>1 DEF Weights
<1> HIDE DEF N
<1>3. w \in [1 .. N -> Nat]
  BY <1>1, WeightFacts
<1>4. \A i \in 1 .. N : w[i] = Weight(q[i], su)
  OBVIOUS
<1> HIDE DEF w
<1>5. w \in Seq(Nat) /\ Len(w) = N
  BY <1>1, <1>3
<1> QED BY <1>2, <1>4, <1>5 DEF N

LEMMA TotalFacts ==
  ASSUME NEW su \in Setups, NEW q \in Seq(State)
  PROVE  /\ Total(q, su) \in Nat
         /\ \A w \in Nat : (\A i \in DOMAIN q : Weight(q[i], su) <= w) =>
              Total(q, su) <= Len(q) * w
<1> DEFINE f == Weights(q, su)
           N == Len(q)
<1>1. f \in Seq(Nat) /\ Len(f) = N /\ \A i \in 1 .. N : f[i] = Weight(q[i], su)
  BY WeightsFacts
<1>2. N \in Nat /\ DOMAIN q = 1 .. N
  OBVIOUS
<1>3. Total(q, su) = SumOf(f)
  BY DEF Total
<1> HIDE DEF f, N
<1>4. Total(q, su) \in Nat
  BY <1>1, <1>2, <1>3, SumsFacts DEF SumOf
<1>5. ASSUME NEW w \in Nat, \A i \in DOMAIN q : Weight(q[i], su) <= w
      PROVE  Total(q, su) <= N * w
  <2>1. \A i \in 1 .. Len(f) : f[i] <= w
    BY <1>1, <1>2, <1>5
  <2> QED BY <1>1, <1>3, <2>1, SumBound
<1> QED BY <1>4, <1>5 DEF N

LEMMA TotalConcat ==
  ASSUME NEW su \in Setups, NEW q \in Seq(State), NEW r \in Seq(State)
  PROVE  Total(q \o r, su) = Total(q, su) + Total(r, su)
<1> DEFINE t == q \o r
           f == Weights(q, su)
           g == Weights(r, su)
           h == Weights(t, su)
           M == Len(q)
           N == Len(r)
<1>1. /\ M \in Nat /\ N \in Nat /\ t \in Seq(State) /\ Len(t) = M + N
      /\ \A i \in 1 .. M : t[i] = q[i]
      /\ \A i \in 1 .. N : t[M + i] = r[i]
  OBVIOUS
<1> HIDE DEF t
<1>2. /\ f \in Seq(Nat) /\ Len(f) = M /\ \A i \in 1 .. M : f[i] = Weight(q[i], su)
      /\ g \in Seq(Nat) /\ Len(g) = N /\ \A i \in 1 .. N : g[i] = Weight(r[i], su)
  BY WeightsFacts
<1>3. h \in Seq(Nat) /\ Len(h) = M + N /\ \A i \in 1 .. M + N : h[i] = Weight(t[i], su)
  BY <1>1, WeightsFacts
<1> HIDE DEF f, g, h, M, N
<1>4. (\A i \in 1 .. M : i \in 1 .. M + N) /\ \A i \in 1 .. N : M + i \in 1 .. M + N
  BY <1>1
<1>5. Joined(h, f, g)
  BY <1>1, <1>2, <1>3, <1>4 DEF Joined
<1>6. SumOf(h) = SumOf(f) + SumOf(g)
  BY <1>2, <1>3, <1>5, SumJoined
<1> QED BY <1>6 DEF Total, f, g, h, t

LEMMA TotalFew ==
  ASSUME NEW su \in Setups, NEW s \in State
  PROVE  Total(<<>>, su) = 0 /\ Total(<<s>>, su) = Weight(s, su)
<1>1. Weights(<<>>, su) = <<>>
  BY DEF Weights
<1>2. Weights(<<s>>, su) = <<Weight(s, su)>>
  <2>1. DOMAIN <<s>> = 1 .. 1 /\ <<s>>[1] = s
    OBVIOUS
  <2>2. Weights(<<s>>, su) = [i \in 1 .. 1 |-> Weight(s, su)]
    BY <2>1 DEF Weights
  <2> QED BY <2>2
<1>3. Weight(s, su) \in Nat
  BY WeightFacts
<1> QED BY <1>1, <1>2, <1>3, SumFew DEF Total

LEMMA TotalEnds ==
  ASSUME NEW su \in Setups, NEW q \in Seq(State)
  PROVE  /\ \A s \in State : Total(Append(q, s), su) = Total(q, su) + Weight(s, su)
         /\ q # <<>> => Total(q, su) = Weight(Head(q), su) + Total(Tail(q), su)
<1>1. ASSUME NEW s \in State PROVE Total(Append(q, s), su) = Total(q, su) + Weight(s, su)
  <2>1. <<s>> \in Seq(State) /\ Append(q, s) = q \o <<s>>
    OBVIOUS
  <2> QED BY <2>1, TotalConcat, TotalFew
<1>2. ASSUME q # <<>> PROVE Total(q, su) = Weight(Head(q), su) + Total(Tail(q), su)
  <2>1. Head(q) \in State /\ Tail(q) \in Seq(State) /\ <<Head(q)>> \in Seq(State)
    BY <1>2
  <2>2. q = <<Head(q)>> \o Tail(q)
    BY <1>2, SMTT(40)
  <2> DEFINE h == <<Head(q)>>
             r == Tail(q)
  <2>3. Total(h \o r, su) = Total(h, su) + Total(r, su)
    BY <2>1, TotalConcat
  <2>4. Total(h, su) = Weight(Head(q), su)
    BY <2>1, TotalFew
  <2> QED BY <2>2, <2>3, <2>4
<1> QED BY <1>1, <1>2

\* Taking in partners makes neither the state nor what is left of the queue weigh more.
LEMMA MergeScanWeight ==
  ASSUME NEW su \in Setups, NEW s \in State, NEW rest \in Seq(State)
  PROVE  LET r == MergeScan(s, rest)
         IN  /\ r.s \in State /\ r.left \in Seq(State)
             /\ Weight(r.s, su) <= Weight(s, su)
             /\ Total(r.left, su) <= Total(rest, su)
<1>1. PICK f : /\ f[0] = [s |-> s, left |-> <<>>]
               /\ \A n \in 0 .. Len(rest) - 1 : f[n + 1] = Scanned(f[n], rest[n + 1])
               /\ MergeScan(s, rest) = f[Len(rest)]
  BY ScanFacts
<1> DEFINE N == Len(rest)
           Acc == [s : State, left : Seq(State)]
           S == Sums(Weights(rest, su))
           OK(n) == /\ f[n] \in Acc
                    /\ \A a \in 0 .. StopAt : s.visits[a] <= f[n].s.visits[a]
                    /\ Total(f[n].left, su) <= S[n]
           T == {n \in Nat : n <= N => OK(n)}
<1>2. N \in Nat /\ \A i \in 1 .. N : rest[i] \in State
  OBVIOUS
<1>3. /\ S[0] = 0 /\ \A n \in 0 .. N : S[n] \in Nat
      /\ \A n \in 1 .. N : S[n] = S[n - 1] + Weight(rest[n], su)
      /\ Total(rest, su) = S[N]
  <2>1. /\ Weights(rest, su) \in Seq(Nat) /\ Len(Weights(rest, su)) = N
        /\ \A i \in 1 .. N : Weights(rest, su)[i] = Weight(rest[i], su)
    BY WeightsFacts
  <2> HIDE DEF N
  <2> QED BY <2>1, SumsFacts DEF Total, SumOf
<1> HIDE DEF S
<1>4. OK(0)
  <2>1. <<>> \in Seq(State)
    OBVIOUS
  <2>2. f[0] \in Acc /\ f[0].s = s /\ f[0].left = <<>>
    BY <1>1, <2>1
  <2>3. \A a \in 0 .. StopAt : s.visits[a] <= s.visits[a]
    <3>1. s.visits \in [0 .. StopAt -> Nat]
      BY DEF State
    <3>2. \A a \in 0 .. StopAt : s.visits[a] \in Nat
      BY <3>1
    <3> QED BY <3>2
  <2>4. Total(<<>>, su) <= S[0]
    <3>1. Total(<<>>, su) = 0 /\ S[0] = 0
      BY <1>3, TotalFew
    <3> QED BY <3>1
  <2> HIDE DEF Acc
  <2> QED BY <2>2, <2>3, <2>4
<1>5. ASSUME NEW n \in Nat, n + 1 <= N, OK(n) PROVE OK(n + 1)
  <2> DEFINE acc == f[n]
             o == rest[n + 1]
             t == acc.s
             q == acc.left
  <2>1. n \in 0 .. N - 1 /\ n \in 0 .. N /\ n + 1 \in 1 .. N /\ (n + 1) - 1 = n /\ o \in State
    BY <1>2, <1>5
  <2>2. f[n + 1] = Scanned(acc, o)
    BY <1>1, <2>1
  <2>3. acc \in Acc /\ t \in State /\ q \in Seq(State)
    BY <1>5
  <2>4. (\A a \in 0 .. StopAt : s.visits[a] <= t.visits[a]) /\ Total(q, su) <= S[n]
    BY <1>5
  <2>5. /\ S[n + 1] = S[n] + Weight(o, su) /\ S[n] \in Nat /\ Weight(o, su) \in Nat
        /\ Total(q, su) \in Nat
    BY <1>3, <2>1, <2>3, WeightFacts, TotalFacts
  <2> HIDE DEF acc, o, N
  <2>6. CASE can_merge_with(t, o)
    <3> DEFINE m == merge_diamond(t, o)
    <3>1. f[n + 1] = [acc EXCEPT !.s = m]
      BY <2>2, <2>6 DEF Scanned
    <3>2. m \in State /\ \A a \in 0 .. StopAt : t.visits[a] <= m.visits[a]
      BY <2>1, <2>3, MergeFacts
    <3> HIDE DEF m
    <3>3. f[n + 1] \in Acc /\ f[n + 1].s = m /\ f[n + 1].left = q
      BY <2>3, <3>1, <3>2
    <3>4. \A a \in 0 .. StopAt : s.visits[a] <= m.visits[a]
      <4> TAKE a \in 0 .. StopAt
      <4>1. s.visits[a] \in Nat /\ t.visits[a] \in Nat /\ m.visits[a] \in Nat
        BY <2>3, <3>2 DEF State
      <4>2. s.visits[a] <= t.visits[a] /\ t.visits[a] <= m.visits[a]
        BY <2>4, <3>2
      <4> QED BY <4>1, <4>2
    <3>5. Total(q, su) <= S[n + 1]
      BY <2>4, <2>5
    <3> HIDE DEF Acc, t, q
    <3> QED BY <3>3, <3>4, <3>5
  <2>7. CASE ~can_merge_with(t, o)
    <3>1. f[n + 1] = [acc EXCEPT !.left = Append(q, o)]
      BY <2>2, <2>7 DEF Scanned
    <3>2. /\ Append(q, o) \in Seq(State)
          /\ Total(Append(q, o), su) = Total(q, su) + Weight(o, su)
      BY <2>1, <2>3, TotalEnds
    <3>3. f[n + 1] \in Acc /\ f[n + 1].s = t /\ f[n + 1].left = Append(q, o)
      BY <2>3, <3>1, <3>2
    <3>4. Total(Append(q, o), su) <= S[n + 1]
      BY <2>4, <2>5, <3>2
    <3> HIDE DEF Acc, t, q
    <3> QED BY <2>4, <3>3, <3>4
  <2> QED BY <2>6, <2>7
<1>6. 0 \in T
  <2> HIDE DEF OK
  <2> QED BY <1>4
<1>7. ASSUME NEW n \in Nat, n \in T PROVE n + 1 \in T
  <2> HIDE DEF OK, N
  <2> QED BY <1>2, <1>5, <1>7
<1>8. OK(N)
  <2> HIDE DEF T, OK, N
  <2>1. \A n \in Nat : n \in T
    BY <1>6, <1>7, AllNats
  <2> QED BY <1>2, <2>1 DEF T
<1> DEFINE r == f[N]
<1>9. /\ r.s \in State /\ r.left \in Seq(State)
      /\ \A a \in 0 .. StopAt : s.visits[a] <= r.s.visits[a]
      /\ Total(r.left, su) <= S[N]
  BY <1>8
<1> HIDE DEF r, N
<1>10. Weight(r.s, su) <= Weight(s, su)
  BY <1>9, WeightFacts
<1> QED BY <1>1, <1>3, <1>9, <1>10 DEF r, N

LEMMA StepsLeftNat ==
  ASSUME PInv
  PROVE  /\ StepsLeft \in Nat /\ Total(queue, setup) \in Nat
         /\ \A s \in State : Weight(s, setup) \in Nat /\ Weight(s, setup) >= 2
<1>1. setup \in Setups /\ queue \in Seq(State)
  BY DEF PInv, In
<1>2. /\ Total(queue, setup) \in Nat
      /\ \A s \in State : Weight(s, setup) \in Nat /\ Weight(s, setup) >= 2
  BY <1>1, TotalFacts, WeightFacts
<1>3. CASE cur = <<>>
  BY <1>2, <1>3 DEF StepsLeft
<1>4. ASSUME NEW s \in State, cur = <<s>> PROVE StepsLeft \in Nat
  <2>1. cur # <<>> /\ cur[1] = s
    BY <1>4
  <2>2. StepsLeft = Total(queue, setup) + (Weight(s, setup) - 1)
    BY <2>1 DEF StepsLeft
  <2> QED BY <1>2, <2>2
<1> QED BY <1>2, <1>3, <1>4 DEF PInv, In

LEMMA PopFalls == ASSUME PInv, PopState PROVE StepsLeft' \in Nat /\ StepsLeft' < StepsLeft
<1> DEFINE h == Head(queue)
           rest == Tail(queue)
           r == IF setup.enable_merging /\ ~setup.block THEN MergeScan(h, rest)
                ELSE [s |-> h, left |-> rest]
<1>1. /\ setup \in Setups /\ queue \in Seq(State) /\ queue # <<>> /\ cur = <<>>
      /\ cur' = <<r.s>> /\ queue' = r.left /\ setup' = setup
  BY DEF PInv, In, PopState
<1>2. h \in State /\ rest \in Seq(State)
  BY <1>1
<1>3. Total(queue, setup) = Weight(h, setup) + Total(rest, setup)
  BY <1>1, TotalEnds
<1> HIDE DEF h, rest
<1>4. /\ r.s \in State /\ r.left \in Seq(State)
      /\ Weight(r.s, setup) <= Weight(h, setup)
      /\ Total(r.left, setup) <= Total(rest, setup)
  <2>1. CASE setup.enable_merging /\ ~setup.block
    <3>1. r = MergeScan(h, rest)
      BY <2>1
    <3> HIDE DEF r
    <3> QED BY <1>1, <1>2, <3>1, MergeScanWeight
  <2>2. CASE ~(setup.enable_merging /\ ~setup.block)
    <3>1. r.s = h /\ r.left = rest
      BY <2>2
    <3>2. Weight(h, setup) \in Nat /\ Total(rest, setup) \in Nat
      BY <1>1, <1>2, WeightFacts, TotalFacts
    <3> HIDE DEF r
    <3> QED BY <1>2, <3>1, <3>2
  <2> QED BY <2>1, <2>2
<1> HIDE DEF r
<1>5. /\ Weight(r.s, setup) \in Nat /\ Weight(r.s, setup) >= 2 /\ Weight(h, setup) \in Nat
      /\ Total(r.left, setup) \in Nat /\ Total(rest, setup) \in Nat
  BY <1>1, <1>2, <1>4, WeightFacts, TotalFacts
<1>6. StepsLeft = Weight(h, setup) + Total(rest, setup)
  BY <1>1, <1>3, <1>5 DEF StepsLeft
<1>7. StepsLeft' = Total(r.left, setup) + (Weight(r.s, setup) - 1)
  <2>1. cur' # <<>> /\ cur'[1] = r.s
    BY <1>1
  <2> QED BY <1>1, <2>1 DEF StepsLeft
<1> QED BY <1>4, <1>5, <1>6, <1>7

\* A path that ends, either way, leaves what it had left.
LEMMA EndFalls ==
  ASSUME PInv, cur # <<>>, cur' = <<>>, queue' = queue, setup' = setup
  PROVE  StepsLeft' \in Nat /\ StepsLeft' < StepsLeft
<1>1. PICK s \in State : cur = <<s>>
  BY DEF PInv, In
<1>2. cur[1] = s
  BY <1>1
<1>3. Total(queue, setup) \in Nat /\ Weight(s, setup) \in Nat /\ Weight(s, setup) >= 2
  BY StepsLeftNat
<1>4. StepsLeft = Total(queue, setup) + (Weight(s, setup) - 1)
  BY <1>2 DEF StepsLeft
<1>5. StepsLeft' = Total(queue, setup) + 0
  BY DEF StepsLeft
<1> QED BY <1>3, <1>4, <1>5

LEMMA ExecuteFalls == ASSUME PInv, Execute PROVE StepsLeft' \in Nat /\ StepsLeft' < StepsLeft
<1> DEFINE su == setup
<1>1. PICK s, o :
           /\ s \in State /\ cur = <<s>> /\ s.rip \in 0 .. Len(su.prog) - 1
           /\ s.visits[s.rip] < max_visits_per_rip
           /\ Applied(o, Visited(s), su.prog[s.rip + 1], su.prog)
           /\ Capped(o, Visited(s))
           /\ \/ o.next = <<>> /\ cur' = <<>>
              \/ \E t \in State : o.next = <<t>> /\ cur' = <<Advance(t, s.rip)>>
           /\ queue' = IF su.block THEN queue ELSE queue \o o.forks
  BY ExecuteFacts
<1>2. su \in Setups /\ queue \in Seq(State) /\ su' = su
  BY DEF PInv, In, Execute
<1> DEFINE F == su.max_fork_depth
           W == Weight(s, su)
           U == Weight(Visited(s), su)
           Q == Total(queue, su)
<1>3. F \in Nat /\ W \in Nat /\ U \in Nat /\ U >= 2 /\ Q \in Nat
  BY <1>1, <1>2, SetupFacts, VisitedFacts, StepsLeftNat
<1>4. ASSUME NEW t \in State, t.visits = Visited(s).visits
      PROVE  Weight(t, su) = U
  <2>1. Seen(t, su.prog) = Seen(Visited(s), su.prog)
    BY <1>4 DEF Seen
  <2> QED BY <2>1 DEF Weight, Unused
<1>5. W = F * U + 2 * U /\ F * U \in Nat
  <2>1. W = (F + 2) * U
    BY <1>1, <1>2, VisitedFacts, WeightVisited
  <2> HIDE DEF F, W, U
  <2>2. (F + 2) * U = F * U + 2 * U /\ F * U \in Nat
    BY <1>3
  <2> QED BY <2>1, <2>2
<1>6. StepsLeft = Q + (W - 1)
  <2>1. cur # <<>> /\ cur[1] = s
    BY <1>1
  <2> QED BY <2>1 DEF StepsLeft
<1>7. Total(queue', su) \in Nat /\ Total(queue', su) <= Q + F * U
  <2>1. CASE su.block
    <3>1. Total(queue', su) = Q
      BY <1>1, <2>1
    <3> HIDE DEF F, U, Q, su
    <3> QED BY <1>3, <1>5, <3>1
  <2>2. CASE ~su.block
    <3> DEFINE r == o.forks
               n == Len(r)
               R == Total(r, su)
    <3>1. r \in Seq(State) /\ n <= F
      BY <1>1 DEF Applied, Splits, Capped
    <3>2. \A j \in DOMAIN r : Weight(r[j], su) <= U
      <4> TAKE j \in DOMAIN r
      <4>1. r[j] \in State /\ r[j].visits = Visited(s).visits
        BY <1>1, SameVisits
      <4>2. Weight(r[j], su) = U
        BY <1>4, <4>1
      <4> QED BY <1>3, <4>2
    <3>3. R \in Nat /\ R <= n * U
      <4> HIDE DEF U
      <4> QED BY <1>2, <1>3, <3>1, <3>2, TotalFacts
    <3>4. Total(queue', su) = Q + R
      <4>1. queue' = queue \o r
        BY <1>1, <2>2
      <4> QED BY <1>2, <3>1, <4>1, TotalConcat
    <3>5. n \in Nat
      BY <3>1
    <3> HIDE DEF F, U, Q, R, n, su
    <3>6. n * U <= F * U /\ n * U \in Nat
      <4>1. F - n \in Nat
        BY <1>3, <3>1, <3>5
      <4>2. F * U = n * U + (F - n) * U /\ (F - n) * U \in Nat /\ n * U \in Nat
        BY <1>3, <3>5, <4>1
      <4> DEFINE x == (F - n) * U
                 y == n * U
                 z == F * U
      <4>3. z = y + x /\ x \in Nat /\ y \in Nat
        BY <4>2
      <4> HIDE DEF x, y, z
      <4>4. y <= z /\ y \in Nat
        BY <4>3
      <4> QED BY <4>4 DEF y, z
    <3> DEFINE y == n * U
               z == F * U
    <3>7. R \in Nat /\ R <= y /\ y <= z /\ y \in Nat /\ z \in Nat
      BY <1>5, <3>3, <3>6
    <3> HIDE DEF y, z
    <3>8. Q + R \in Nat /\ Q + R <= Q + z
      BY <1>3, <3>7
    <3> QED BY <3>4, <3>8 DEF z
  <2> QED BY <2>1, <2>2
<1>8. \/ StepsLeft' = Total(queue', su) + 0
      \/ StepsLeft' = Total(queue', su) + (U - 1)
  <2>1. CASE cur' = <<>>
    BY <1>2, <2>1 DEF StepsLeft
  <2>2. ASSUME NEW t \in State, o.next = <<t>>, cur' = <<Advance(t, s.rip)>>
        PROVE  StepsLeft' = Total(queue', su) + (U - 1)
    <3>1. 1 \in DOMAIN o.next /\ o.next[1] = t
      BY <2>2
    <3>2. t.visits = Visited(s).visits
      BY <1>1, <3>1, SameVisits
    <3> DEFINE u == Advance(t, s.rip)
    <3>3. u \in State /\ u.visits = Visited(s).visits
      BY <3>2, AdvanceFacts, AdvanceCounts
    <3> HIDE DEF u
    <3>4. cur' # <<>> /\ cur'[1] = u
      BY <2>2 DEF u
    <3>5. Weight(u, su) = U
      BY <1>4, <3>3
    <3> HIDE DEF U
    <3> QED BY <1>2, <3>4, <3>5 DEF StepsLeft
  <2> QED BY <1>1, <2>1, <2>2
<1> DEFINE X == StepsLeft
           X1 == StepsLeft'
           Y == Total(queue', su)
           z == F * U
<1>9. /\ X = Q + (W - 1) /\ W = z + 2 * U /\ Y <= Q + z /\ Y \in Nat /\ z \in Nat
      /\ X1 = Y + 0 \/ X1 = Y + (U - 1)
  BY <1>5, <1>6, <1>7, <1>8
<1> HIDE DEF X, X1, Y, z, U, Q, W
<1>10. X1 \in Nat /\ X1 < X
  BY <1>3, <1>9
<1> QED BY <1>10 DEF X, X1

LEMMA StepFalls == ASSUME PInv, Next PROVE StepsLeft' \in Nat /\ StepsLeft' < StepsLeft
<1>1. CASE PopState
  BY <1>1, PopFalls
<1>2. CASE FinishPath
  BY <1>2, EndFalls DEF FinishPath
<1>3. CASE KillPath
  BY <1>3, EndFalls DEF KillPath, Runs
<1>4. CASE Execute
  BY <1>4, ExecuteFalls
<1> QED BY <1>1, <1>2, <1>3, <1>4 DEF Next

\* What is left never exceeds what a run starts with.
BInv == PInv /\ StepsLeft <= Most(setup)

LEMMA BInvInit == Init => BInv
<1> SUFFICES ASSUME Init PROVE BInv
  OBVIOUS
<1>1. PInv /\ setup \in Setups /\ queue = <<Seed>> /\ cur = <<>>
  BY PInvInit DEF PInv, Init
<1>2. Seed \in State
  BY SeedFacts
<1>3. Total(queue, setup) = Weight(Seed, setup)
  BY <1>1, <1>2, TotalFew
<1>4. Weight(Seed, setup) \in Nat /\ Weight(Seed, setup) <= Most(setup)
  BY <1>1, <1>2, WeightFacts
<1>5. StepsLeft = Weight(Seed, setup)
  BY <1>1, <1>3, <1>4 DEF StepsLeft
<1> QED BY <1>1, <1>4, <1>5 DEF BInv

LEMMA BInvNext == BInv /\ [Next]_vars => BInv'
<1> SUFFICES ASSUME BInv, [Next]_vars PROVE BInv'
  OBVIOUS
<1>1. PInv /\ PInv'
  BY PInvNext DEF BInv
<1>2. setup' = setup
  BY DEF Next, PopState, FinishPath, KillPath, Execute, vars
<1>3. Most(setup)' = Most(setup)
  BY <1>2
<1>4. StepsLeft \in Nat /\ Most(setup) \in Nat
  <2>1. setup \in Setups /\ Seed \in State
    BY <1>1, SeedFacts DEF PInv
  <2> QED BY <1>1, <2>1, StepsLeftNat, WeightFacts
<1>5. CASE Next
  <2>1. StepsLeft' \in Nat /\ StepsLeft' < StepsLeft
    BY <1>1, <1>5, StepFalls
  <2>2. StepsLeft' <= Most(setup)
    BY <1>4, <2>1 DEF BInv
  <2> QED BY <1>1, <1>3, <2>2 DEF BInv
<1>6. CASE UNCHANGED vars
  <2>1. StepsLeft' = StepsLeft
    BY <1>6 DEF vars, StepsLeft
  <2> QED BY <1>1, <1>3, <2>1 DEF BInv
<1> QED BY <1>5, <1>6

\* A run is over after boundedly many steps, whatever forks and merges: with every step
\* less is left, and at first no more than twice the power of max_fork_depth + 2 with one
\* factor for each visit the caps allow.
THEOREM RunIsBounded ==
  Spec => /\ [](StepsLeft \in 0 .. Most(setup))
          /\ [][StepsLeft' < StepsLeft]_vars
<1>1. BInv => StepsLeft \in 0 .. Most(setup)
  <2> SUFFICES ASSUME BInv PROVE StepsLeft \in 0 .. Most(setup)
    OBVIOUS
  <2>1. PInv /\ setup \in Setups /\ Seed \in State
    BY SeedFacts DEF BInv, PInv
  <2>2. StepsLeft \in Nat /\ Most(setup) \in Nat /\ StepsLeft <= Most(setup)
    BY <2>1, StepsLeftNat, WeightFacts DEF BInv
  <2> QED BY <2>2
<1>2. BInv /\ [Next]_vars => [StepsLeft' < StepsLeft]_vars
  <2> SUFFICES ASSUME PInv, Next PROVE StepsLeft' < StepsLeft
    BY DEF BInv
  <2> QED BY StepFalls
<1> QED BY <1>1, <1>2, BInvInit, BInvNext, PTL DEF Spec

=============================================================================

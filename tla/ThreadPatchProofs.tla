--------------------------- MODULE ThreadPatchProofs ---------------------------
(***************************************************************************)
(* Proofs about ThreadPatch, for any number of threads and any suspend     *)
(* limit above one: no thread executes a half written patch, and every     *)
(* thread is as suspended between two calls as others made it.             *)
(*                                                                         *)
(* The argument is a count.  Where nothing escapes the suspension, what    *)
(* a living thread is suspended beyond what others owe it is a function of *)
(* the patcher's progress alone: one unit from the moment the first walk   *)
(* has passed the thread until the second one has.                         *)
(***************************************************************************)
EXTENDS ThreadPatch, FiniteSetTheorems, TLAPS

\* Where the first walk is over and the second one has not started.
Held == {"s_free", "write", "write_rest", "r_alloc", "r_query", "r_grow", "r_drop"}

\* The units of suspension of w that are the patcher's.
Extra(w) ==
  IF pc \in Held \/ (pc = "s_each" /\ w \notin todo) \/ (pc = "r_each" /\ w \in todo)
    THEN 1 ELSE 0

Balanced == Covered => \A w \in Alive : susp[w] = owed[w] + Extra(w)

\* The bytes are torn between the two halves of the write and at no other time.
TornInWrite == bytes = "torn" <=> pc = "write_rest"

\* The inductive invariant.
IInv == TypeOK /\ Balanced /\ TornInWrite /\ NoTornFetch

USE DEF Labels, Places, World

-----------------------------------------------------------------------------

LEMMA InitIInv == Init => IInv
  <1> SUFFICES ASSUME Init PROVE IInv
    OBVIOUS
  <1>1. TypeOK
    <2>1. owed \in [Workers -> 0 .. 1] /\ susp \in [Workers -> 0 .. MaxSuspend]
      BY ThreadPatchAssumption DEF Init
    <2>2. at \in [Workers -> Places]
      BY DEF Init
    <2>3. room \in 0 .. MaxInfo + Slack
      BY ThreadPatchAssumption DEF Init
    <2>4. QED
      BY <2>1, <2>2, <2>3, ThreadPatchAssumption DEF Init, TypeOK
  <1>2. Balanced
    BY <1>1 DEF Init, Balanced, Extra, Held, TypeOK, Alive
  <1>3. QED
    BY <1>1, <1>2 DEF Init, IInv, TornInWrite, NoTornFetch

\* A step of the patcher that touches no thread and keeps todo moves between two
\* labels with the same balance.
LEMMA QuietIInv ==
  ASSUME IInv, UNCHANGED <<world, todo, workers>>,
         pc' \in Labels, goal' \in {"orig", "hook"}, removing' \in BOOLEAN,
         room' \in 0 .. MaxInfo + Slack, bytes' \in {"orig", "hook", "torn"}, TornInWrite',
         Covered => \A w \in Alive : Extra(w)' = Extra(w)
  PROVE  IInv'
  BY DEF IInv, TypeOK, Balanced, NoTornFetch, workers, Covered, Alive

-----------------------------------------------------------------------------
(* The patcher *)

LEMMA PatchIInv == ASSUME IInv, NEW b \in {"orig", "hook"}, Patch(b) PROVE IInv'
  BY QuietIInv DEF Patch, Goto, SectionStart, Covered, Extra, Held, IInv, TypeOK, TornInWrite, workers

LEMMA RemoveIInv == ASSUME IInv, Remove PROVE IInv'
  BY QuietIInv DEF Remove, Goto, SectionStart, Covered, Extra, Held, IInv, TypeOK, TornInWrite, workers

LEMMA InstallIInv == ASSUME IInv, Install PROVE IInv'
  BY QuietIInv DEF Install, Goto, Extra, Held, IInv, TypeOK, TornInWrite, workers

LEMMA AllocIInv ==
  ASSUME IInv, NEW from, NEW to, Alloc(from, to),
         <<from, to>> \in {<<"s_alloc", "s_query">>, <<"r_alloc", "r_query">>,
                          <<"s_grow", "s_drop">>, <<"r_grow", "r_drop">>}
  PROVE  IInv'
  BY QuietIInv DEF Alloc, Goto, Extra, Held, IInv, TypeOK, TornInWrite, workers

LEMMA FreeIInv ==
  ASSUME IInv, NEW from, NEW to, Free(from, to),
         <<from, to>> \in {<<"s_free", "write">>, <<"r_free", SectionEnd>>,
                          <<"s_drop", "s_query">>, <<"r_drop", "r_query">>,
                          <<"delete_handle", "removed">>}
  PROVE  IInv'
  BY QuietIInv DEF Free, Goto, SectionEnd, Extra, Held, IInv, TypeOK, TornInWrite, workers

LEMMA WriteIInv == ASSUME IInv, Write PROVE IInv'
  BY QuietIInv DEF Write, Goto, Extra, Held, IInv, TypeOK, TornInWrite, workers

LEMMA WriteRestIInv == ASSUME IInv, WriteRest PROVE IInv'
  BY QuietIInv DEF WriteRest, Goto, SectionEnd, Covered, Extra, Held, IInv, TypeOK,
                   TornInWrite, workers

\* The needed length plus the slack is a size the buffer may have.
LEMMA RoomType ==
  ASSUME NEW need \in 1 .. MaxInfo
  PROVE  Enlarged(need) \in 0 .. MaxInfo + Slack
  BY ThreadPatchAssumption DEF Enlarged

\* The walks start with the threads alive at the query, and none is born after it.
LEMMA QueryIInv ==
  ASSUME IInv, NEW from, NEW grow, NEW each, NEW end, Query(from, grow, each, end),
         <<from, grow, each, end>> \in {<<"s_query", "s_grow", "s_each", "s_free">>,
                                        <<"r_query", "r_grow", "r_each", "r_free">>}
  PROVE  IInv'
  <1>0. room' \in 0 .. MaxInfo + Slack
    BY RoomType, ThreadPatchAssumption DEF Query, IInv, TypeOK
  <1>1. TypeOK' /\ NoTornFetch' /\ TornInWrite'
    <2>1. todo' \subseteq Workers /\ pc' \in Labels \ {"write_rest"} /\ pc # "write_rest"
      BY DEF Query, Goto, Snapshot, Alive, IInv, TypeOK
    <2>2. QED
      BY <1>0, <2>1 DEF Query, IInv, TypeOK, TornInWrite, NoTornFetch, Covered, workers
  <1>2. Balanced'
    <2> SUFFICES ASSUME Covered', NEW w \in Alive' PROVE (susp[w] = owed[w] + Extra(w))'
      BY DEF Balanced
    <2>1. Covered /\ w \in Alive
      BY DEF Covered, Query, workers, Alive
    <2>2. \/ todo' = Alive /\ pc' = each
          \/ UNCHANGED todo /\ pc' \in {from, grow}
      BY <2>1 DEF Covered, Query, Goto, Snapshot
    <2>3. Extra(w)' = Extra(w)
      BY <2>1, <2>2 DEF Query, Extra, Held
    <2>4. QED
      BY <2>1, <2>3 DEF IInv, Balanced, Query, workers
  <1>3. QED
    BY <1>1, <1>2 DEF IInv

LEMMA WalkEndsIInv ==
  ASSUME IInv, NEW from, NEW to, WalkEnds(from, to),
         <<from, to>> \in {<<"s_each", "s_free">>, <<"r_each", "r_free">>}
  PROVE  IInv'
  <1>1. UNCHANGED todo
    BY DEF WalkEnds, Remaining
  <1>2. QED
    BY <1>1, QuietIInv DEF WalkEnds, Goto, Extra, Held, IInv, TypeOK, TornInWrite, workers

\* A thread suspended beyond what the limit allows would be resumed once too often: the
\* limit leaves room for the patcher's unit above the owed one.
LEMMA SuspendIInv == ASSUME IInv, NEW w \in Workers, Suspend(w) PROVE IInv'
  <1>1. TypeOK'
    <2>1. susp' \in [Workers -> 0 .. MaxSuspend]
      BY ThreadPatchAssumption DEF Suspend, Suspended, IInv, TypeOK
    <2>2. QED
      BY <2>1 DEF Suspend, IInv, TypeOK
  <1>2. Balanced'
    <2> SUFFICES ASSUME Covered', NEW v \in Alive' PROVE (susp[v] = owed[v] + Extra(v))'
      BY DEF Balanced
    <2>1. Covered /\ v \in Alive /\ v \in Workers
      BY DEF Covered, Suspend, Alive
    <2>2. susp[v] = owed[v] + Extra(v) /\ owed[v] \in 0 .. 1 /\ susp[v] \in 0 .. MaxSuspend
      BY <2>1 DEF IInv, Balanced, TypeOK
    <2>3. CASE v = w
      <3>1. Extra(v) = 0 /\ Extra(v)' = 1
        BY <2>3 DEF Suspend, Extra, Held
      <3>2. susp'[v] = susp[v] + 1
        BY <2>1, <2>2, <2>3, <3>1, ThreadPatchAssumption DEF Suspend, Suspended, IInv, TypeOK
      <3>3. QED
        BY <2>2, <3>1, <3>2 DEF Suspend
    <2>4. CASE v # w
      <3>1. Extra(v)' = Extra(v)
        BY <2>4 DEF Suspend, Extra, Held
      <3>2. susp'[v] = susp[v]
        BY <2>1, <2>4 DEF Suspend, IInv, TypeOK
      <3>3. QED
        BY <2>2, <3>1, <3>2 DEF Suspend
    <2>5. QED
      BY <2>3, <2>4
  <1>3. QED
    BY <1>1, <1>2 DEF Suspend, IInv, TornInWrite, NoTornFetch, Covered

LEMMA ResumeIInv == ASSUME IInv, NEW w \in Workers, Resume(w) PROVE IInv'
  <1>1. TypeOK'
    <2>1. susp' \in [Workers -> 0 .. MaxSuspend]
      BY ThreadPatchAssumption DEF Resume, Resumed, IInv, TypeOK
    <2>2. QED
      BY <2>1 DEF Resume, IInv, TypeOK
  <1>2. Balanced'
    <2> SUFFICES ASSUME Covered', NEW v \in Alive' PROVE (susp[v] = owed[v] + Extra(v))'
      BY DEF Balanced
    <2>1. Covered /\ v \in Alive /\ v \in Workers
      BY DEF Covered, Resume, Alive
    <2>2. susp[v] = owed[v] + Extra(v) /\ owed[v] \in 0 .. 1 /\ susp[v] \in 0 .. MaxSuspend
      BY <2>1 DEF IInv, Balanced, TypeOK
    <2>3. CASE v = w
      <3>1. Extra(v) = 1 /\ Extra(v)' = 0
        BY <2>3 DEF Resume, Extra, Held
      <3>2. susp'[v] = susp[v] - 1
        BY <2>1, <2>2, <2>3, <3>1 DEF Resume, Resumed, IInv, TypeOK
      <3>3. QED
        BY <2>2, <3>1, <3>2 DEF Resume
    <2>4. CASE v # w
      <3>1. Extra(v)' = Extra(v)
        BY <2>4 DEF Resume, Extra, Held
      <3>2. susp'[v] = susp[v]
        BY <2>1, <2>4 DEF Resume, IInv, TypeOK
      <3>3. QED
        BY <2>2, <3>1, <3>2 DEF Resume
    <2>5. QED
      BY <2>3, <2>4
  <1>3. QED
    BY <1>1, <1>2 DEF Resume, IInv, TornInWrite, NoTornFetch, Covered

LEMMA FreeTrampolineIInv == ASSUME IInv, FreeTrampoline PROVE IInv'
  <1>1. TypeOK' /\ TornInWrite' /\ NoTornFetch'
    BY DEF FreeTrampoline, Goto, IInv, TypeOK, TornInWrite, NoTornFetch, Covered
  <1>2. Alive' = Alive
    BY DEF FreeTrampoline, Alive, IInv, TypeOK
  <1>3. Balanced'
    BY <1>2 DEF FreeTrampoline, Goto, IInv, Balanced, Covered, Extra, Held
  <1>4. QED
    BY <1>1, <1>3 DEF IInv

-----------------------------------------------------------------------------
(* The other threads *)

\* A running thread keeps the count: it has no suspension to lose.
LEMMA MoveIInv ==
  ASSUME IInv, NEW w \in Workers, NEW from, NEW to \in Places \ {"unborn"}, Move(w, from, to),
         to = "ran_torn" => bytes = "torn"
  PROVE  IInv'
  <1>1. TypeOK' /\ TornInWrite'
    BY DEF Move, patcher, IInv, TypeOK, TornInWrite
  <1>2. Alive' \subseteq Alive
    BY DEF Move, Running, Alive, IInv, TypeOK
  <1>3. Balanced'
    BY <1>2 DEF Move, patcher, IInv, Balanced, Covered, Extra, Held
  <1>4. NoTornFetch'
    <2> SUFFICES ASSUME Covered', to = "ran_torn" PROVE FALSE
      BY DEF NoTornFetch, Move, IInv, TypeOK, Covered
    <2>1. Covered /\ pc = "write_rest"
      BY DEF Move, Covered, IInv, TornInWrite
    <2>2. w \in Alive /\ susp[w] = 0 /\ owed[w] \in 0 .. 1
      BY DEF Move, Running, IInv, TypeOK
    <2>3. susp[w] = owed[w] + 1
      BY <2>1, <2>2 DEF IInv, Balanced, Extra, Held
    <2>4. QED
      BY <2>2, <2>3
  <1>5. QED
    BY <1>1, <1>3, <1>4 DEF IInv

\* Malloc and EndMalloc.
LEMMA HeapIInv ==
  ASSUME IInv, UNCHANGED <<world, patcher, at, susp, owed>>, heap' \in Workers \cup {Nobody}
  PROVE  IInv'
  BY DEF IInv, TypeOK, TornInWrite, NoTornFetch, Balanced, Covered, Alive, Extra, Held, patcher

LEMMA SpawnIInv ==
  ASSUME IInv, NEW w \in Workers, NEW v \in Workers, NEW n \in {0, 1}, Spawn(w, v, n)
  PROVE  IInv'
  <1>1. n \in 0 .. 1 /\ n \in 0 .. MaxSuspend
    BY ThreadPatchAssumption
  <1>2. TypeOK'
    BY <1>1 DEF Spawn, patcher, IInv, TypeOK
  <1>3. QED
    BY <1>2 DEF Spawn, patcher, IInv, Balanced, TornInWrite, NoTornFetch, Covered

LEMMA LetRunIInv ==
  ASSUME IInv, NEW w \in Workers, NEW v \in Workers, LetRun(w, v)
  PROVE  IInv'
  <1>1. owed[v] = 1 /\ susp[v] \in 0 .. MaxSuspend /\ Resumed(susp[v]) \in 0 .. MaxSuspend
    <2>1. owed[v] \in 0 .. 1 /\ owed[v] > 0 /\ susp[v] \in 0 .. MaxSuspend
      BY DEF LetRun, IInv, TypeOK
    <2>2. QED
      BY <2>1, ThreadPatchAssumption DEF Resumed
  <1>2. TypeOK'
    BY <1>1 DEF LetRun, patcher, IInv, TypeOK
  <1>3. Balanced'
    <2> SUFFICES ASSUME Covered', NEW u \in Alive' PROVE (susp[u] = owed[u] + Extra(u))'
      BY DEF Balanced
    <2>1. Covered /\ u \in Alive /\ u \in Workers /\ Extra(u)' = Extra(u) /\ Extra(u) \in {0, 1}
      BY DEF Covered, LetRun, Alive, patcher, Extra, Held
    <2>2. susp[u] = owed[u] + Extra(u)
      BY <2>1 DEF IInv, Balanced
    <2>3. QED
      BY <1>1, <2>1, <2>2 DEF LetRun, Resumed, IInv, TypeOK
  <1>4. QED
    BY <1>2, <1>3 DEF LetRun, patcher, IInv, TornInWrite, NoTornFetch, Covered

LEMMA WorkerIInv == ASSUME IInv, NEW w \in Workers, Worker(w) PROVE IInv'
  <1>1. CASE CallFunction(w)
    BY <1>1, MoveIInv DEF CallFunction
  <1>2. CASE GoOn(w)
    BY <1>2, MoveIInv DEF GoOn
  <1>3. CASE LeaveDetour(w)
    BY <1>3, MoveIInv DEF LeaveDetour
  <1>4. CASE LeaveTrampoline(w)
    BY <1>4, MoveIInv DEF LeaveTrampoline
  <1>5. CASE Exit(w)
    BY <1>5, MoveIInv DEF Exit
  <1>6. CASE Malloc(w) \/ EndMalloc(w)
    BY <1>6, HeapIInv DEF Malloc, EndMalloc
  <1>7. QED
    BY <1>1, <1>2, <1>3, <1>4, <1>5, <1>6, LetRunIInv, SpawnIInv DEF Worker

LEMMA SectionIInv == ASSUME IInv, Section PROVE IInv'
  <1>1. CASE suspend_threads
    BY <1>1, AllocIInv, QueryIInv, SuspendIInv, WalkEndsIInv, FreeIInv
       DEF suspend_threads, Grow
  <1>2. CASE resume_threads
    BY <1>2, AllocIInv, QueryIInv, ResumeIInv, WalkEndsIInv, FreeIInv
       DEF resume_threads, Grow
  <1>3. QED
    BY <1>1, <1>2, WriteIInv, WriteRestIInv, FreeTrampolineIInv, FreeIInv DEF Section, DeleteHandle

LEMMA NextIInv == IInv /\ [Next]_vars => IInv'
  <1> SUFFICES ASSUME IInv, [Next]_vars PROVE IInv'
    OBVIOUS
  <1>1. CASE UNCHANGED vars
    BY <1>1 DEF vars, patcher, workers, IInv, TypeOK, TornInWrite, NoTornFetch, Balanced,
                Covered, Alive, Extra, Held
  <1>2. QED
    BY <1>1, PatchIInv, RemoveIInv, InstallIInv, SectionIInv, WorkerIInv DEF Next

LEMMA Invariance == Spec => []IInv
  BY InitIInv, NextIInv, PTL DEF Spec

-----------------------------------------------------------------------------

\* hook.hpp's promise, for any number of threads: while the patcher suspends threads
\* and nothing escapes the suspension, none fetches a half written patch.
THEOREM NoHalfPatchRuns == Spec => []NoTornFetch
  BY Invariance, PTL DEF IInv

\* Suspensions and resumptions pair up: between two calls no thread is left suspended
\* and none runs that its creator holds back.
THEOREM SuspensionsPairUp == Spec => []SuspensionsBalanced
  <1>1. IInv => SuspensionsBalanced
    <2> SUFFICES ASSUME IInv, Covered, NEW w \in Alive
                 PROVE  /\ susp[w] >= owed[w]
                        /\ pc \in {"idle", "removed"} => susp[w] = owed[w]
      BY DEF SuspensionsBalanced, IInv
    <2>1. susp[w] = owed[w] + Extra(w) /\ owed[w] \in 0 .. 1
      BY DEF IInv, Balanced, TypeOK, Alive
    <2>2. QED
      BY <2>1 DEF Extra, Held
  <1>2. QED
    BY <1>1, Invariance, PTL

-----------------------------------------------------------------------------
(* A section comes to its end *)

\* The labels a section still has to pass; the turns of a query loop are one of them.
Rank ==
  CASE pc = "s_alloc" -> 12 [] pc \in {"s_query", "s_grow", "s_drop"} -> 11
    [] pc = "s_each" -> 10 [] pc = "s_free" -> 9 [] pc = "write" -> 8 [] pc = "write_rest" -> 7
    [] pc = "r_alloc" -> 6 [] pc \in {"r_query", "r_grow", "r_drop"} -> 5
    [] pc = "r_each" -> 4 [] pc = "r_free" -> 3 [] pc = "free_trampoline" -> 2
    [] pc = "delete_handle" -> 1 [] pc \in {"idle", "removed"} -> 0

\* The most a buffer can become.
Top == MaxInfo + Slack

\* Steps of the loop at the current label: a walk has as many as threads left, a query
\* loop three for each byte its buffer may still grow.
Turns ==
  CASE pc \in {"s_each", "r_each"} -> Cardinality(todo)
    [] pc \in {"s_query", "r_query"} -> 3 * (Top - room)
    [] pc \in {"s_grow", "r_grow"} -> 3 * (Top - room) + 2
    [] pc \in {"s_drop", "r_drop"} -> 3 * (Top - room) + 1
    [] pc \notin {"s_each", "r_each", "s_query", "r_query", "s_grow", "r_grow",
                   "s_drop", "r_drop"} -> 0

MostTurns == Cardinality(Workers) + 3 * Top + 2

\* Steps the patcher may still take before the call returns.
SectionLeft == Rank * (MostTurns + 1) + Turns

\* Between two calls anything may start; inside one, a step is another thread's, which
\* leaves the patcher where it is, or brings the end nearer.
Advances == Resting \/ UNCHANGED patcher \/ SectionLeft' < SectionLeft

\* Where the patcher needs the heap lock, the lock is free, or its owner runs and can give
\* it back, or the owner is one the patcher has stopped, which takes a process that
\* suspends threads and whose threads allocate.
WaitsForRunning ==
  AtHeap => \/ heap = Nobody
            \/ heap \in Workers /\ Running(heap)
            \/ Stuck /\ world.thread_safe /\ world.allocates

\* Suspending is only done with thread_safe, the heap lock is only taken by threads that
\* allocate, and its owner is a living thread inside the allocator.
WaitInv ==
  /\ TypeOK
  /\ pc \notin {"idle", "removed", "write", "write_rest", "free_trampoline", "delete_handle"}
        => world.thread_safe
  /\ heap # Nobody =>
       /\ world.allocates
       /\ at[heap] = "away"
       /\ susp[heap] > 0 => world.thread_safe

LEMMA WorkersCount ==
  /\ Cardinality(Workers) \in Nat
  /\ \A S \in SUBSET Workers : IsFiniteSet(S) /\ Cardinality(S) \in Nat
                                /\ Cardinality(S) <= Cardinality(Workers)
<1>1. IsFiniteSet(Workers)
  BY ThreadPatchAssumption
<1>2. QED
  BY <1>1, FS_Subset, FS_CardinalityType

\* One label fewer outweighs any walk.
LEMMA ProductFacts ==
  ASSUME NEW r \in Nat, NEW q \in Nat, NEW k \in Nat, q < r
  PROVE  r * k \in Nat /\ q * k \in Nat /\ q * k + k <= r * k
<1>1. PICK d \in Nat : r = q + 1 + d
  <2>1. r - q - 1 \in Nat /\ r = q + 1 + (r - q - 1)
    OBVIOUS
  <2>2. QED
    BY <2>1
<1>2. r * k = q * k + k + d * k
  BY <1>1
<1>3. d * k \in Nat /\ q * k \in Nat
  BY <1>1
<1> DEFINE dk == d * k
           qk == q * k
           rk == r * k
<1>4. dk \in Nat /\ qk \in Nat /\ rk = qk + k + dk
  BY <1>2, <1>3
<1> HIDE DEF dk, qk, rk
<1>5. rk \in Nat /\ qk + k <= rk
  BY <1>4
<1>6. QED
  BY <1>4, <1>5 DEF rk, qk

LEMMA RankType == TypeOK => Rank \in Nat
BY DEF TypeOK, Rank

LEMMA TopType == Top \in Nat
BY ThreadPatchAssumption DEF Top

LEMMA TurnsType ==
  TypeOK => Turns \in Nat /\ MostTurns \in Nat /\ Turns <= MostTurns
<1> SUFFICES ASSUME TypeOK PROVE Turns \in Nat /\ MostTurns \in Nat /\ Turns <= MostTurns
  OBVIOUS
<1> DEFINE n == Cardinality(Workers)
           c == Cardinality(todo)
<1>1. n \in Nat /\ c \in Nat /\ c <= n
  BY WorkersCount DEF TypeOK
<1>2. Top \in Nat /\ room \in 0 .. Top
  BY TopType DEF TypeOK, Top
<1>3. MostTurns = n + 3 * Top + 2
  BY DEF MostTurns
<1>4. Turns \in {c, 3 * (Top - room), 3 * (Top - room) + 2, 3 * (Top - room) + 1, 0}
  BY DEF Turns
<1> HIDE DEF n, c
<1>5. QED
  BY <1>1, <1>2, <1>3, <1>4

LEMMA LeftNat == TypeOK => SectionLeft \in Nat
<1> SUFFICES ASSUME TypeOK PROVE SectionLeft \in Nat
  OBVIOUS
<1> DEFINE k == MostTurns + 1
           p == Rank * k
<1>1. Rank \in Nat /\ k \in Nat /\ Turns \in Nat
  BY RankType, TurnsType
<1>2. p \in Nat
  <2> HIDE DEF k
  <2>1. QED
    BY <1>1
<1>3. SectionLeft = p + Turns
  BY DEF SectionLeft
<1> HIDE DEF p
<1>4. QED
  BY <1>1, <1>2, <1>3

\* A step to a later label.
LEMMA LaterLabel ==
  ASSUME TypeOK, TypeOK', Rank' < Rank
  PROVE  SectionLeft' < SectionLeft
<1> DEFINE n == MostTurns
           r == Rank
           q == Rank'
           w == Turns
           v == Turns'
<1>1. n \in Nat /\ r \in Nat /\ w \in Nat
  BY RankType, TurnsType
<1>2. q \in Nat /\ v \in Nat /\ v <= n
  <2>1. q \in Nat
    BY DEF TypeOK, Rank
  <2> DEFINE c == Cardinality(todo')
             m == Cardinality(Workers)
             x == room'
  <2>2. m \in Nat /\ c \in Nat /\ c <= m
    BY WorkersCount DEF TypeOK
  <2>3. Top \in Nat /\ x \in 0 .. Top
    BY TopType DEF TypeOK, Top
  <2>4. n = m + 3 * Top + 2
    BY DEF MostTurns
  <2>5. v \in {c, 3 * (Top - x), 3 * (Top - x) + 2, 3 * (Top - x) + 1, 0}
    BY DEF Turns, Top
  <2> HIDE DEF c, m, x, v, n
  <2>6. v \in Nat /\ v <= n
    BY <2>2, <2>3, <2>4, <2>5
  <2>7. QED
    BY <2>1, <2>6
<1> DEFINE rk == r * (n + 1)
           qk == q * (n + 1)
<1>3. SectionLeft = rk + w /\ SectionLeft' = qk + v
  BY DEF SectionLeft, MostTurns, Top
<1>4. q < r /\ n + 1 \in Nat
  BY <1>1
<1> HIDE DEF n, r, q, w, v
<1>5. rk \in Nat /\ qk \in Nat /\ qk + (n + 1) <= rk
  BY <1>1, <1>2, <1>4, ProductFacts
<1> HIDE DEF rk, qk
<1>6. QED
  BY <1>1, <1>2, <1>3, <1>5

\* A step inside a loop.
LEMMA SameLabel ==
  ASSUME TypeOK, Rank' = Rank, Turns' \in Nat, Turns' < Turns
  PROVE  SectionLeft' < SectionLeft
<1> DEFINE k == Rank * (MostTurns + 1)
           t == Turns
           u == Turns'
<1>1. k \in Nat
  <2> DEFINE m == MostTurns + 1
  <2>1. Rank \in Nat /\ m \in Nat
    BY RankType, TurnsType
  <2> HIDE DEF m
  <2>2. Rank * m \in Nat
    BY <2>1
  <2>3. QED
    BY <2>2 DEF m
<1>2. SectionLeft = k + t /\ SectionLeft' = k + u
  BY DEF SectionLeft, MostTurns, Top
<1>3. t \in Nat /\ u \in Nat /\ u < t
  BY TurnsType
<1> HIDE DEF k, t, u
<1>4. QED
  BY <1>1, <1>2, <1>3

\* A turn of a walk.
LEMMA WalkTurn ==
  ASSUME TypeOK, NEW w \in todo, pc \in {"s_each", "r_each"}, pc' = pc, todo' = todo \ {w}
  PROVE  SectionLeft' < SectionLeft
<1> DEFINE c == Cardinality(todo)
<1>1. IsFiniteSet(todo) /\ c \in Nat
  BY WorkersCount DEF TypeOK
<1>2. Cardinality(todo \ {w}) = c - 1
  BY <1>1, FS_RemoveElement
<1>3. Cardinality(todo \ {w}) \in Nat
  BY WorkersCount DEF TypeOK
<1>4. Rank' = Rank /\ Turns = c /\ Turns' = Cardinality(todo \ {w})
  BY DEF Rank, Turns
<1> DEFINE d == Cardinality(todo \ {w})
<1>5. Turns = c /\ Turns' = d /\ d = c - 1 /\ d \in Nat
  BY <1>2, <1>3, <1>4
<1> HIDE DEF c, d
<1>6. Turns' \in Nat /\ Turns' < Turns
  BY <1>1, <1>5
<1>7. QED
  BY <1>4, <1>6, SameLabel

\* A turn of a query loop: each mismatch leaves a larger buffer, and none is larger than Top.
LEMMA QueryTurn ==
  ASSUME TypeOK, TypeOK', NEW from, NEW grow, NEW each, NEW end, Query(from, grow, each, end),
         <<from, grow, each, end>> \in {<<"s_query", "s_grow", "s_each", "s_free">>,
                                        <<"r_query", "r_grow", "r_each", "r_free">>}
  PROVE  SectionLeft' < SectionLeft
<1>1. CASE pc' \in {each, end}
  <2>1. Rank' < Rank
    BY <1>1 DEF Query, Rank
  <2>2. QED
    BY <2>1, LaterLabel
<1>2. CASE pc' \notin {each, end}
  <2>1. PICK need \in 1 .. MaxInfo : need > room /\ room' = Enlarged(need) /\ pc' \in {from, grow}
    BY <1>2 DEF Query, Goto
  <2>2. Rank' = Rank
    BY <2>1 DEF Query, Rank
  <2>3. Top \in Nat /\ room \in 0 .. Top /\ room' \in 0 .. Top /\ room' >= room + 1
    BY <2>1, TopType, ThreadPatchAssumption DEF TypeOK, Top, Enlarged
  <2>4. Turns = 3 * (Top - room) /\ Turns' \in {3 * (Top - room'), 3 * (Top - room') + 2}
    BY <2>1 DEF Query, Turns, Top
  <2> DEFINE x == room
             y == room'
             t == Turns
             u == Turns'
  <2>5. /\ Top \in Nat /\ x \in 0 .. Top /\ y \in 0 .. Top /\ y >= x + 1
        /\ t = 3 * (Top - x) /\ u \in {3 * (Top - y), 3 * (Top - y) + 2}
    BY <2>3, <2>4
  <2> HIDE DEF x, y, t, u
  <2>6. u \in Nat /\ u < t
    BY <2>5
  <2>7. QED
    BY <2>2, <2>6, SameLabel DEF t, u
<1>3. QED
  BY <1>1, <1>2

\* The allocation and the release of resize.
LEMMA ResizeTurn ==
  ASSUME TypeOK, UNCHANGED room,
         <<pc, pc'>> \in {<<"s_grow", "s_drop">>, <<"r_grow", "r_drop">>,
                          <<"s_drop", "s_query">>, <<"r_drop", "r_query">>}
  PROVE  SectionLeft' < SectionLeft
<1>1. Rank' = Rank
  BY DEF Rank
<1>2. Top \in Nat /\ room \in 0 .. Top
  BY TopType DEF TypeOK, Top
<1>3. \/ Turns = 3 * (Top - room) + 2 /\ Turns' = 3 * (Top - room) + 1
      \/ Turns = 3 * (Top - room) + 1 /\ Turns' = 3 * (Top - room)
  BY DEF Turns, Top
<1>4. Turns' \in Nat /\ Turns' < Turns
  BY <1>2, <1>3
<1>5. QED
  BY <1>1, <1>4, SameLabel

LEMMA SectionAdvances ==
  ASSUME TypeOK, TypeOK', Section
  PROVE  SectionLeft' < SectionLeft
<1>1. CASE \E w \in Workers : Suspend(w) \/ Resume(w)
  BY <1>1, WalkTurn DEF Suspend, Resume
<1>2. CASE Alloc("s_alloc", "s_query") \/ Alloc("r_alloc", "r_query")
  <2>1. Rank' < Rank
    BY <1>2 DEF Alloc, Goto, Rank
  <2>2. QED
    BY <2>1, LaterLabel
<1>3. CASE \/ Query("s_query", "s_grow", "s_each", "s_free")
           \/ Query("r_query", "r_grow", "r_each", "r_free")
  BY <1>3, QueryTurn
<1>4. CASE \/ Grow("s_grow", "s_drop") \/ Free("s_drop", "s_query")
           \/ Grow("r_grow", "r_drop") \/ Free("r_drop", "r_query")
  BY <1>4, ResizeTurn DEF Grow, Alloc, Free, Goto
<1>5. CASE WalkEnds("s_each", "s_free") \/ WalkEnds("r_each", "r_free")
  <2>1. Rank' < Rank
    BY <1>5 DEF WalkEnds, Goto, Rank
  <2>2. QED
    BY <2>1, LaterLabel
<1>6. CASE Free("s_free", "write") \/ Free("r_free", SectionEnd) \/ DeleteHandle
  <2>1. Rank' < Rank
    BY <1>6 DEF Free, DeleteHandle, Goto, Rank, SectionEnd
  <2>2. QED
    BY <2>1, LaterLabel
<1>7. CASE Write \/ WriteRest \/ FreeTrampoline
  <2>1. Rank' < Rank
    BY <1>7 DEF Write, WriteRest, FreeTrampoline, Goto, Rank, SectionEnd
  <2>2. QED
    BY <2>1, LaterLabel
<1>8. QED
  BY <1>1, <1>2, <1>3, <1>4, <1>5, <1>6, <1>7 DEF Section, suspend_threads, resume_threads

LEMMA WorkerKeepsPatcher ==
  ASSUME NEW w \in Workers, Worker(w)
  PROVE  UNCHANGED patcher
BY DEF Worker, CallFunction, GoOn, LeaveDetour, LeaveTrampoline, Malloc, EndMalloc, Exit,
       LetRun, Spawn, Move

LEMMA StepAdvances == TypeOK /\ TypeOK' /\ [Next]_vars => [Advances]_vars
<1> SUFFICES ASSUME TypeOK, TypeOK', Next PROVE Advances
  OBVIOUS
<1>1. CASE Section
  BY <1>1, SectionAdvances DEF Advances
<1>2. CASE \E w \in Workers : Worker(w)
  BY <1>2, WorkerKeepsPatcher DEF Advances
<1>3. CASE Remove \/ Install \/ \E b \in {"orig", "hook"} : Patch(b)
  BY <1>3 DEF Advances, Resting, Remove, Install, Patch
<1>4. QED
  BY <1>1, <1>2, <1>3 DEF Next

-----------------------------------------------------------------------------
(* What a section waits for *)

LEMMA InitWaitInv == Init => WaitInv
BY InitIInv DEF IInv, Init, WaitInv

\* A step of the patcher that touches no thread.
LEMMA QuietWaitInv ==
  ASSUME WaitInv, TypeOK', UNCHANGED <<world, workers>>,
         \/ pc' \in {"idle", "removed", "write", "write_rest", "free_trampoline", "delete_handle"}
         \/ world.thread_safe
  PROVE  WaitInv'
BY DEF WaitInv, workers

LEMMA SectionWaitInv == ASSUME WaitInv, TypeOK', Section PROVE WaitInv'
<1>1. CASE suspend_threads
  <2>1. world.thread_safe
    BY <1>1 DEF suspend_threads, Alloc, Query, Grow, Suspend, WalkEnds, Free, WaitInv
  <2>2. CASE \E w \in Workers : Suspend(w)
    BY <2>1, <2>2 DEF Suspend, WaitInv
  <2>3. CASE ~\E w \in Workers : Suspend(w)
    <3>1. UNCHANGED <<world, workers>>
      BY <1>1, <2>3 DEF suspend_threads, Alloc, Query, Grow, WalkEnds, Free
    <3>2. QED
      BY <2>1, <3>1, QuietWaitInv
  <2>4. QED
    BY <2>2, <2>3
<1>2. CASE resume_threads
  <2>1. world.thread_safe
    BY <1>2 DEF resume_threads, Alloc, Query, Grow, Resume, WalkEnds, Free, WaitInv
  <2>2. CASE \E w \in Workers : Resume(w)
    BY <2>1, <2>2 DEF Resume, WaitInv
  <2>3. CASE ~\E w \in Workers : Resume(w)
    <3>1. UNCHANGED <<world, workers>>
      BY <1>2, <2>3 DEF resume_threads, Alloc, Query, Grow, WalkEnds, Free
    <3>2. QED
      BY <2>1, <3>1, QuietWaitInv
  <2>4. QED
    BY <2>2, <2>3
<1>3. CASE Write \/ WriteRest \/ DeleteHandle
  BY <1>3, QuietWaitInv DEF Write, WriteRest, DeleteHandle, Free, Goto, SectionEnd, WaitInv, workers
<1>4. CASE FreeTrampoline
  BY <1>4 DEF FreeTrampoline, Goto, WaitInv, TypeOK
<1>5. QED
  BY <1>1, <1>2, <1>3, <1>4 DEF Section

LEMMA WorkerWaitInv ==
  ASSUME WaitInv, TypeOK', NEW w \in Workers, Worker(w)
  PROVE  WaitInv'
<1>1. ASSUME NEW from, NEW to, Move(w, from, to) PROVE WaitInv'
  BY <1>1 DEF Move, patcher, WaitInv, TypeOK
<1>2. CASE CallFunction(w) \/ GoOn(w) \/ LeaveDetour(w) \/ LeaveTrampoline(w) \/ Exit(w)
  BY <1>1, <1>2 DEF CallFunction, GoOn, LeaveDetour, LeaveTrampoline, Exit
<1>3. CASE Malloc(w)
  BY <1>3, ThreadPatchAssumption DEF Malloc, Running, patcher, WaitInv, TypeOK
<1>4. CASE EndMalloc(w)
  BY <1>4 DEF EndMalloc, patcher, WaitInv
<1>5. ASSUME NEW v \in Workers, NEW n \in {0, 1}, Spawn(w, v, n) PROVE WaitInv'
  <2>1. heap # Nobody => heap # v
    BY <1>5 DEF Spawn, WaitInv
  <2>2. QED
    BY <1>5, <2>1 DEF Spawn, patcher, WaitInv, TypeOK
<1>6. ASSUME NEW v \in Workers, LetRun(w, v) PROVE WaitInv'
  <2>1. susp[v] \in Nat /\ Resumed(susp[v]) <= susp[v]
    BY DEF WaitInv, TypeOK, Resumed
  <2>2. heap # Nobody => (susp'[heap] > 0 => susp[heap] > 0)
    BY <1>6, <2>1 DEF LetRun, WaitInv, TypeOK, Resumed
  <2>3. QED
    BY <1>6, <2>2 DEF LetRun, patcher, WaitInv
<1>7. QED
  BY <1>2, <1>3, <1>4, <1>5, <1>6 DEF Worker

LEMMA NextWaitInv == WaitInv /\ TypeOK' /\ [Next]_vars => WaitInv'
<1> SUFFICES ASSUME WaitInv, TypeOK', [Next]_vars PROVE WaitInv'
  OBVIOUS
<1>1. CASE UNCHANGED vars
  BY <1>1 DEF vars, WaitInv
<1>2. CASE Remove \/ Install \/ \E b \in {"orig", "hook"} : Patch(b)
  BY <1>2, QuietWaitInv DEF Remove, Install, Patch, Goto, SectionStart
<1>3. QED
  BY <1>1, <1>2, SectionWaitInv, WorkerWaitInv DEF Next

LEMMA WaitsFromInv == WaitInv => WaitsForRunning
<1> SUFFICES ASSUME WaitInv, AtHeap, heap # Nobody
             PROVE  \/ heap \in Workers /\ Running(heap)
                    \/ Stuck /\ world.thread_safe /\ world.allocates
  BY DEF WaitsForRunning
<1>1. heap \in Workers /\ at[heap] = "away" /\ world.allocates /\ susp[heap] \in 0 .. MaxSuspend
  BY DEF WaitInv, TypeOK
<1>2. CASE susp[heap] = 0
  BY <1>1, <1>2 DEF Running, Alive
<1>3. CASE susp[heap] # 0
  BY <1>1, <1>3 DEF Stuck, WaitInv
<1>4. QED
  BY <1>2, <1>3

\* enable, disable and remove end, for any number of threads and any lengths the system
\* asks for: inside a call a step of the patcher, each turn of a query loop included,
\* leaves it a smaller natural number of steps; no other thread's step moves it; and it
\* waits only for the heap lock, whose owner can run on, or is the thread that the
\* patcher has stopped inside the allocator.
THEOREM SectionsEnd ==
  Spec => /\ [](SectionLeft \in Nat /\ WaitsForRunning)
          /\ [][Advances]_vars
<1>1. IInv => TypeOK
  BY DEF IInv
<1>2. QED
  BY <1>1, WaitsFromInv, Invariance, InitWaitInv, NextWaitInv, StepAdvances, LeftNat, PTL DEF Spec
=============================================================================

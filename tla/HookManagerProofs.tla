-------------------------- MODULE HookManagerProofs --------------------------
(***************************************************************************)
(* Proofs about HookManager for any number of threads, contexts, functions *)
(* and detours.  The tables and the code agree whatever the callers do, as *)
(* long as they leave allow_chain off; that handles stay good, that hooks  *)
(* keep an owner and that the manager implements HookTable needs callers   *)
(* that share no handle (Disciplined).                                     *)
(***************************************************************************)
EXTENDS HookRefinement, WellFoundedInduction, TLAPS

\* The client never turns chaining on.
NoChaining == Configs \subseteq {FALSE}

-----------------------------------------------------------------------------
(* The vector hooks *)

\* push_back adds exactly the new element, and keeps the elements distinct.
LEMMA AppendFacts ==
  ASSUME NEW S, NEW s \in Seq(S), NEW x \in S, x \notin Range(s),
         \A i, j \in DOMAIN s : s[i] = s[j] => i = j
  PROVE  /\ Append(s, x) \in Seq(S)
         /\ Range(Append(s, x)) = Range(s) \cup {x}
         /\ \A i, j \in DOMAIN Append(s, x) :
              Append(s, x)[i] = Append(s, x)[j] => i = j
<1> DEFINE r == Append(s, x)
<1>1. /\ r \in Seq(S)
      /\ DOMAIN r = 1 .. Len(s) + 1
      /\ DOMAIN s = 1 .. Len(s)
      /\ Len(s) \in Nat
      /\ \A i \in 1 .. Len(s) : r[i] = s[i]
      /\ r[Len(s) + 1] = x
  OBVIOUS
<1>2. Range(r) = Range(s) \cup {x}
  BY <1>1 DEF Range
<1>3. ASSUME NEW i \in DOMAIN r, NEW j \in DOMAIN r, r[i] = r[j]
      PROVE  i = j
  <2>1. \A k \in 1 .. Len(s) : s[k] # x
    BY <1>1 DEF Range
  <2>2. QED
    BY <1>1, <1>3, <2>1
<1>4. QED
  BY <1>1, <1>2, <1>3

\* erase(it) drops exactly the element found, and keeps the rest distinct.
LEMMA EraseFacts ==
  ASSUME NEW S, NEW s \in Seq(S), NEW h \in Range(s),
         \A i, j \in DOMAIN s : s[i] = s[j] => i = j
  PROVE  /\ Erase(s, IndexOf(s, h)) \in Seq(S)
         /\ Range(Erase(s, IndexOf(s, h))) = Range(s) \ {h}
         /\ \A i, j \in DOMAIN Erase(s, IndexOf(s, h)) :
              Erase(s, IndexOf(s, h))[i] = Erase(s, IndexOf(s, h))[j] => i = j
<1> DEFINE n == IndexOf(s, h)
           r == Erase(s, n)
<1>1. /\ DOMAIN s = 1 .. Len(s)
      /\ Len(s) \in Nat
      /\ \A i \in 1 .. Len(s) : s[i] \in S
  OBVIOUS
<1>2. n \in 1 .. Len(s) /\ s[n] = h
  BY <1>1 DEF IndexOf, Range
<1>3. /\ DOMAIN r = 1 .. Len(s) - 1
      /\ Len(s) - 1 \in Nat
      /\ \A j \in 1 .. Len(s) - 1 : r[j] = IF j < n THEN s[j] ELSE s[j + 1]
  BY <1>1, <1>2 DEF Erase
<1>4. r \in Seq(S)
  <2>1. r \in [1 .. Len(s) - 1 -> S]
    BY <1>1, <1>2 DEF Erase
  <2>2. QED
    BY <1>3, <2>1
<1> HIDE DEF n, r
<1>5. Range(r) = Range(s) \ {h}
  <2>1. ASSUME NEW j \in 1 .. Len(s) - 1
        PROVE  r[j] \in Range(s) \ {h}
    BY <1>1, <1>2, <1>3 DEF Range
  <2>2. ASSUME NEW i \in 1 .. Len(s), s[i] # h
        PROVE  \E j \in 1 .. Len(s) - 1 : r[j] = s[i]
    <3>1. CASE i < n
      BY <1>1, <1>2, <1>3, <3>1
    <3>2. CASE i > n
      <4>1. i - 1 \in 1 .. Len(s) - 1 /\ ~(i - 1 < n) /\ (i - 1) + 1 = i
        BY <1>1, <1>2, <3>2
      <4>2. QED
        BY <1>3, <4>1
    <3>3. QED
      BY <1>1, <1>2, <2>2, <3>1, <3>2
  <2>3. Range(r) \subseteq Range(s) \ {h}
    BY <1>3, <2>1 DEF Range
  <2>4. ASSUME NEW x \in Range(s) \ {h}
        PROVE  x \in Range(r)
    <3>1. PICK i \in 1 .. Len(s) : s[i] = x
      BY <1>1 DEF Range
    <3>2. PICK j \in 1 .. Len(s) - 1 : r[j] = x
      BY <2>2, <3>1
    <3>3. QED
      BY <1>3, <3>2 DEF Range
  <2>5. QED
    BY <2>3, <2>4
<1>6. ASSUME NEW i \in DOMAIN r, NEW j \in DOMAIN r, r[i] = r[j]
      PROVE  i = j
  BY <1>1, <1>2, <1>3, <1>6
<1>7. QED
  BY <1>4, <1>5, <1>6 DEF n, r

\* Last picks the greatest of a non-empty set of positions: there is one,
\* because the sequence is finite.
LEMMA LastType ==
  ASSUME NEW S, NEW s \in Seq(S), NEW P \in SUBSET (1 .. Len(s)), P # {}
  PROVE  Last(P) \in P
<1>1. Len(s) \in Nat
  OBVIOUS
<1> DEFINE n == Len(s)
           M == {n - i : i \in P}
           R == OpToRel(<, Nat)
<1>2. M \subseteq Nat /\ M # {}
  <2>1. ASSUME NEW i \in P
        PROVE  n - i \in Nat
    <3>1. i \in 1 .. n
      OBVIOUS
    <3> HIDE DEF n
    <3>2. QED
      BY <1>1, <3>1 DEF n
  <2>2. QED
    BY <2>1
<1>3. PICK m \in M : \A k \in M : ~(<<k, m>> \in R)
  <2>1. IsWellFoundedOn(R, Nat)
    BY NatLessThanWellFounded
  <2> HIDE DEF M, R
  <2>2. QED
    BY <1>2, <2>1, WFMin
<1>4. \A k \in M : ~(k < m)
  BY <1>2, <1>3 DEF OpToRel
<1>5. PICK i \in P : m = n - i
  BY <1>3
<1>6. \A j \in P : j <= i
  <2>1. \A j \in P : ~(n - j < n - i)
    BY <1>4, <1>5
  <2>2. QED
    BY <1>1, <2>1
<1>7. QED
  BY <1>5, <1>6 DEF Last

-----------------------------------------------------------------------------
(* Types *)

LEMMA IdleType == Idle \in Frame
BY HookConstants DEF Idle, Frame, Labels, Callers

\* The bytes a hook writes are among the codes an address can have.
LEMMA CodeType ==
  /\ Orig \in Code
  /\ \A a \in Addr, d \in Detour : HookCode(a, d) \in Code
BY DEF Code, HookCode

\* Following stubs stays inside the set of addresses.
LEMMA ResolveType ==
  ASSUME TypeOK, NEW a \in Addr
  PROVE  resolve_forwarding_stub(a) \in Addr
<1>1. \A b \in Addr : FollowStub(b) \in Addr
  <2>1. \A b \in Addr : Jmp(b) \in Addr \cup {NoAddr}
    BY HookConstants DEF TypeOK, Jmp, Code
  <2>2. QED
    BY <2>1 DEF FollowStub
<1>2. QED
  BY <1>1 DEF resolve_forwarding_stub

LEMMA GotoType ==
  ASSUME TypeOK, NEW t \in Threads, NEW f \in Frame, Goto(t, f)
  PROVE  call' \in [Threads -> Frame]
BY DEF TypeOK, Goto

LEMMA JumpType ==
  ASSUME TypeOK, NEW t \in Threads, NEW pc \in Labels, Jump(t, pc)
  PROVE  call' \in [Threads -> Frame]
<1>1. [call[t] EXCEPT !.pc = pc] \in Frame
  BY DEF TypeOK, Frame
<1>2. call' = [call EXCEPT ![t] = [call[t] EXCEPT !.pc = pc]]
  BY DEF TypeOK, Jump
<1>3. QED
  BY <1>1, <1>2 DEF TypeOK

LEMMA ReturnType ==
  ASSUME TypeOK, NEW t \in Threads, Return(t)
  PROVE  call' \in [Threads -> Frame]
BY IdleType, GotoType DEF Return

LEMMA ForgetType ==
  ASSUME TypeOK, NEW t \in Threads, NEW S, Forget(t, S) \/ ForgetAll
  PROVE  owned' \in [Threads -> SUBSET Ctx]
BY DEF TypeOK, Forget, ForgetAll

LEMMA InstallFrameType ==
  ASSUME TypeOK, NEW f \in Frame, NEW fn \in Addr, NEW d \in Detour
  PROVE  InstallFrame(f, fn, d) \in Frame
<1>1. resolve_forwarding_stub(fn) \in Addr
  BY ResolveType
<1>2. QED
  BY <1>1 DEF InstallFrame, Frame, Labels

LEMMA UseAfterFreeType ==
  ASSUME TypeOK, UseAfterFree
  PROVE  TypeOK'
BY DEF TypeOK, UseAfterFree, tables

\* A step that only moves a thread and, maybe, takes handles from it.
LEMMA ControlType ==
  ASSUME TypeOK, call' \in [Threads -> Frame],
         owned' \in [Threads -> SUBSET Ctx], UNCHANGED <<tables, undefined>>
  PROVE  TypeOK'
BY DEF TypeOK, tables

LEMMA InitType == Init => TypeOK
<1> SUFFICES ASSUME Init
             PROVE  TypeOK
  OBVIOUS
<1>1. Idle.det \in Detour
  BY IdleType DEF Frame
<1>2. ctx \in [Ctx -> Context]
  BY HookConstants, CodeType, <1>1 DEF Init, Context
<1>3. hooks \in Seq(Ctx)
  BY DEF Init
<1>4. QED
  BY HookConstants, CodeType, IdleType, <1>2, <1>3 DEF Init, TypeOK

LEMMA StartType ==
  ASSUME TypeOK, NEW t \in Threads, Start(t)
  PROVE  TypeOK'
<1>1. ASSUME NEW c \in Configs, Initialize(t, c) \/ SetConfig(t, c)
      PROVE  TypeOK'
  BY <1>1, HookConstants DEF TypeOK, Initialize, SetConfig
<1>2. ASSUME NEW fn \in Addr, NEW d \in Detour, InstallCheck(t, fn, d)
      PROVE  TypeOK'
  <2>1. call' \in [Threads -> Frame]
    BY <1>2, IdleType, InstallFrameType, GotoType DEF InstallCheck
  <2>2. QED
    BY <1>2, <2>1, ControlType DEF InstallCheck, TypeOK
<1>3. ASSUME NEW h \in Ctx,
             RemoveCheck(t, h) \/ EnableCheck(t, h) \/ DisableCheck(t, h)
      PROVE  TypeOK'
  <2>1. CASE UseAfterFree
    BY <2>1, UseAfterFreeType
  <2>2. CASE ~UseAfterFree
    <3>1. \A pc \in Labels : [Idle EXCEPT !.pc = pc, !.h = h] \in Frame
      BY IdleType DEF Frame
    <3>2. call' \in [Threads -> Frame]
      BY <1>3, <2>2, <3>1, GotoType
         DEF RemoveCheck, EnableCheck, DisableCheck, Labels
    <3>3. owned' \in [Threads -> SUBSET Ctx]
      BY <1>3, <2>2, ForgetType DEF RemoveCheck, EnableCheck, DisableCheck, TypeOK
    <3>4. QED
      BY <1>3, <2>2, <3>2, <3>3, ControlType
         DEF RemoveCheck, EnableCheck, DisableCheck, tables
  <2>3. QED
    BY <2>1, <2>2
<1>4. ASSUME NEW pc \in {"enable_all", "disable_all"}, AllCheck(t, pc)
      PROVE  TypeOK'
  <2>1. [Idle EXCEPT !.pc = pc] \in Frame
    BY IdleType DEF Frame, Labels
  <2>2. call' \in [Threads -> Frame]
    BY <1>4, <2>1, GotoType DEF AllCheck
  <2>3. QED
    BY <1>4, <2>2, ControlType DEF AllCheck, TypeOK
<1>5. ASSUME RemoveAllCall(t) \/ ShutdownCall(t)
      PROVE  TypeOK'
  <2>1. \A pc \in Labels, c \in Callers :
          [Idle EXCEPT !.pc = pc, !.caller = c] \in Frame
    BY IdleType DEF Frame
  <2>2. call' \in [Threads -> Frame]
    BY <1>5, <2>1, GotoType DEF RemoveAllCall, ShutdownCall, Labels, Callers
  <2>3. owned' \in [Threads -> SUBSET Ctx]
    BY <1>5, ForgetType DEF RemoveAllCall, ShutdownCall
  <2>4. QED
    BY <1>5, <2>2, <2>3, ControlType DEF RemoveAllCall, ShutdownCall
<1>6. ASSUME NEW batch \in Batches, InstallAllCall(t, batch)
      PROVE  TypeOK'
  <2>1. [Idle EXCEPT !.pc = "install_next", !.caller = "install_all",
                     !.rest = batch] \in Frame
    BY IdleType, HookConstants DEF Frame, Labels, Callers
  <2>2. call' \in [Threads -> Frame]
    BY <1>6, <2>1, GotoType DEF InstallAllCall
  <2>3. QED
    BY <1>6, <2>2, ControlType DEF InstallAllCall, TypeOK
<1>7. QED
  BY <1>1, <1>2, <1>3, <1>4, <1>5, <1>6 DEF Start

LEMMA ProceedType ==
  ASSUME TypeOK, NEW t \in Threads, Proceed(t)
  PROVE  TypeOK'
<1> DEFINE f == call[t]
<1>0. f \in Frame
  BY DEF TypeOK
<1>1. CASE InstallFails(t)
  <2>1. call' \in [Threads -> Frame]
    BY <1>1, JumpType, ReturnType DEF InstallFails, Labels
  <2>2. owned' \in [Threads -> SUBSET Ctx]
    BY <1>1, ForgetType DEF InstallFails, TypeOK
  <2>3. QED
    BY <1>1, <2>1, <2>2, ControlType DEF InstallFails
<1>2. ASSUME NEW h \in Ctx, InstallSucceeds(t, h)
      PROVE  TypeOK'
  <2>1. [f EXCEPT !.pc = "install_next", !.todo = Append(f.todo, h)] \in Frame
    <3>1. Append(f.todo, h) \in Seq(Ctx)
      BY <1>0 DEF Frame
    <3> HIDE DEF f
    <3>2. QED
      BY <1>0, <3>1 DEF Frame, Labels
  <2>2. call' \in [Threads -> Frame]
    BY <1>2, <2>1, GotoType, ReturnType DEF InstallSucceeds
  <2>3. ctx' \in [Ctx -> Context]
    BY <1>0, <1>2 DEF InstallSucceeds, TypeOK, Frame, Context
  <2>4. hooks' \in Seq(Ctx) /\ live' \subseteq Ctx
    BY <1>2 DEF InstallSucceeds, TypeOK
  <2>5. /\ target_map' \in [Addr -> Ctx \cup {NoCtx}]
        /\ owned' \in [Threads -> SUBSET Ctx]
    BY <1>2 DEF InstallSucceeds, TypeOK
  <2>6. QED
    BY <1>2, <2>2, <2>3, <2>4, <2>5 DEF InstallSucceeds, TypeOK
<1>3. CASE RemoveNotFound(t)
  <2>1. call' \in [Threads -> Frame]
    BY <1>3, JumpType, ReturnType DEF RemoveNotFound, AfterRemove, Labels
  <2>2. QED
    BY <1>3, <2>1, ControlType DEF RemoveNotFound, TypeOK
<1>4. CASE RemoveFound(t)
  <2>1. call' \in [Threads -> Frame]
    BY <1>4, JumpType, ReturnType DEF RemoveFound, AfterRemove, Labels
  <2>2. f.h \in Range(hooks) /\ f.h \in Ctx
    BY <1>4 DEF RemoveFound, TypeOK, Range
  <2>3. hooks' \in Seq(Ctx)
    <3>1. IndexOf(hooks, f.h) \in 1 .. Len(hooks)
      BY <2>2 DEF IndexOf, Range, TypeOK
    <3>2. Erase(hooks, IndexOf(hooks, f.h)) \in [1 .. Len(hooks) - 1 -> Ctx]
      BY <3>1, SMTT(40) DEF Erase, TypeOK
    <3>3. Len(hooks) - 1 \in Nat
      BY <3>1 DEF TypeOK
    <3>4. hooks' = Erase(hooks, IndexOf(hooks, f.h))
      BY <1>4 DEF RemoveFound
    <3> DEFINE n == Len(hooks) - 1
               r == Erase(hooks, IndexOf(hooks, f.h))
    <3> HIDE DEF n, r
    <3>5. n \in Nat /\ r \in [1 .. n -> Ctx]
      BY <3>2, <3>3 DEF n, r
    <3>6. r \in Seq(Ctx)
      BY ONLY <3>5, SMTT(40)
    <3>7. QED
      BY <3>4, <3>6 DEF r
  <2>4. BytesAfterRemove(f.h) \in Code
    BY <2>2 DEF BytesAfterRemove, TypeOK, Context
  <2>5. /\ code' \in [Addr -> Code]
        /\ target_map' \in [Addr -> Ctx \cup {NoCtx}]
        /\ live' \subseteq Ctx
    BY <1>4, <2>4 DEF RemoveFound, TypeOK
  <2>6. QED
    BY <1>4, <2>1, <2>3, <2>5 DEF RemoveFound, TypeOK
<1>5. CASE EnableSection(t) \/ DisableSection(t)
  <2>1. call' \in [Threads -> Frame]
    BY <1>5, ReturnType DEF EnableSection, DisableSection
  <2>2. f.h \in Ctx
    BY <1>5 DEF EnableSection, DisableSection, TypeOK
  <2>3. ctx[f.h] \in Context
    BY <2>2 DEF TypeOK
  <2>4. code' \in [Addr -> Code]
    BY <1>5, <2>3, CodeType DEF EnableSection, DisableSection, TypeOK, Context
  <2>5. ctx' \in [Ctx -> Context]
    <3>1. \A e \in BOOLEAN : [ctx[f.h] EXCEPT !.enabled = e] \in Context
      BY <2>3 DEF Context
    <3>2. ctx' = ctx \/ \E e \in BOOLEAN :
            ctx' = [ctx EXCEPT ![f.h] = [ctx[f.h] EXCEPT !.enabled = e]]
      BY <1>5 DEF EnableSection, DisableSection
    <3>3. QED
      BY <3>1, <3>2 DEF TypeOK
  <2>6. QED
    BY <1>5, <2>1, <2>4, <2>5 DEF EnableSection, DisableSection, TypeOK
<1>6. CASE FreedBeforeLock(t)
  BY <1>6, UseAfterFreeType DEF FreedBeforeLock
<1>7. CASE EnableAllSection(t) \/ DisableAllSection(t)
  <2>1. call' \in [Threads -> Frame]
    BY <1>7, ReturnType DEF EnableAllSection, DisableAllSection
  <2>2. ctx' \in [Ctx -> Context]
    <3>1. \A c \in Context, e \in BOOLEAN :
            [c EXCEPT !.enabled = e] \in Context
      BY DEF Context
    <3>2. QED
      BY <1>7, <3>1 DEF EnableAllSection, DisableAllSection, TypeOK
  <2>3. ASSUME NEW a \in Addr, NEW e \in BOOLEAN, HooksAt(a, e) # {}
        PROVE  ctx[hooks[Last(HooksAt(a, e))]] \in Context
    <3>1. HooksAt(a, e) \subseteq 1 .. Len(hooks)
      BY DEF HooksAt
    <3>2. Last(HooksAt(a, e)) \in HooksAt(a, e)
      BY <2>3, <3>1, LastType DEF TypeOK
    <3>3. QED
      BY <3>2 DEF HooksAt, TypeOK
  <2>4. \A a \in Addr, e \in BOOLEAN : HooksAt(a, e) # {} =>
          /\ HookCode(a, ctx[hooks[Last(HooksAt(a, e))]].detour) \in Code
          /\ ctx[hooks[Last(HooksAt(a, e))]].saved \in Code
    BY <2>3, CodeType DEF Context
  <2>5. code' \in [Addr -> Code]
    BY <1>7, <2>4 DEF EnableAllSection, DisableAllSection, TypeOK
  <2>6. QED
    BY <1>7, <2>1, <2>2, <2>5 DEF EnableAllSection, DisableAllSection, TypeOK
<1>8. CASE RemoveAllCheck(t)
  <2>1. call' \in [Threads -> Frame]
    BY <1>8, JumpType DEF RemoveAllCheck, Labels
  <2>2. QED
    BY <1>8, <2>1, ControlType DEF RemoveAllCheck, TypeOK
<1>9. CASE RemoveAllCopy(t)
  <2>1. [f EXCEPT !.pc = "remove_next", !.todo = hooks_copy] \in Frame
    BY <1>0 DEF Frame, Labels, hooks_copy, TypeOK
  <2>2. call' \in [Threads -> Frame]
    BY <1>9, <2>1, GotoType DEF RemoveAllCopy
  <2>3. QED
    BY <1>9, <2>2, ControlType DEF RemoveAllCopy, TypeOK
<1>10. CASE RemoveNext(t)
  <2>1. CASE initialized /\ Head(f.todo) \notin live
    BY <1>10, <2>1, UseAfterFreeType DEF RemoveNext
  <2>2. CASE ~(initialized /\ Head(f.todo) \notin live)
    <3>1. Head(f.todo) \in Ctx /\ Tail(f.todo) \in Seq(Ctx)
      BY <1>0, <1>10 DEF Frame, RemoveNext
    <3>2. \A pc \in Labels :
            [f EXCEPT !.pc = pc, !.h = Head(f.todo), !.todo = Tail(f.todo)]
              \in Frame
      BY <1>0, <3>1 DEF Frame
    <3>3. call' \in [Threads -> Frame]
      BY <1>10, <2>2, <3>2, GotoType DEF RemoveNext, Labels
    <3>4. QED
      BY <1>10, <2>2, <3>3, ControlType DEF RemoveNext, TypeOK
  <2>3. QED
    BY <2>1, <2>2
<1>11. CASE RemoveLoopEnds(t)
  <2>1. call' \in [Threads -> Frame]
    BY <1>11, JumpType, ReturnType DEF RemoveLoopEnds, Labels
  <2>2. QED
    BY <1>11, <2>1, ControlType DEF RemoveLoopEnds, TypeOK
<1>12. CASE ShutdownEnds(t)
  <2>1. call' \in [Threads -> Frame]
    BY <1>12, ReturnType DEF ShutdownEnds
  <2>2. QED
    BY <1>12, <2>1 DEF ShutdownEnds, TypeOK
<1>13. CASE InstallNext(t)
  <2>1. /\ Head(f.rest) \in Addr \X Detour
        /\ Tail(f.rest) \in Seq(Addr \X Detour)
    BY <1>0, <1>13 DEF Frame, InstallNext
  <2> DEFINE g == InstallFrame(f, Head(f.rest)[1], Head(f.rest)[2])
  <2>2. g \in Frame
    BY <1>0, <2>1, InstallFrameType
  <2> HIDE DEF g
  <2>3. [g EXCEPT !.rest = Tail(f.rest)] \in Frame
    BY <2>1, <2>2 DEF Frame
  <2>4. call' \in [Threads -> Frame]
    BY <1>13, <2>3, GotoType, JumpType DEF InstallNext, Labels, g
  <2>5. owned' \in [Threads -> SUBSET Ctx]
    BY <1>13, ForgetType DEF InstallNext, TypeOK
  <2>6. QED
    BY <1>13, <2>4, <2>5, ControlType DEF InstallNext
<1>14. CASE InstallAllEnables(t)
  <2>1. call' \in [Threads -> Frame]
    BY <1>14, JumpType, ReturnType DEF InstallAllEnables, Labels
  <2>2. QED
    BY <1>14, <2>1, ControlType DEF InstallAllEnables, TypeOK
<1>15. QED
  BY <1>1, <1>2, <1>3, <1>4, <1>5, <1>6, <1>7, <1>8, <1>9, <1>10, <1>11,
     <1>12, <1>13, <1>14 DEF Proceed

\* Every reachable state is well typed, for any constants.
THEOREM TypeCorrect == Spec => []TypeOK
<1>1. TypeOK /\ [Next]_vars => TypeOK'
  <2> SUFFICES ASSUME TypeOK, [Next]_vars
               PROVE  TypeOK'
    OBVIOUS
  <2>1. CASE Next
    BY <2>1, StartType, ProceedType DEF Next
  <2>2. CASE UNCHANGED vars
    BY <2>2 DEF vars, TypeOK
  <2>3. QED
    BY <2>1, <2>2
<1>2. QED
  BY <1>1, InitType, PTL DEF Spec

-----------------------------------------------------------------------------
(* Consistency of the tables and of the patched bytes *)

\* The bytes saved by every hook are those of the unpatched function.
SavedOriginal == \A h \in live : ctx[h].saved = Orig

\* The inductive invariant: without chaining, a hook is only ever installed on
\* an address no hook is on, where by PatchesMatchTable the original bytes are.
IInv ==
  /\ TypeOK
  /\ allow_chain = FALSE
  /\ TableConsistent
  /\ SavedOriginal
  /\ PatchesMatchTable

LEMMA InitConsistent == Init => IInv
<1> SUFFICES ASSUME Init
             PROVE  IInv
  OBVIOUS
<1>1. Range(hooks) = {} /\ DOMAIN hooks = {}
  BY DEF Init, Range
<1>2. TableConsistent /\ SavedOriginal /\ PatchesMatchTable
  BY <1>1 DEF Init, TableConsistent, SavedOriginal, PatchesMatchTable
<1>3. QED
  BY <1>2, InitType DEF Init, IInv

\* A step that leaves the shared tables alone keeps the invariant.
LEMMA ControlConsistent ==
  ASSUME IInv, TypeOK', UNCHANGED <<hooks, target_map, live, ctx, code>>,
         allow_chain' = FALSE
  PROVE  IInv'
<1>1. TableConsistent' /\ SavedOriginal' /\ PatchesMatchTable'
  BY DEF IInv, TableConsistent, SavedOriginal, PatchesMatchTable
<1>2. QED
  BY <1>1 DEF IInv

\* A live hook is the one its target's entry names.
LEMMA OneHookPerTarget ==
  ASSUME IInv, NEW a \in Addr, NEW h \in live
  PROVE  ctx[h].target = a <=> target_map[a] = h
BY HookConstants DEF IInv, TableConsistent, TypeOK

\* The loops of enable_all and disable_all find at most one hook per address.
LEMMA HooksAtEntry ==
  ASSUME IInv, NEW a \in Addr, NEW e \in BOOLEAN
  PROVE  IF target_map[a] # NoCtx /\ ctx[target_map[a]].enabled = e
         THEN HooksAt(a, e) # {} /\ hooks[Last(HooksAt(a, e))] = target_map[a]
         ELSE HooksAt(a, e) = {}
<1>1. /\ DOMAIN hooks = 1 .. Len(hooks)
      /\ hooks \in Seq(Ctx)
      /\ Range(hooks) = live
      /\ live \subseteq Ctx
      /\ NoCtx \notin Ctx
  BY HookConstants DEF IInv, TypeOK, TableConsistent
<1>2. \A i \in 1 .. Len(hooks) : hooks[i] \in live
  BY <1>1 DEF Range
<1>3. \A i \in HooksAt(a, e) :
        hooks[i] = target_map[a] /\ ctx[target_map[a]].enabled = e
  BY <1>2, OneHookPerTarget DEF HooksAt
<1>4. CASE target_map[a] # NoCtx /\ ctx[target_map[a]].enabled = e
  <2>1. target_map[a] \in live /\ ctx[target_map[a]].target = a
    BY <1>4 DEF IInv, TableConsistent
  <2>2. PICK i \in 1 .. Len(hooks) : hooks[i] = target_map[a]
    BY <1>1, <2>1 DEF Range
  <2>3. i \in HooksAt(a, e)
    BY <1>4, <2>1, <2>2 DEF HooksAt
  <2>4. HooksAt(a, e) \subseteq 1 .. Len(hooks)
    BY DEF HooksAt
  <2>5. Last(HooksAt(a, e)) \in HooksAt(a, e)
    BY <1>1, <2>3, <2>4, LastType
  <2>6. QED
    BY <1>3, <1>4, <2>3, <2>5
<1>5. CASE ~(target_map[a] # NoCtx /\ ctx[target_map[a]].enabled = e)
  <2>1. ASSUME NEW i \in HooksAt(a, e)
        PROVE  FALSE
    <3>1. hooks[i] \in live
      BY <1>2 DEF HooksAt
    <3>2. QED
      BY <1>1, <1>3, <1>5, <3>1
  <2>2. QED
    BY <1>5, <2>1
<1>6. QED
  BY <1>4, <1>5

LEMMA InstallConsistent ==
  ASSUME IInv, TypeOK', NEW t \in Threads, NEW h \in Ctx, InstallSucceeds(t, h)
  PROVE  IInv'
<1> DEFINE a == call[t].addr
<1>0. a \in Addr
  BY DEF IInv, TypeOK, Frame
<1>1. target_map[a] = NoCtx /\ code[a] = Orig
  BY <1>0 DEF IInv, InstallSucceeds, AlreadyInstalled, PatchesMatchTable
<1>2. /\ h \notin live
      /\ live' = live \cup {h}
      /\ hooks' = Append(hooks, h)
      /\ target_map' = [target_map EXCEPT ![a] = h]
      /\ code' = code
      /\ allow_chain' = FALSE
      /\ ctx' = [ctx EXCEPT ![h] = [target |-> a, detour |-> call[t].det,
                                   saved |-> code[a], enabled |-> FALSE]]
  BY DEF InstallSucceeds, IInv
<1> HIDE DEF a
<1>3. /\ ctx'[h].target = a
      /\ ctx'[h].saved = Orig
      /\ ctx'[h].enabled = FALSE
      /\ \A g \in live : ctx'[g] = ctx[g]
      /\ target_map'[a] = h
      /\ \A b \in Addr \ {a} : target_map'[b] = target_map[b]
  BY <1>0, <1>1, <1>2 DEF IInv, TypeOK
<1>4. /\ Range(hooks') = live'
      /\ \A i, j \in DOMAIN hooks' : hooks'[i] = hooks'[j] => i = j
  <2>1. /\ hooks \in Seq(Ctx)
        /\ h \notin Range(hooks)
        /\ \A i, j \in DOMAIN hooks : hooks[i] = hooks[j] => i = j
        /\ Range(hooks) = live
    BY <1>2 DEF IInv, TypeOK, TableConsistent
  <2>2. /\ Range(Append(hooks, h)) = Range(hooks) \cup {h}
        /\ \A i, j \in DOMAIN Append(hooks, h) :
             Append(hooks, h)[i] = Append(hooks, h)[j] => i = j
    BY <2>1, AppendFacts
  <2>3. QED
    BY <1>2, <2>1, <2>2
<1>5. TableConsistent'
  <2>1. ASSUME NEW b \in Addr, target_map'[b] # NoCtx
        PROVE  target_map'[b] \in live' /\ ctx'[target_map'[b]].target = b
    BY <1>2, <1>3, <2>1 DEF IInv, TableConsistent
  <2>2. ASSUME NEW g \in live'
        PROVE  target_map'[ctx'[g].target] = g
    <3>1. CASE g = h
      BY <1>3, <3>1
    <3>2. CASE g \in live
      <4>1. ctx[g].target \in Addr /\ target_map[ctx[g].target] = g /\ g # NoCtx
        BY <3>2, HookConstants DEF IInv, TypeOK, TableConsistent, Context
      <4>2. QED
        BY <1>1, <1>3, <3>2, <4>1
    <3>3. QED
      BY <1>2, <2>2, <3>1, <3>2
  <2>3. QED
    BY <1>4, <2>1, <2>2 DEF TableConsistent
<1>6. SavedOriginal'
  BY <1>2, <1>3 DEF IInv, SavedOriginal
<1>7. PatchesMatchTable'
  <2>1. ASSUME NEW b \in Addr, b # a, target_map[b] # NoCtx
        PROVE  ctx'[target_map[b]] = ctx[target_map[b]]
    BY <1>3, <2>1 DEF IInv, TableConsistent
  <2>2. QED
    BY <1>1, <1>2, <1>3, <2>1 DEF IInv, PatchesMatchTable
<1>8. QED
  BY <1>2, <1>5, <1>6, <1>7 DEF IInv

LEMMA RemoveConsistent ==
  ASSUME IInv, TypeOK', NEW t \in Threads, RemoveFound(t)
  PROVE  IInv'
<1> DEFINE h == call[t].h
           a == ctx[h].target
<1>1. h \in live /\ h \in Range(hooks) /\ h \in Ctx
  BY DEF IInv, TypeOK, TableConsistent, RemoveFound
<1>2. a \in Addr /\ target_map[a] = h /\ ctx[h].saved = Orig /\ h # NoCtx
  BY <1>1, HookConstants DEF IInv, TypeOK, TableConsistent, SavedOriginal, Context
<1>3. /\ live' = live \ {h}
      /\ hooks' = Erase(hooks, IndexOf(hooks, h))
      /\ target_map' = [target_map EXCEPT ![a] = NoCtx]
      /\ code' = [code EXCEPT ![a] = BytesAfterRemove(h)]
      /\ ctx' = ctx
      /\ allow_chain' = FALSE
  BY DEF RemoveFound, IInv
<1>4. BytesAfterRemove(h) = Orig
  BY <1>2 DEF BytesAfterRemove, IInv, PatchesMatchTable
<1> HIDE DEF h, a
<1>5. /\ target_map'[a] = NoCtx
      /\ code'[a] = Orig
      /\ \A b \in Addr \ {a} :
           target_map'[b] = target_map[b] /\ code'[b] = code[b]
  BY <1>2, <1>3, <1>4 DEF IInv, TypeOK
<1>6. /\ Range(hooks') = live'
      /\ \A i, j \in DOMAIN hooks' : hooks'[i] = hooks'[j] => i = j
  <2>1. /\ hooks \in Seq(Ctx)
        /\ \A i, j \in DOMAIN hooks : hooks[i] = hooks[j] => i = j
        /\ Range(hooks) = live
    BY DEF IInv, TypeOK, TableConsistent
  <2>2. /\ Range(Erase(hooks, IndexOf(hooks, h))) = Range(hooks) \ {h}
        /\ \A i, j \in DOMAIN Erase(hooks, IndexOf(hooks, h)) :
             Erase(hooks, IndexOf(hooks, h))[i]
               = Erase(hooks, IndexOf(hooks, h))[j] => i = j
    BY <1>1, <2>1, EraseFacts
  <2>3. QED
    BY <1>3, <2>1, <2>2
<1>7. TableConsistent'
  <2>1. ASSUME NEW b \in Addr, target_map'[b] # NoCtx
        PROVE  target_map'[b] \in live' /\ ctx'[target_map'[b]].target = b
    <3>1. /\ b # a
          /\ target_map'[b] = target_map[b]
          /\ target_map[b] \in live
          /\ ctx[target_map[b]].target = b
      BY <1>5, <2>1 DEF IInv, TableConsistent
    <3>2. target_map[b] # h
      BY <3>1 DEF a
    <3>3. QED
      BY <1>3, <3>1, <3>2
  <2>2. ASSUME NEW g \in live'
        PROVE  target_map'[ctx'[g].target] = g
    <3>1. g \in live /\ g # h
      BY <1>3
    <3>2. ctx[g].target \in Addr /\ target_map[ctx[g].target] = g
      BY <3>1 DEF IInv, TypeOK, TableConsistent, Context
    <3>3. QED
      BY <1>2, <1>3, <1>5, <3>1, <3>2
  <2>3. QED
    BY <1>6, <2>1, <2>2 DEF TableConsistent
<1>8. SavedOriginal'
  BY <1>3 DEF IInv, SavedOriginal
<1>9. PatchesMatchTable'
  BY <1>3, <1>5 DEF IInv, PatchesMatchTable
<1>10. QED
  BY <1>3, <1>7, <1>8, <1>9 DEF IInv

\* Steps that only switch hooks on or off keep the tables.
LEMMA SwitchConsistent ==
  ASSUME IInv, TypeOK', UNCHANGED <<hooks, target_map, live>>,
         allow_chain' = FALSE, PatchesMatchTable',
         \A h \in live : /\ ctx'[h].target = ctx[h].target
                         /\ ctx'[h].saved = ctx[h].saved
  PROVE  IInv'
<1>1. TableConsistent' /\ SavedOriginal'
  BY DEF IInv, TableConsistent, SavedOriginal
<1>2. QED
  BY <1>1 DEF IInv

LEMMA OneSwitchConsistent ==
  ASSUME IInv, TypeOK', NEW t \in Threads,
         EnableSection(t) \/ DisableSection(t)
  PROVE  IInv'
<1> DEFINE h == call[t].h
           a == ctx[h].target
<1>1. h \in live /\ h \in Ctx
  BY DEF IInv, TypeOK, EnableSection, DisableSection
<1>2. a \in Addr /\ target_map[a] = h /\ ctx[h].saved = Orig /\ h # NoCtx
  BY <1>1, HookConstants DEF IInv, TypeOK, TableConsistent, SavedOriginal, Context
<1>3. UNCHANGED <<hooks, target_map, live>> /\ allow_chain' = FALSE
  BY DEF EnableSection, DisableSection, IInv
<1>4. CASE UNCHANGED <<code, ctx>>
  BY <1>3, <1>4, ControlConsistent
<1>5. CASE ~UNCHANGED <<code, ctx>>
  <2>1. PICK e \in BOOLEAN :
          /\ ctx' = [ctx EXCEPT ![h].enabled = e]
          /\ code' = [code EXCEPT ![a] = IF e THEN HookCode(a, ctx[h].detour) ELSE ctx[h].saved]
    BY <1>5 DEF EnableSection, DisableSection
  <2> HIDE DEF h, a
  <2>2. ctx'[h] = [ctx[h] EXCEPT !.enabled = e] /\ ctx[h] \in Context
    BY <1>1, <2>1 DEF IInv, TypeOK
  <2>3. \A g \in live \ {h} : ctx'[g] = ctx[g]
    BY <2>1 DEF IInv, TypeOK
  <2>4. /\ ctx'[h].enabled = e
        /\ ctx'[h].target = ctx[h].target
        /\ ctx'[h].saved = ctx[h].saved
        /\ ctx'[h].detour = ctx[h].detour
    BY <2>2 DEF Context
  <2>5. ASSUME NEW b \in Addr
        PROVE  code'[b] = IF target_map[b] # NoCtx /\ ctx'[target_map[b]].enabled
                          THEN HookCode(b, ctx'[target_map[b]].detour)
                          ELSE Orig
    <3>1. CASE b = a
      BY <1>1, <1>2, <2>1, <2>4, <3>1 DEF IInv, TypeOK
    <3>2. CASE b # a
      <4>1. code'[b] = code[b]
        BY <2>1, <3>2 DEF IInv, TypeOK
      <4>2. target_map[b] # NoCtx =>
              target_map[b] \in live /\ target_map[b] # h
        BY <3>2 DEF IInv, TableConsistent, a
      <4>3. target_map[b] # NoCtx => ctx'[target_map[b]] = ctx[target_map[b]]
        BY <2>3, <4>2
      <4>4. QED
        BY <4>1, <4>3 DEF IInv, PatchesMatchTable
    <3>3. QED
      BY <3>1, <3>2
  <2>6. PatchesMatchTable'
    BY <1>3, <2>5 DEF PatchesMatchTable
  <2>7. \A g \in live : /\ ctx'[g].target = ctx[g].target
                        /\ ctx'[g].saved = ctx[g].saved
    BY <2>3, <2>4
  <2>8. QED
    BY <1>3, <2>6, <2>7, SwitchConsistent
<1>6. QED
  BY <1>4, <1>5

LEMMA SwitchAllConsistent ==
  ASSUME IInv, TypeOK', NEW t \in Threads,
         EnableAllSection(t) \/ DisableAllSection(t)
  PROVE  IInv'
<1>1. UNCHANGED <<hooks, target_map, live>> /\ allow_chain' = FALSE
  BY DEF EnableAllSection, DisableAllSection, IInv
<1>2. PICK e \in BOOLEAN :
        /\ ctx' = [h \in Ctx |->
                     IF h \in Range(hooks) THEN [ctx[h] EXCEPT !.enabled = e]
                     ELSE ctx[h]]
        /\ code' = [a \in Addr |->
                     IF HooksAt(a, ~e) = {} THEN code[a]
                     ELSE IF e THEN HookCode(a, ctx[hooks[Last(HooksAt(a, ~e))]].detour)
                               ELSE ctx[hooks[Last(HooksAt(a, ~e))]].saved]
  <2>1. CASE EnableAllSection(t)
    <3> WITNESS TRUE \in BOOLEAN
    <3>1. QED
      BY <2>1 DEF EnableAllSection
  <2>2. CASE DisableAllSection(t)
    <3> WITNESS FALSE \in BOOLEAN
    <3>1. QED
      BY <2>2 DEF DisableAllSection
  <2>3. QED
    BY <2>1, <2>2
<1>3. \A h \in live : /\ ctx'[h].target = ctx[h].target
                      /\ ctx'[h].saved = ctx[h].saved
                      /\ ctx'[h].detour = ctx[h].detour
                      /\ ctx'[h].enabled = e
  BY <1>2 DEF IInv, TypeOK, TableConsistent, Context
<1>4. ASSUME NEW a \in Addr
      PROVE  code'[a] = IF target_map[a] # NoCtx /\ ctx'[target_map[a]].enabled
                        THEN HookCode(a, ctx'[target_map[a]].detour)
                        ELSE Orig
  <2>1. CASE target_map[a] = NoCtx
    <3>1. HooksAt(a, ~e) = {}
      BY <2>1, HooksAtEntry
    <3>2. QED
      BY <1>2, <2>1, <3>1 DEF IInv, PatchesMatchTable
  <2>2. CASE target_map[a] # NoCtx
    <3> DEFINE h == target_map[a]
    <3>1. h \in live /\ ctx[h].saved = Orig /\ ctx[h].enabled \in BOOLEAN
      BY <2>2 DEF IInv, TypeOK, TableConsistent, SavedOriginal, Context
    <3>2. CASE ctx[h].enabled = ~e
      <4>1. HooksAt(a, ~e) # {} /\ hooks[Last(HooksAt(a, ~e))] = h
        BY <2>2, <3>2, HooksAtEntry
      <4>2. QED
        BY <1>2, <1>3, <2>2, <3>1, <4>1
    <3>3. CASE ctx[h].enabled = e
      <4>1. HooksAt(a, ~e) = {}
        BY <2>2, <3>3, HooksAtEntry
      <4>2. QED
        BY <1>2, <1>3, <2>2, <3>1, <3>3, <4>1 DEF IInv, PatchesMatchTable
    <3>4. QED
      BY <3>1, <3>2, <3>3
  <2>3. QED
    BY <2>1, <2>2
<1>5. PatchesMatchTable'
  BY <1>1, <1>4 DEF PatchesMatchTable
<1>6. QED
  BY <1>1, <1>3, <1>5, SwitchConsistent

LEMMA StepConsistent ==
  ASSUME NoChaining, IInv, [Next]_vars
  PROVE  IInv'
<1>1. TypeOK'
  BY StartType, ProceedType DEF IInv, Next, vars, TypeOK
<1>2. ASSUME UNCHANGED <<tables, undefined>> \/ UseAfterFree
      PROVE  IInv'
  BY <1>1, <1>2, ControlConsistent DEF tables, UseAfterFree, IInv
<1>3. ASSUME NEW t \in Threads, Start(t)
      PROVE  IInv'
  <2>1. ASSUME NEW c \in Configs, Initialize(t, c) \/ SetConfig(t, c)
        PROVE  IInv'
    BY <1>1, <2>1, ControlConsistent DEF Initialize, SetConfig, NoChaining
  <2>2. CASE ~\E c \in Configs : Initialize(t, c) \/ SetConfig(t, c)
    <3>1. UNCHANGED <<tables, undefined>> \/ UseAfterFree
      BY <1>3, <2>2 DEF Start, InstallCheck, RemoveCheck, EnableCheck,
         DisableCheck, AllCheck, RemoveAllCall, ShutdownCall, InstallAllCall
    <3>2. QED
      BY <1>2, <3>1
  <2>3. QED
    BY <2>1, <2>2
<1>4. ASSUME NEW t \in Threads, Proceed(t)
      PROVE  IInv'
  <2>1. ASSUME NEW h \in Ctx, InstallSucceeds(t, h)
        PROVE  IInv'
    BY <1>1, <2>1, InstallConsistent
  <2>2. CASE RemoveFound(t)
    BY <1>1, <2>2, RemoveConsistent
  <2>3. CASE EnableSection(t) \/ DisableSection(t)
    BY <1>1, <2>3, OneSwitchConsistent
  <2>4. CASE EnableAllSection(t) \/ DisableAllSection(t)
    BY <1>1, <2>4, SwitchAllConsistent
  <2>5. CASE ShutdownEnds(t)
    BY <1>1, <2>5, ControlConsistent DEF ShutdownEnds, IInv
  <2>6. CASE InstallFails(t) \/ RemoveNotFound(t) \/ FreedBeforeLock(t)
             \/ RemoveAllCheck(t) \/ RemoveAllCopy(t) \/ RemoveNext(t)
             \/ RemoveLoopEnds(t) \/ InstallNext(t) \/ InstallAllEnables(t)
    <3>1. UNCHANGED <<tables, undefined>> \/ UseAfterFree
      BY <2>6 DEF InstallFails, RemoveNotFound, FreedBeforeLock,
         RemoveAllCheck, RemoveAllCopy, RemoveNext, RemoveLoopEnds, InstallNext,
         InstallAllEnables
    <3>2. QED
      BY <1>2, <3>1
  <2>7. QED
    BY <1>4, <2>1, <2>2, <2>3, <2>4, <2>5, <2>6 DEF Proceed
<1>5. CASE UNCHANGED vars
  BY <1>1, <1>5, ControlConsistent DEF vars, IInv
<1>6. QED
  BY <1>3, <1>4, <1>5 DEF Next

LEMMA UnchainedInvariance == NoChaining => (Spec => []IInv)
<1> SUFFICES ASSUME NoChaining
             PROVE  Spec => []IInv
  OBVIOUS
<1>1. IInv /\ [Next]_vars => IInv'
  BY StepConsistent
<1>2. QED
  BY <1>1, InitConsistent, PTL DEF Spec

\* For a client that does not chain, and however its threads misuse handles,
\* the vector, the map and the heap agree in every reachable state.
THEOREM TablesAgree == NoChaining => (Spec => []TableConsistent)
<1> SUFFICES ASSUME NoChaining
             PROVE  Spec => []TableConsistent
  OBVIOUS
<1>1. IInv => TableConsistent
  BY DEF IInv
<1>2. QED
  BY <1>1, UnchainedInvariance, PTL

\* For the same clients, an address holds a hook's jump exactly while an installed
\* hook on it is enabled, the misdirected jump of a detour in rel32 reach included: no
\* patch outlives its hook.
THEOREM PatchesAgree == NoChaining => (Spec => []PatchesMatchTable)
<1> SUFFICES ASSUME NoChaining
             PROVE  Spec => []PatchesMatchTable
  OBVIOUS
<1>1. IInv => PatchesMatchTable
  BY DEF IInv
<1>2. QED
  BY <1>1, UnchainedInvariance, PTL

-----------------------------------------------------------------------------
(* Ownership of handles, for clients that use each from one thread at a time *)

Unique(s) == \A i, j \in DOMAIN s : s[i] = s[j] => i = j

\* The handles a call in progress is going to remove.
Doomed(t) ==
  IF call[t].pc = "remove" THEN {call[t].h} \cup Range(call[t].todo)
  ELSE IF call[t].pc = "remove_next" THEN Range(call[t].todo)
  ELSE {}

Holds(t) == owned[t] \cup Doomed(t)

\* What a disciplined call has in its frame: where each caller's steps can be, and
\* that it only uses handles it holds.
FrameOK(t) ==
  /\ Unique(call[t].todo)
  /\ call[t].pc = "idle" => call[t].caller = "api"
  /\ call[t].pc \in {"enable", "disable"} => call[t].h \in owned[t]
  /\ call[t].pc = "remove" => /\ call[t].h \notin Range(call[t].todo)
                              /\ call[t].caller = "api" => call[t].todo = <<>>
  /\ call[t].pc \in {"install", "install_next"} =>
       Range(call[t].todo) \subseteq owned[t] /\ call[t].caller \in {"api", "install_all"}
  /\ call[t].pc = "install_next" => call[t].caller = "install_all"
  /\ call[t].pc \in {"remove_all_check", "shutdown_end"} => call[t].caller = "shutdown"
  /\ call[t].pc = "remove_all" => InTeardown(t)
  /\ call[t].pc = "remove_next" => call[t].caller # "api"
  /\ InTeardown(t) =>
       /\ call[t].pc \in {"remove_all_check", "remove_all", "remove", "remove_next",
                          "shutdown_end"}
       /\ call[t].pc \in {"remove", "remove_next"} => live \subseteq Doomed(t)
  /\ call[t].pc = "shutdown_end" => live = {}

\* Every live hook is held by exactly one thread, or a teardown that runs alone is
\* going to remove it.
OInv ==
  /\ ~undefined
  /\ \A t \in Threads : FrameOK(t)
  /\ \A t \in Threads : Holds(t) \subseteq live /\ owned[t] \cap Doomed(t) = {}
  /\ \A t, u \in Threads : t # u => Holds(t) \cap Holds(u) = {}
  /\ \A h \in live : \E t \in Threads : h \in Holds(t) \/ InTeardown(t)
  /\ \A t \in Threads : InTeardown(t) =>
       \A u \in Threads : owned[u] = {} /\ (u # t => call[u].pc = "idle")
  /\ \A t \in Threads : call[t].pc # "idle" => initialized
  /\ live # {} => initialized

LEMMA EmptyRange == Range(<<>>) = {} /\ Unique(<<>>)
BY DEF Range, Unique

\* The vector lists every live context once, also for clients that chain hooks.
HeapInv == TypeOK /\ Unique(hooks) /\ Range(hooks) = live

LEMMA StepHeap ==
  ASSUME HeapInv, [Next]_vars
  PROVE  HeapInv'
<1>1. TypeOK'
  BY StartType, ProceedType DEF HeapInv, Next, vars, TypeOK
<1>2. ASSUME NEW t \in Threads, NEW h \in Ctx, InstallSucceeds(t, h)
      PROVE  Unique(hooks') /\ Range(hooks') = live'
  BY <1>2, AppendFacts DEF InstallSucceeds, HeapInv, TypeOK, Unique
<1>3. ASSUME NEW t \in Threads, RemoveFound(t)
      PROVE  Unique(hooks') /\ Range(hooks') = live'
  BY <1>3, EraseFacts DEF RemoveFound, HeapInv, TypeOK, Unique
<1>4. ASSUME UNCHANGED <<hooks, live>>
      PROVE  Unique(hooks') /\ Range(hooks') = live'
  BY <1>4 DEF HeapInv
<1>5. ASSUME NEW t \in Threads, Start(t)
      PROVE  UNCHANGED <<hooks, live>>
  BY <1>5 DEF Start, Initialize, SetConfig, InstallCheck, RemoveCheck, EnableCheck,
     DisableCheck, AllCheck, RemoveAllCall, ShutdownCall, InstallAllCall, tables, UseAfterFree
<1>6. ASSUME NEW t \in Threads, Proceed(t), ~RemoveFound(t),
             ~\E h \in Ctx : InstallSucceeds(t, h)
      PROVE  UNCHANGED <<hooks, live>>
  BY <1>6 DEF Proceed, InstallFails, RemoveNotFound, EnableSection, DisableSection,
     FreedBeforeLock, EnableAllSection, DisableAllSection, RemoveAllCheck, RemoveAllCopy,
     RemoveNext, RemoveLoopEnds, ShutdownEnds, InstallNext, InstallAllEnables, tables,
     UseAfterFree
<1>7. CASE UNCHANGED vars
  BY <1>1, <1>4, <1>7 DEF vars, HeapInv
<1>8. QED
  BY <1>1, <1>2, <1>3, <1>4, <1>5, <1>6, <1>7 DEF Next, HeapInv

\* A disciplined call takes its first handle off a list of distinct ones.
LEMMA TailFacts ==
  ASSUME NEW S, NEW s \in Seq(S), s # <<>>, Unique(s)
  PROVE  /\ Unique(Tail(s))
         /\ Head(s) \notin Range(Tail(s))
         /\ Range(s) = {Head(s)} \cup Range(Tail(s))
<1>1. /\ Len(s) \in Nat \ {0} /\ DOMAIN s = 1 .. Len(s)
      /\ DOMAIN Tail(s) = 1 .. Len(s) - 1
      /\ \A i \in 1 .. Len(s) - 1 : Tail(s)[i] = s[i + 1]
      /\ Head(s) = s[1]
  OBVIOUS
<1>2. Unique(Tail(s)) /\ Head(s) \notin Range(Tail(s))
  BY <1>1 DEF Unique, Range
<1>3. ASSUME NEW i \in 1 .. Len(s)
      PROVE  s[i] \in {Head(s)} \cup Range(Tail(s))
  <2>1. CASE i = 1
    BY <1>1, <2>1
  <2>2. CASE i # 1
    <3>1. i - 1 \in 1 .. Len(s) - 1 /\ (i - 1) + 1 = i
      BY <1>1, <2>2
    <3>2. QED
      BY <1>1, <3>1 DEF Range
  <2>3. QED
    BY <2>1, <2>2
<1>4. \A i \in 1 .. Len(s) - 1 : i + 1 \in 1 .. Len(s)
  BY <1>1
<1>5. QED
  BY <1>1, <1>2, <1>3, <1>4 DEF Range

LEMMA GotoFacts ==
  ASSUME TypeOK, NEW t \in Threads, NEW f, Goto(t, f)
  PROVE  call'[t] = f /\ \A u \in Threads \ {t} : call'[u] = call[u]
BY DEF TypeOK, Goto

LEMMA JumpFacts ==
  ASSUME TypeOK, NEW t \in Threads, NEW pc \in Labels, Jump(t, pc)
  PROVE  /\ call'[t].pc = pc
         /\ call'[t].caller = call[t].caller
         /\ call'[t].h = call[t].h
         /\ call'[t].todo = call[t].todo
         /\ \A u \in Threads \ {t} : call'[u] = call[u]
<1>1. call[t] \in Frame
  BY DEF TypeOK
<1>2. call' = [call EXCEPT ![t] = [call[t] EXCEPT !.pc = pc]]
  BY DEF Jump
<1>3. call'[t] = [call[t] EXCEPT !.pc = pc] /\ \A u \in Threads \ {t} : call'[u] = call[u]
  BY <1>2 DEF TypeOK
<1>4. QED
  BY <1>1, <1>3 DEF Frame

LEMMA IdleFacts ==
  Idle.pc = "idle" /\ Idle.caller = "api" /\ Idle.h = NoCtx /\ Idle.todo = <<>>
BY DEF Idle

LEMMA ReturnFacts ==
  ASSUME TypeOK, NEW t \in Threads, Return(t)
  PROVE  /\ call'[t] = Idle
         /\ \A u \in Threads \ {t} : call'[u] = call[u]
BY GotoFacts DEF Return

\* No other thread tears the tables down while t calls or goes on.
LEMMA NoOtherTeardown ==
  ASSUME Disciplined, OInv, NEW t \in Threads, MayCall(t) \/ call[t].pc # "idle",
         NEW u \in Threads \ {t}
  PROVE  ~InTeardown(u)
BY DEF OInv, MayCall

\* A step of one thread that leaves what the others hold alone.
LEMMA LocalStep ==
  ASSUME OInv, NEW t \in Threads, UNCHANGED <<undefined, initialized>>,
         \A u \in Threads \ {t} :
           call'[u] = call[u] /\ owned'[u] = owned[u] /\ ~InTeardown(u),
         FrameOK(t)',
         call'[t].pc # "idle" => initialized,
         live' # {} => initialized,
         Holds(t)' \subseteq live',
         live' \ Holds(t)' = live \ Holds(t),
         (owned[t] \cap Doomed(t) = {})',
         InTeardown(t) => InTeardown(t)' \/ live' = {},
         InTeardown(t)' => InTeardown(t) /\ owned'[t] = {}
  PROVE  OInv'
<1>1. \A u \in Threads \ {t} :
        /\ Doomed(u)' = Doomed(u) /\ Holds(u)' = Holds(u)
        /\ InTeardown(u)' = InTeardown(u)
  BY DEF Doomed, Holds, InTeardown
<1>2. \A u \in Threads \ {t} : Holds(u) \subseteq live \ Holds(t)
  BY DEF OInv
<1>3. \A u \in Threads : Holds(u)' \subseteq live' /\ (owned[u] \cap Doomed(u) = {})'
  BY <1>1, <1>2 DEF OInv
<1>4. \A u, v \in Threads : u # v => (Holds(u) \cap Holds(v) = {})'
  <2>1. \A u \in Threads \ {t} : Holds(u)' \cap Holds(t)' = {}
    BY <1>1, <1>2
  <2>2. \A u, v \in Threads \ {t} : u # v => Holds(u)' \cap Holds(v)' = {}
    BY <1>1 DEF OInv
  <2>3. QED
    BY <2>1, <2>2
<1>5. ASSUME NEW u \in Threads
      PROVE  FrameOK(u)'
  <2>1. CASE u = t
    BY <2>1
  <2>2. CASE u # t
    <3>1. FrameOK(u) /\ ~InTeardown(u) /\ call'[u] = call[u] /\ owned'[u] = owned[u]
      BY <2>2 DEF OInv
    <3>2. call[u].pc # "shutdown_end"
      BY <3>1 DEF FrameOK, InTeardown
    <3>3. QED
      BY <3>1, <3>2 DEF FrameOK, InTeardown
  <2>3. QED
    BY <2>1, <2>2
<1>6. ASSUME NEW h \in live'
      PROVE  \E u \in Threads : h \in Holds(u)' \/ InTeardown(u)'
  <2>1. CASE h \in Holds(t)'
    BY <2>1
  <2>2. CASE h \notin Holds(t)'
    <3>1. h \in live /\ h \notin Holds(t)
      BY <2>2
    <3>2. PICK u \in Threads : h \in Holds(u) \/ InTeardown(u)
      BY <3>1 DEF OInv
    <3>3. CASE u = t
      BY <3>1, <3>2, <3>3
    <3>4. CASE u # t
      BY <1>1, <3>2, <3>4
    <3>5. QED
      BY <3>3, <3>4
  <2>3. QED
    BY <2>1, <2>2
<1>7. \A v \in Threads : InTeardown(v)' =>
        \A u \in Threads : owned'[u] = {} /\ (u # v => call'[u].pc = "idle")
  <2>1. InTeardown(t)' => \A u \in Threads \ {t} : owned'[u] = {} /\ call'[u].pc = "idle"
    BY DEF OInv
  <2>2. QED
    BY <1>1, <2>1
<1>8. \A u \in Threads : call'[u].pc # "idle" => initialized'
  BY DEF OInv
<1>9. ~undefined' /\ (live' # {} => initialized')
  BY DEF OInv
<1>10. QED
  BY <1>3, <1>4, <1>5, <1>6, <1>7, <1>8, <1>9 DEF OInv

\* The same for a step that keeps the heap and what the thread holds.
LEMMA QuietStep ==
  ASSUME OInv, NEW t \in Threads, UNCHANGED <<undefined, initialized, live>>,
         \A u \in Threads \ {t} :
           call'[u] = call[u] /\ owned'[u] = owned[u] /\ ~InTeardown(u),
         FrameOK(t)', initialized,
         Holds(t)' = Holds(t),
         (owned[t] \cap Doomed(t) = {})',
         InTeardown(t) => InTeardown(t)' \/ live = {},
         InTeardown(t)' => InTeardown(t) /\ owned'[t] = {}
  PROVE  OInv'
<1>1. Holds(t) \subseteq live
  BY DEF OInv
<1>2. QED
  BY <1>1, LocalStep

\* A call that returns holds only the thread's own handles.
LEMMA ReturnStep ==
  ASSUME Disciplined, OInv, TypeOK, NEW t \in Threads, call[t].pc # "idle", Return(t),
         UNCHANGED <<undefined, initialized, live, owned>>,
         Doomed(t) = {}, InTeardown(t) => live = {}
  PROVE  OInv'
<1>1. call'[t] = Idle /\ \A u \in Threads \ {t} : call'[u] = call[u] /\ ~InTeardown(u)
  BY ReturnFacts, NoOtherTeardown
<1>2. FrameOK(t)' /\ Doomed(t)' = {} /\ ~InTeardown(t)'
  BY <1>1, IdleFacts, EmptyRange DEF FrameOK, Doomed, InTeardown
<1>3. Holds(t)' = Holds(t)
  BY <1>2 DEF Holds
<1>4. initialized
  BY DEF OInv
<1>5. QED
  BY <1>1, <1>2, <1>3, <1>4, QuietStep

\* An idle thread that enters a call through the frame f.
LEMMA EnterStep ==
  ASSUME Disciplined, OInv, TypeOK, NEW t \in Threads, MayCall(t), initialized,
         NEW f, Goto(t, f), UNCHANGED <<undefined, initialized, live, owned>>,
         f.pc \in {"install", "install_next", "enable", "disable", "enable_all", "disable_all"},
         f.caller \in {"api", "install_all"}, f.todo = <<>>,
         f.pc = "install_next" => f.caller = "install_all",
         f.pc \in {"enable", "disable"} => f.h \in owned[t]
  PROVE  OInv'
<1>1. call'[t] = f /\ \A u \in Threads \ {t} : call'[u] = call[u] /\ ~InTeardown(u)
  BY GotoFacts, NoOtherTeardown
<1>2. FrameOK(t)' /\ Doomed(t)' = {} /\ ~InTeardown(t)'
  BY <1>1, EmptyRange DEF FrameOK, Doomed, InTeardown
<1>3. call[t].pc = "idle" /\ ~InTeardown(t) /\ Doomed(t) = {}
  BY DEF MayCall, Doomed, OInv, FrameOK, InTeardown
<1>4. Holds(t)' = Holds(t)
  BY <1>2, <1>3 DEF Holds
<1>5. QED
  BY <1>1, <1>2, <1>3, <1>4, QuietStep

LEMMA InstallFrameFacts ==
  ASSUME NEW f \in Frame, NEW fn, NEW d
  PROVE  LET g == InstallFrame(f, fn, d)
         IN g.pc = "install" /\ g.caller = f.caller /\ g.todo = f.todo
BY DEF InstallFrame, Frame

LEMMA StartOwns ==
  ASSUME Disciplined, OInv, TypeOK, NEW t \in Threads, Start(t)
  PROVE  OInv'
<1>1. ASSUME NEW c \in Configs, Initialize(t, c) \/ SetConfig(t, c)
      PROVE  OInv'
  BY <1>1 DEF Initialize, SetConfig, OInv, FrameOK, Holds, Doomed, InTeardown
<1>2. ASSUME NEW fn \in Addr, NEW d \in Detour, InstallCheck(t, fn, d)
      PROVE  OInv'
  BY <1>2, InstallFrameFacts, IdleFacts, IdleType, EnterStep DEF InstallCheck, tables
<1>3. ASSUME NEW h \in Ctx, EnableCheck(t, h) \/ DisableCheck(t, h)
      PROVE  OInv'
  <2>1. h \in owned[t] /\ h \in live /\ MayCall(t) /\ initialized
    BY <1>3 DEF EnableCheck, DisableCheck, MayUse, OInv, Holds
  <2>2. PICK pc \in {"enable", "disable"} : Goto(t, [Idle EXCEPT !.pc = pc, !.h = h])
    BY <1>3, <2>1 DEF EnableCheck, DisableCheck
  <2> DEFINE f == [Idle EXCEPT !.pc = pc, !.h = h]
  <2>3. f.pc = pc /\ f.h = h /\ f.caller = "api" /\ f.todo = <<>>
    BY IdleType, IdleFacts DEF Frame
  <2> HIDE DEF f
  <2>4. QED
    BY <1>3, <2>1, <2>2, <2>3, EnterStep DEF EnableCheck, DisableCheck, tables, f
<1>4. ASSUME NEW h \in Ctx, RemoveCheck(t, h)
      PROVE  OInv'
  <2>1. h \in owned[t] /\ h \in live /\ MayCall(t) /\ initialized
    BY <1>4 DEF RemoveCheck, MayUse, OInv, Holds
  <2> DEFINE f == [Idle EXCEPT !.pc = "remove", !.h = h]
  <2>2. f.pc = "remove" /\ f.h = h /\ f.caller = "api" /\ f.todo = <<>>
    BY IdleType, IdleFacts DEF Frame
  <2>3. Goto(t, f) /\ UNCHANGED <<undefined, initialized, live>> /\ Forget(t, {h})
    BY <1>4, <2>1 DEF RemoveCheck, tables
  <2> HIDE DEF f
  <2>4. /\ call'[t] = f
        /\ \A u \in Threads \ {t} : call'[u] = call[u] /\ ~InTeardown(u) /\ owned'[u] = owned[u]
        /\ owned'[t] = owned[t] \ {h}
    BY <2>1, <2>3, GotoFacts, NoOtherTeardown DEF Forget, TypeOK
  <2>5. FrameOK(t)' /\ Doomed(t)' = {h} /\ ~InTeardown(t)'
    BY <2>2, <2>4, EmptyRange DEF FrameOK, Doomed, InTeardown
  <2>6. call[t].pc = "idle" /\ ~InTeardown(t) /\ Doomed(t) = {}
    BY <2>1 DEF MayCall, Doomed, OInv, FrameOK, InTeardown
  <2>7. Holds(t)' = Holds(t) /\ owned'[t] \cap Doomed(t)' = {}
    BY <2>1, <2>4, <2>5, <2>6 DEF Holds
  <2>8. QED
    BY <2>1, <2>3, <2>4, <2>5, <2>6, <2>7, QuietStep
<1>5. ASSUME NEW pc \in {"enable_all", "disable_all"}, AllCheck(t, pc)
      PROVE  OInv'
  <2> DEFINE f == [Idle EXCEPT !.pc = pc]
  <2>1. f.pc = pc /\ f.caller = "api" /\ f.todo = <<>>
    BY IdleType, IdleFacts DEF Frame
  <2> HIDE DEF f
  <2>2. QED
    BY <1>5, <2>1, EnterStep DEF AllCheck, tables, f
<1>6. ASSUME RemoveAllCall(t) \/ ShutdownCall(t)
      PROVE  OInv'
  <2>1. PICK pc \in {"remove_all", "remove_all_check"}, c \in {"remove_all", "shutdown"} :
          /\ Goto(t, [Idle EXCEPT !.pc = pc, !.caller = c])
          /\ pc = "remove_all_check" => c = "shutdown"
    BY <1>6 DEF RemoveAllCall, ShutdownCall
  <2> DEFINE f == [Idle EXCEPT !.pc = pc, !.caller = c]
  <2>2. f.pc = pc /\ f.caller = c /\ f.todo = <<>>
    BY IdleType, IdleFacts DEF Frame
  <2> HIDE DEF f
  <2>3. /\ call'[t] = f /\ \A u \in Threads \ {t} : call'[u] = call[u]
        /\ \A u \in Threads : owned'[u] = {} /\ call[u].pc = "idle"
        /\ initialized /\ UNCHANGED <<undefined, initialized, live>>
    BY <1>6, <2>1, GotoFacts DEF RemoveAllCall, ShutdownCall, MayTearDown, ForgetAll, tables, f
  <2>4. FrameOK(t)' /\ Holds(t)' = {} /\ InTeardown(t)'
    BY <2>1, <2>2, <2>3, EmptyRange DEF FrameOK, Doomed, Holds, InTeardown
  <2>5. \A u \in Threads \ {t} : FrameOK(u)' /\ Holds(u)' = {} /\ ~InTeardown(u)'
    BY <2>3 DEF OInv, FrameOK, Doomed, Holds, InTeardown
  <2>6. \A u \in Threads : FrameOK(u)' /\ Holds(u)' = {} /\ owned'[u] \cap Doomed(u)' = {}
    BY <2>3, <2>4, <2>5
  <2>7. QED
    BY <2>3, <2>4, <2>5, <2>6 DEF OInv
<1>7. ASSUME NEW batch \in Batches, InstallAllCall(t, batch)
      PROVE  OInv'
  <2> DEFINE f == [Idle EXCEPT !.pc = "install_next", !.caller = "install_all",
                               !.rest = batch]
  <2>1. f.pc = "install_next" /\ f.caller = "install_all" /\ f.todo = <<>>
    BY IdleType, IdleFacts DEF Frame
  <2> HIDE DEF f
  <2>2. QED
    BY <1>7, <2>1, EnterStep DEF InstallAllCall, tables, f
<1>8. QED
  BY <1>1, <1>2, <1>3, <1>4, <1>5, <1>6, <1>7 DEF Start

LEMMA InstallFailsOwns ==
  ASSUME Disciplined, OInv, TypeOK, NEW t \in Threads, InstallFails(t)
  PROVE  OInv'
<1>1. call[t].pc = "install" /\ FrameOK(t) /\ ~InTeardown(t) /\ Doomed(t) = {}
  BY DEF InstallFails, OInv, FrameOK, Doomed
<1>2. CASE call[t].caller # "install_all"
  BY <1>1, <1>2, ReturnStep DEF InstallFails, tables
<1>3. CASE call[t].caller = "install_all"
  <2>1. /\ Jump(t, "remove_next") /\ Forget(t, Range(call[t].todo))
        /\ UNCHANGED <<undefined, initialized, live>>
    BY <1>3 DEF InstallFails, tables
  <2>2. /\ call'[t].pc = "remove_next" /\ call'[t].caller = "install_all"
        /\ call'[t].todo = call[t].todo
        /\ \A u \in Threads \ {t} : call'[u] = call[u] /\ ~InTeardown(u) /\ owned'[u] = owned[u]
        /\ owned'[t] = owned[t] \ Range(call[t].todo)
    BY <1>1, <1>3, <2>1, JumpFacts, NoOtherTeardown DEF Forget, TypeOK, Labels
  <2>3. Range(call[t].todo) \subseteq owned[t]
    BY <1>1 DEF FrameOK
  <2>4. FrameOK(t)' /\ ~InTeardown(t)' /\ Doomed(t)' = Range(call[t].todo)
    BY <1>1, <2>2 DEF FrameOK, InTeardown, Doomed
  <2>5. Holds(t)' = Holds(t) /\ owned'[t] \cap Doomed(t)' = {}
    BY <1>1, <2>2, <2>3, <2>4 DEF Holds
  <2>6. initialized
    BY <1>1 DEF OInv
  <2>7. QED
    BY <1>1, <2>1, <2>2, <2>4, <2>5, <2>6, QuietStep
<1>4. QED
  BY <1>2, <1>3

LEMMA InstallSucceedsOwns ==
  ASSUME Disciplined, OInv, TypeOK, NEW t \in Threads, NEW h \in Ctx, InstallSucceeds(t, h)
  PROVE  OInv'
<1> DEFINE f == call[t]
<1>0. f \in Frame /\ f.todo \in Seq(Ctx)
  BY DEF TypeOK, Frame
<1>1. f.pc = "install" /\ FrameOK(t) /\ ~InTeardown(t) /\ Doomed(t) = {} /\ initialized
  BY DEF InstallSucceeds, OInv, FrameOK, Doomed
<1>2. /\ h \notin live /\ live' = live \cup {h} /\ UNCHANGED <<undefined, initialized>>
      /\ owned'[t] = owned[t] \cup {h} /\ \A u \in Threads \ {t} : owned'[u] = owned[u]
      /\ \A u \in Threads \ {t} : ~InTeardown(u)
  BY <1>1, NoOtherTeardown DEF InstallSucceeds, TypeOK
<1>3. owned[t] \subseteq live /\ Range(f.todo) \subseteq owned[t] /\ Unique(f.todo)
  BY <1>1 DEF OInv, Holds, FrameOK
<1>4. /\ FrameOK(t)' /\ ~InTeardown(t)' /\ Doomed(t)' = {}
      /\ \A u \in Threads \ {t} : call'[u] = call[u]
  <2>1. CASE f.caller = "install_all"
    <3> DEFINE g == [f EXCEPT !.pc = "install_next", !.todo = Append(f.todo, h)]
    <3>1. g.pc = "install_next" /\ g.caller = "install_all" /\ g.todo = Append(f.todo, h)
      BY <1>0, <2>1 DEF Frame
    <3>2. Goto(t, g)
      BY <2>1 DEF InstallSucceeds
    <3> HIDE DEF g, f
    <3>3. call'[t] = g /\ \A u \in Threads \ {t} : call'[u] = call[u]
      BY <3>2, GotoFacts
    <3>4. Range(g.todo) = Range(f.todo) \cup {h} /\ Unique(g.todo)
      <4>1. h \notin Range(f.todo)
        BY <1>2, <1>3
      <4>2. QED
        BY <1>0, <1>3, <3>1, <4>1, AppendFacts DEF Unique
    <3>5. Range(g.todo) \subseteq owned'[t]
      BY <1>2, <1>3, <3>4
    <3>6. QED
      BY <3>1, <3>3, <3>4, <3>5 DEF FrameOK, InTeardown, Doomed
  <2>2. CASE f.caller # "install_all"
    <3>1. call'[t] = Idle /\ \A u \in Threads \ {t} : call'[u] = call[u]
      BY <2>2, ReturnFacts DEF InstallSucceeds
    <3>2. QED
      BY <3>1, IdleFacts, EmptyRange DEF FrameOK, InTeardown, Doomed
  <2>3. QED
    BY <2>1, <2>2
<1>5. Holds(t) = owned[t] /\ Holds(t)' = owned[t] \cup {h}
  BY <1>1, <1>2, <1>4 DEF Holds
<1>6. Holds(t)' \subseteq live' /\ live' \ Holds(t)' = live \ Holds(t)
  BY <1>2, <1>3, <1>5
<1> HIDE DEF f
<1>7. QED
  BY <1>1, <1>2, <1>4, <1>6, LocalStep

LEMMA RemoveFoundOwns ==
  ASSUME Disciplined, OInv, TypeOK, NEW t \in Threads, RemoveFound(t)
  PROVE  OInv'
<1> DEFINE h == call[t].h
           rest == Range(call[t].todo)
<1>1. /\ call[t].pc = "remove" /\ FrameOK(t) /\ initialized
      /\ live' = live \ {h} /\ UNCHANGED <<undefined, initialized, owned>>
      /\ \A u \in Threads \ {t} : ~InTeardown(u)
  BY NoOtherTeardown DEF RemoveFound, OInv
<1>2. h \in live /\ h \notin rest /\ h \notin owned[t] /\ Doomed(t) = {h} \cup rest
      /\ owned[t] \cap rest = {} /\ owned[t] \cup rest \subseteq live
  BY <1>1 DEF Doomed, OInv, FrameOK, Holds
<1>3. CASE call[t].caller = "api"
  <2>1. call'[t] = Idle /\ \A u \in Threads \ {t} : call'[u] = call[u]
    BY <1>3, ReturnFacts DEF RemoveFound, AfterRemove
  <2>2. FrameOK(t)' /\ ~InTeardown(t)' /\ Doomed(t)' = {} /\ ~InTeardown(t)
    BY <1>3, <2>1, IdleFacts, EmptyRange DEF FrameOK, InTeardown, Doomed
  <2>3. rest = {}
    BY <1>1, <1>3, EmptyRange DEF FrameOK
  <2>4. Holds(t)' = owned[t] /\ Holds(t) = owned[t] \cup {h}
    BY <1>1, <1>2, <2>2, <2>3 DEF Holds
  <2>5. Holds(t)' \subseteq live' /\ live' \ Holds(t)' = live \ Holds(t)
    BY <1>1, <1>2, <2>4
  <2> HIDE DEF h, rest
  <2>6. QED
    BY <1>1, <2>1, <2>2, <2>5, LocalStep
<1>4. CASE call[t].caller # "api"
  <2>1. Jump(t, "remove_next")
    BY <1>4 DEF RemoveFound, AfterRemove
  <2>2. /\ call'[t].pc = "remove_next" /\ call'[t].caller = call[t].caller
        /\ call'[t].todo = call[t].todo
        /\ \A u \in Threads \ {t} : call'[u] = call[u]
    BY <2>1, JumpFacts DEF Labels
  <2>3. Doomed(t)' = rest /\ (InTeardown(t)' <=> InTeardown(t))
    BY <2>2 DEF InTeardown, Doomed
  <2>4. InTeardown(t) => owned[t] = {} /\ live \subseteq {h} \cup rest
    BY <1>1, <1>2 DEF OInv, FrameOK
  <2>5. FrameOK(t)'
    BY <1>1, <1>4, <2>2, <2>3, <2>4 DEF FrameOK
  <2>6. Holds(t)' = owned[t] \cup rest /\ Holds(t) = owned[t] \cup {h} \cup rest
    BY <1>1, <1>2, <2>3 DEF Holds
  <2>7. Holds(t)' \subseteq live' /\ live' \ Holds(t)' = live \ Holds(t)
        /\ owned'[t] \cap Doomed(t)' = {}
    BY <1>1, <1>2, <2>3, <2>6
  <2> HIDE DEF h, rest
  <2>8. QED
    BY <1>1, <2>2, <2>3, <2>4, <2>5, <2>7, LocalStep
<1>5. QED
  BY <1>3, <1>4

LEMMA RemoveLoopOwns ==
  ASSUME Disciplined, OInv, HeapInv, NEW t \in Threads,
         RemoveAllCheck(t) \/ RemoveAllCopy(t) \/ RemoveNext(t) \/ RemoveLoopEnds(t)
  PROVE  OInv'
<1> USE DEF HeapInv
<1> DEFINE f == call[t]
<1>0. f \in Frame /\ f.todo \in Seq(Ctx) /\ f.pc # "idle"
  BY DEF TypeOK, Frame, RemoveAllCheck, RemoveAllCopy, RemoveNext, RemoveLoopEnds
<1>1. FrameOK(t) /\ initialized /\ \A u \in Threads \ {t} : ~InTeardown(u)
  BY <1>0, NoOtherTeardown DEF OInv
<1>2. CASE RemoveAllCheck(t)
  <2>1. Jump(t, "remove_all") /\ UNCHANGED <<undefined, initialized, live, owned>>
    BY <1>1, <1>2 DEF RemoveAllCheck, tables
  <2>2. /\ call'[t].pc = "remove_all" /\ call'[t].caller = "shutdown"
        /\ call'[t].todo = f.todo
        /\ \A u \in Threads \ {t} : call'[u] = call[u]
    BY <1>1, <1>2, <2>1, JumpFacts DEF RemoveAllCheck, FrameOK, Labels
  <2>3. Doomed(t) = {} /\ Doomed(t)' = {} /\ InTeardown(t) /\ InTeardown(t)' /\ owned[t] = {}
    BY <1>1, <1>2, <2>2 DEF RemoveAllCheck, Doomed, FrameOK, InTeardown, OInv
  <2>4. FrameOK(t)'
    BY <1>1, <2>2, <2>3 DEF FrameOK
  <2>5. Holds(t)' = Holds(t)
    BY <2>1, <2>3 DEF Holds
  <2>6. QED
    BY <1>1, <2>1, <2>2, <2>3, <2>4, <2>5, QuietStep
<1>3. CASE RemoveAllCopy(t)
  <2> DEFINE g == [f EXCEPT !.pc = "remove_next", !.todo = hooks]
  <2>1. g.pc = "remove_next" /\ g.caller = f.caller /\ g.todo = hooks
    BY <1>0 DEF Frame
  <2>2. Goto(t, g) /\ UNCHANGED <<undefined, initialized, live, owned>> /\ f.pc = "remove_all"
    BY <1>3 DEF RemoveAllCopy, hooks_copy, tables
  <2> HIDE DEF g, f
  <2>3. call'[t] = g /\ \A u \in Threads \ {t} : call'[u] = call[u]
    BY <2>2, GotoFacts
  <2>4. InTeardown(t) /\ InTeardown(t)' /\ owned[t] = {}
    BY <1>1, <2>1, <2>2, <2>3 DEF FrameOK, InTeardown, OInv, f
  <2>5. Doomed(t)' = live /\ Unique(hooks)
    BY <2>1, <2>3 DEF Doomed
  <2>6. FrameOK(t)'
    BY <2>1, <2>2, <2>3, <2>4, <2>5 DEF FrameOK, InTeardown
  <2>7. Holds(t)' = live /\ Holds(t) = {} /\ \A u \in Threads \ {t} : Holds(u) = {}
    BY <2>2, <2>4, <2>5 DEF Holds, Doomed, OInv, f
  <2>8. \A u \in Threads \ {t} :
          FrameOK(u)' /\ Holds(u)' = {} /\ ~InTeardown(u)' /\ owned'[u] \cap Doomed(u)' = {}
    <3>1. \A u \in Threads \ {t} : FrameOK(u) /\ call[u].pc = "idle" /\ owned[u] = {}
      BY <2>4 DEF OInv
    <3>2. QED
      BY <1>1, <2>2, <2>3, <3>1 DEF FrameOK, Holds, Doomed, InTeardown
  <2>9. /\ \A u \in Threads : FrameOK(u)' /\ Holds(u)' \subseteq live'
                              /\ owned'[u] \cap Doomed(u)' = {} /\ owned'[u] = {}
        /\ \A u, v \in Threads : u # v => Holds(u)' \cap Holds(v)' = {}
    BY <2>2, <2>4, <2>6, <2>7, <2>8 DEF OInv
  <2>10. \A u \in Threads \ {t} : call'[u].pc = "idle"
    BY <2>3, <2>4 DEF OInv
  <2>11. ~undefined' /\ initialized'
    BY <1>1, <2>2 DEF OInv
  <2>12. \A x \in live' : x \in Holds(t)'
    BY <2>2, <2>7
  <2>13. QED
    BY <2>4, <2>8, <2>9, <2>10, <2>11, <2>12 DEF OInv
<1>4. CASE RemoveNext(t)
  <2>1. /\ f.pc = "remove_next" /\ f.todo # <<>> /\ f.caller # "api"
        /\ Doomed(t) = Range(f.todo) /\ Unique(f.todo)
    BY <1>1, <1>4 DEF RemoveNext, Doomed, FrameOK
  <2>2. /\ Unique(Tail(f.todo)) /\ Head(f.todo) \notin Range(Tail(f.todo))
        /\ Range(f.todo) = {Head(f.todo)} \cup Range(Tail(f.todo))
    BY <1>0, <2>1, TailFacts
  <2>3. Head(f.todo) \in live
    BY <2>1, <2>2 DEF OInv, Holds
  <2> DEFINE g == [f EXCEPT !.pc = "remove", !.h = Head(f.todo), !.todo = Tail(f.todo)]
  <2>4. /\ g.pc = "remove" /\ g.caller = f.caller /\ g.h = Head(f.todo)
        /\ g.todo = Tail(f.todo)
    BY <1>0 DEF Frame
  <2>5. Goto(t, g) /\ UNCHANGED <<undefined, initialized, live, owned>>
    BY <1>1, <1>4, <2>3 DEF RemoveNext, tables
  <2> HIDE DEF g, f
  <2>6. call'[t] = g /\ \A u \in Threads \ {t} : call'[u] = call[u]
    BY <2>5, GotoFacts
  <2>7. Doomed(t)' = Doomed(t) /\ (InTeardown(t)' <=> InTeardown(t))
    BY <2>1, <2>2, <2>4, <2>6 DEF Doomed, InTeardown, f
  <2>8. Holds(t)' = Holds(t) /\ owned'[t] \cap Doomed(t)' = {}
    BY <2>5, <2>7 DEF Holds, OInv
  <2>9. InTeardown(t) => live \subseteq Doomed(t) /\ owned[t] = {}
    BY <1>1, <2>1 DEF FrameOK, OInv, f
  <2>10. FrameOK(t)'
    BY <2>1, <2>2, <2>4, <2>5, <2>6, <2>7, <2>9 DEF FrameOK
  <2>11. QED
    BY <1>1, <2>5, <2>6, <2>7, <2>8, <2>9, <2>10, QuietStep
<1>5. CASE RemoveLoopEnds(t)
  <2>1. /\ f.pc = "remove_next" /\ f.todo = <<>> /\ Doomed(t) = {}
        /\ UNCHANGED <<undefined, initialized, live, owned>>
    BY <1>5, EmptyRange DEF RemoveLoopEnds, Doomed, tables
  <2>2. InTeardown(t) => live = {}
    BY <1>1, <2>1 DEF FrameOK
  <2>3. CASE f.caller # "shutdown"
    BY <1>0, <1>5, <2>1, <2>2, <2>3, ReturnStep DEF RemoveLoopEnds
  <2>4. CASE f.caller = "shutdown"
    <3>1. Jump(t, "shutdown_end")
      BY <1>5, <2>4 DEF RemoveLoopEnds
    <3>2. /\ call'[t].pc = "shutdown_end" /\ call'[t].caller = "shutdown"
          /\ call'[t].todo = <<>>
          /\ \A u \in Threads \ {t} : call'[u] = call[u]
      BY <2>1, <2>4, <3>1, JumpFacts DEF Labels
    <3>3. Doomed(t)' = {} /\ InTeardown(t) /\ InTeardown(t)' /\ owned[t] = {}
      BY <2>4, <3>2 DEF Doomed, InTeardown, OInv
    <3>4. FrameOK(t)'
      BY <2>1, <2>2, <3>2, <3>3, EmptyRange DEF FrameOK
    <3>5. Holds(t)' = Holds(t)
      BY <2>1, <3>3 DEF Holds
    <3> HIDE DEF f
    <3>6. QED
      BY <1>1, <2>1, <3>2, <3>3, <3>4, <3>5, QuietStep
  <2>5. QED
    BY <2>3, <2>4
<1>6. QED
  BY <1>2, <1>3, <1>4, <1>5

LEMMA ShutdownEndsOwns ==
  ASSUME Disciplined, OInv, TypeOK, NEW t \in Threads, ShutdownEnds(t)
  PROVE  OInv'
<1>1. FrameOK(t) /\ call[t].pc = "shutdown_end"
  BY DEF ShutdownEnds, OInv
<1>2. live = {} /\ InTeardown(t)
  BY <1>1 DEF FrameOK, InTeardown
<1>3. \A u \in Threads : owned[u] = {} /\ (u # t => call[u].pc = "idle")
  BY <1>2 DEF OInv
<1>4. call'[t] = Idle /\ \A u \in Threads \ {t} : call'[u] = call[u]
  BY ReturnFacts DEF ShutdownEnds
<1>5. UNCHANGED <<undefined, live, owned>>
  BY DEF ShutdownEnds
<1>6. ASSUME NEW u \in Threads
      PROVE  FrameOK(u)' /\ Holds(u)' = {} /\ ~InTeardown(u)' /\ call'[u].pc = "idle"
  <2>1. CASE u = t
    BY <1>3, <1>4, <1>5, <2>1, IdleFacts, EmptyRange DEF FrameOK, Holds, Doomed, InTeardown
  <2>2. CASE u # t
    BY <1>3, <1>4, <1>5, <2>2 DEF OInv, FrameOK, Holds, Doomed, InTeardown
  <2>3. QED
    BY <2>1, <2>2
<1>7. \A u \in Threads : owned'[u] \cap Doomed(u)' = {}
  BY <1>3, <1>5
<1>8. QED
  BY <1>2, <1>5, <1>6, <1>7 DEF OInv

LEMMA InstallAllOwns ==
  ASSUME Disciplined, OInv, TypeOK, NEW t \in Threads, InstallNext(t) \/ InstallAllEnables(t)
  PROVE  OInv'
<1> DEFINE f == call[t]
<1>0. f \in Frame
  BY DEF TypeOK
<1>1. /\ f.pc = "install_next" /\ f.caller = "install_all" /\ FrameOK(t) /\ initialized
      /\ Doomed(t) = {} /\ ~InTeardown(t) /\ UNCHANGED <<undefined, initialized, live>>
      /\ \A u \in Threads \ {t} : ~InTeardown(u)
  BY NoOtherTeardown DEF InstallNext, InstallAllEnables, OInv, FrameOK, Doomed, InTeardown, tables
<1>2. UNCHANGED owned
  BY <1>1 DEF InstallNext, InstallAllEnables
<1>3. /\ call'[t].pc \in {"install", "enable_all"} /\ call'[t].caller = f.caller
      /\ call'[t].todo = f.todo /\ \A u \in Threads \ {t} : call'[u] = call[u]
  <2>1. CASE InstallNext(t)
    <3> DEFINE g == InstallFrame(f, Head(f.rest)[1], Head(f.rest)[2])
    <3>1. g \in Frame /\ g.pc = "install" /\ g.caller = f.caller /\ g.todo = f.todo
      <4>1. Head(f.rest) \in Addr \X Detour
        BY <1>0, <2>1 DEF Frame, InstallNext
      <4>2. Head(f.rest)[1] \in Addr /\ Head(f.rest)[2] \in Detour
        BY <4>1
      <4> HIDE DEF f
      <4>3. QED
        BY <1>0, <4>2, InstallFrameType, InstallFrameFacts
    <3>2. Goto(t, [g EXCEPT !.rest = Tail(f.rest)])
      BY <1>1, <2>1 DEF InstallNext
    <3> HIDE DEF g, f
    <3>3. QED
      BY <3>1, <3>2, GotoFacts DEF Frame
  <2>2. CASE InstallAllEnables(t)
    BY <1>1, <2>2, JumpFacts DEF InstallAllEnables, Labels
  <2>3. QED
    BY <2>1, <2>2
<1> HIDE DEF f
<1>4. FrameOK(t)' /\ Doomed(t)' = {} /\ ~InTeardown(t)'
  BY <1>1, <1>2, <1>3 DEF FrameOK, Doomed, InTeardown, f
<1>5. Holds(t)' = Holds(t)
  BY <1>1, <1>2, <1>4 DEF Holds
<1>6. QED
  BY <1>1, <1>2, <1>3, <1>4, <1>5, QuietStep

LEMMA ProceedOwns ==
  ASSUME Disciplined, OInv, HeapInv, NEW t \in Threads, Proceed(t)
  PROVE  OInv'
<1>1. CASE RemoveNotFound(t)
  <2>1. call[t].h \in live
    BY <1>1 DEF RemoveNotFound, OInv, Holds, Doomed
  <2>2. QED
    BY <1>1, <2>1 DEF RemoveNotFound, HeapInv
<1>2. CASE FreedBeforeLock(t)
  <2>1. call[t].h \in owned[t]
    BY <1>2 DEF FreedBeforeLock, OInv, FrameOK
  <2>2. QED
    BY <1>2, <2>1 DEF FreedBeforeLock, OInv, Holds
<1>3. CASE \/ EnableSection(t) \/ DisableSection(t)
           \/ EnableAllSection(t) \/ DisableAllSection(t)
  <2>1. /\ call[t].pc \in {"enable", "disable", "enable_all", "disable_all"}
        /\ Return(t) /\ UNCHANGED <<undefined, initialized, live, owned>>
    BY <1>3 DEF EnableSection, DisableSection, EnableAllSection, DisableAllSection
  <2>2. Doomed(t) = {} /\ ~InTeardown(t)
    BY <2>1 DEF Doomed, OInv, FrameOK
  <2>3. QED
    BY <2>1, <2>2, ReturnStep DEF HeapInv
<1>4. QED
  BY <1>1, <1>2, <1>3, InstallFailsOwns, InstallSucceedsOwns, RemoveFoundOwns,
     RemoveLoopOwns, ShutdownEndsOwns, InstallAllOwns DEF Proceed, HeapInv

LEMMA InitOwns == Init => OInv
<1> SUFFICES ASSUME Init
             PROVE  OInv
  OBVIOUS
<1>1. \A t \in Threads : call[t] = Idle /\ owned[t] = {}
  BY DEF Init
<1>2. \A t \in Threads : FrameOK(t) /\ Holds(t) = {} /\ ~InTeardown(t) /\ Doomed(t) = {}
  BY <1>1, IdleFacts, EmptyRange DEF FrameOK, Holds, Doomed, InTeardown
<1>3. QED
  BY <1>1, <1>2, IdleFacts DEF Init, OInv

LEMMA StepOwns ==
  ASSUME Disciplined, OInv, HeapInv, [Next]_vars
  PROVE  OInv'
<1>1. CASE UNCHANGED vars
  BY <1>1 DEF vars, OInv, FrameOK, Holds, Doomed, InTeardown
<1>2. QED
  BY <1>1, StartOwns, ProceedOwns DEF Next, HeapInv

LEMMA DisciplinedInvariance == Disciplined => (Spec => [](HeapInv /\ OInv))
<1> SUFFICES ASSUME Disciplined
             PROVE  Spec => [](HeapInv /\ OInv)
  OBVIOUS
<1>1. Init => HeapInv /\ OInv
  BY InitType, InitOwns, EmptyRange DEF Init, HeapInv
<1>2. (HeapInv /\ OInv) /\ [Next]_vars => (HeapInv /\ OInv)'
  BY StepHeap, StepOwns
<1>3. QED
  BY <1>1, <1>2, PTL DEF Spec

\* A client that passes each handle from one thread at a time, and tears down alone,
\* never makes the unlocked checks of the API read a deleted context, chaining or not.
THEOREM NoDanglingHandle == Disciplined => (Spec => []NoUseAfterFree)
<1> SUFFICES ASSUME Disciplined
             PROVE  Spec => []NoUseAfterFree
  OBVIOUS
<1>1. OInv => NoUseAfterFree
  BY DEF OInv, NoUseAfterFree
<1>2. QED
  BY <1>1, DisciplinedInvariance, PTL

\* If such a client does not chain hooks either, every live hook can still be removed, also after an install_all
\* that failed half way, and shutdown leaves no hook and no patched byte.
THEOREM EveryHookOwned == NoChaining /\ Disciplined => (Spec => []NoHookOutlivesItsOwner)
<1> SUFFICES ASSUME NoChaining, Disciplined
             PROVE  Spec => []NoHookOutlivesItsOwner
  OBVIOUS
<1>1. IInv /\ OInv => NoHookOutlivesItsOwner
  <2> SUFFICES ASSUME IInv, OInv
               PROVE  NoHookOutlivesItsOwner
    OBVIOUS
  <2>1. ASSUME NEW h \in live
        PROVE  \E t \in Threads :
                 \/ h \in owned[t]
                 \/ InTeardown(t)
                 \/ call[t].pc = "remove" /\ call[t].h = h
                 \/ call[t].pc \in {"remove", "remove_next"} /\ h \in Range(call[t].todo)
    <3>1. PICK t \in Threads : h \in Holds(t) \/ InTeardown(t)
      BY DEF OInv
    <3>2. QED
      BY <3>1 DEF Holds, Doomed
  <2>2. ASSUME ~initialized
        PROVE  live = {} /\ \A a \in Addr : code[a] = Orig
    <3>1. live = {}
      BY <2>2 DEF OInv
    <3>2. QED
      BY <3>1 DEF IInv, TableConsistent, PatchesMatchTable
  <2>3. QED
    BY <2>1, <2>2 DEF NoHookOutlivesItsOwner
<1>2. QED
  BY <1>1, DisciplinedInvariance, UnchainedInvariance, PTL

-----------------------------------------------------------------------------
(* Refinement: the manager implements HookTable *)

LEMMA InitRefines == Init => Table!Init
BY DEF Init, Table!Init, AbsSlot

\* A step of the shared state that the table does not see.
LEMMA StutterRefines ==
  ASSUME UNCHANGED <<initialized, target_map, ctx, code>>
  PROVE  UNCHANGED Table!vars
BY DEF Table!vars, AbsSlot

\* What the bytes do is what the table says a call runs.
LEMMA EffectIsCode ==
  ASSUME IInv'
  PROVE  code' = Table!Effect(AbsSlot')
<1>1. code' = [a \in Addr |-> IF target_map'[a] # NoCtx /\ ctx'[target_map'[a]].enabled
                              THEN HookCode(a, ctx'[target_map'[a]].detour) ELSE Orig]
  BY DEF IInv, TypeOK, PatchesMatchTable
<1>2. \A a \in Addr : target_map'[a] # NoCtx =>
        ctx'[target_map'[a]].detour \in Detour /\ ctx'[target_map'[a]].enabled \in BOOLEAN
  BY DEF IInv, TypeOK, TableConsistent, Context
<1>3. \A a \in Addr : AbsSlot'[a] # NoCtx <=> target_map'[a] # NoCtx
  BY <1>2, NullIsNoHook DEF AbsSlot
<1>4. \A a \in Addr : target_map'[a] # NoCtx =>
        /\ AbsSlot'[a].on = ctx'[target_map'[a]].enabled
        /\ AbsSlot'[a].detour = ctx'[target_map'[a]].detour
  BY DEF AbsSlot
<1>5. \A a \in Addr, d \in Detour : Table!Entered(a, d) = HookCode(a, d)
  BY DEF Table!Entered, HookCode
<1>6. \A a \in Addr :
        (IF target_map'[a] # NoCtx /\ ctx'[target_map'[a]].enabled
         THEN HookCode(a, ctx'[target_map'[a]].detour) ELSE Orig)
        = (IF AbsSlot'[a] # NoCtx /\ AbsSlot'[a].on
           THEN Table!Entered(a, AbsSlot'[a].detour) ELSE Orig)
  BY <1>2, <1>3, <1>4, <1>5
<1>7. QED
  BY <1>1, <1>6 DEF Table!Effect

LEMMA SlotOf ==
  ASSUME IInv, NEW a \in Addr
  PROVE  /\ AbsSlot[a] # NoCtx <=> target_map[a] # NoCtx
         /\ target_map[a] # NoCtx =>
              /\ AbsSlot[a].detour = ctx[target_map[a]].detour
              /\ AbsSlot[a].on = ctx[target_map[a]].enabled
              /\ AbsSlot[a] = [detour |-> ctx[target_map[a]].detour,
                               on |-> ctx[target_map[a]].enabled]
<1>1. target_map[a] # NoCtx =>
        ctx[target_map[a]].detour \in Detour /\ ctx[target_map[a]].enabled \in BOOLEAN
  BY DEF IInv, TypeOK, TableConsistent, Context
<1>2. QED
  BY <1>1, NullIsNoHook DEF AbsSlot

\* A context that keeps its detour and its flag keeps its slot.
LEMMA SlotKept ==
  ASSUME NEW a \in Addr, target_map'[a] = target_map[a],
         target_map[a] # NoCtx =>
           /\ ctx'[target_map[a]].detour = ctx[target_map[a]].detour
           /\ ctx'[target_map[a]].enabled = ctx[target_map[a]].enabled
  PROVE  AbsSlot'[a] = AbsSlot[a]
BY DEF AbsSlot

LEMMA InstallRefines ==
  ASSUME IInv, IInv', OInv, NEW t \in Threads, NEW h \in Ctx, InstallSucceeds(t, h)
  PROVE  Table!Next
<1> DEFINE a == call[t].addr
           d == call[t].det
<1>1. a \in Addr /\ d \in Detour /\ initialized
  BY DEF IInv, TypeOK, Frame, InstallSucceeds, OInv
<1>2. /\ target_map[a] = NoCtx
      /\ target_map' = [target_map EXCEPT ![a] = h]
      /\ ctx' = [ctx EXCEPT ![h] = [target |-> a, detour |-> d,
                                   saved |-> code[a], enabled |-> FALSE]]
      /\ h \notin live /\ h # NoCtx /\ UNCHANGED initialized
  BY HookConstants DEF InstallSucceeds, IInv, AlreadyInstalled
<1> HIDE DEF a, d
<1>3. AbsSlot[a] = NoCtx
  BY <1>1, <1>2 DEF AbsSlot
<1>4. /\ target_map'[a] = h
      /\ \A b \in Addr \ {a} : target_map'[b] = target_map[b]
      /\ ctx'[h].detour = d /\ ctx'[h].enabled = FALSE
      /\ \A g \in Ctx \ {h} : ctx'[g] = ctx[g]
  BY <1>1, <1>2 DEF IInv, TypeOK
<1>5. AbsSlot'[a] = [detour |-> d, on |-> FALSE]
  BY <1>1, <1>2, <1>4 DEF AbsSlot
<1>6. \A b \in Addr \ {a} : AbsSlot'[b] = AbsSlot[b]
  <2>1. \A b \in Addr \ {a} : target_map[b] # NoCtx => target_map[b] \in live
    BY DEF IInv, TableConsistent
  <2>2. \A b \in Addr \ {a} : target_map[b] # NoCtx =>
          target_map[b] \in Ctx \ {h}
    BY <1>2, <2>1 DEF IInv, TypeOK
  <2>3. QED
    BY <1>4, <2>2, SlotKept
<1>7. AbsSlot' = [AbsSlot EXCEPT ![a] = [detour |-> d, on |-> FALSE]]
  BY <1>1, <1>5, <1>6 DEF AbsSlot
<1>8. Table!Install(a, d)
  BY <1>1, <1>2, <1>3, <1>7, EffectIsCode DEF Table!Install, Table!Change
<1>9. QED
  BY <1>1, <1>8 DEF Table!Next

LEMMA RemoveRefines ==
  ASSUME IInv, IInv', OInv, NEW t \in Threads, RemoveFound(t)
  PROVE  Table!Next
<1> DEFINE h == call[t].h
           a == ctx[h].target
<1>1. h \in live /\ initialized
  BY DEF RemoveFound, IInv, TableConsistent, OInv
<1>2. a \in Addr /\ target_map[a] = h /\ h # NoCtx
  BY <1>1, HookConstants DEF IInv, TypeOK, TableConsistent, Context
<1>3. target_map' = [target_map EXCEPT ![a] = NoCtx] /\ UNCHANGED <<ctx, initialized>>
  BY DEF RemoveFound
<1> HIDE DEF a, h
<1>4. target_map'[a] = NoCtx /\ \A b \in Addr \ {a} : target_map'[b] = target_map[b]
  BY <1>2, <1>3 DEF IInv, TypeOK
<1>5. AbsSlot'[a] = NoCtx /\ \A b \in Addr \ {a} : AbsSlot'[b] = AbsSlot[b]
  BY <1>2, <1>3, <1>4, SlotKept DEF AbsSlot
<1>6. AbsSlot' = [AbsSlot EXCEPT ![a] = NoCtx]
  BY <1>2, <1>5 DEF AbsSlot
<1>7. AbsSlot[a] # NoCtx
  BY <1>2, SlotOf
<1>8. Table!Remove(a)
  BY <1>1, <1>3, <1>6, <1>7, EffectIsCode DEF Table!Remove, Table!Change
<1>9. QED
  BY <1>2, <1>8 DEF Table!Next

LEMMA SwitchRefines ==
  ASSUME IInv, IInv', OInv, NEW t \in Threads, EnableSection(t) \/ DisableSection(t)
  PROVE  Table!Next \/ UNCHANGED Table!vars
<1> DEFINE h == call[t].h
           a == ctx[h].target
<1>1. h \in live /\ h \in Ctx /\ initialized /\ UNCHANGED <<initialized, target_map>>
  BY DEF EnableSection, DisableSection, IInv, TypeOK, OInv
<1>2. a \in Addr /\ target_map[a] = h /\ h # NoCtx
  BY <1>1, HookConstants DEF IInv, TypeOK, TableConsistent, Context
<1>3. CASE UNCHANGED <<code, ctx>>
  BY <1>1, <1>3, StutterRefines
<1>4. CASE ~UNCHANGED <<code, ctx>>
  <2>1. PICK e \in BOOLEAN : ctx' = [ctx EXCEPT ![h].enabled = e]
    BY <1>4 DEF EnableSection, DisableSection
  <2> HIDE DEF a, h
  <2>2. /\ ctx'[h] = [ctx[h] EXCEPT !.enabled = e] /\ ctx[h] \in Context
        /\ \A g \in Ctx \ {h} : ctx'[g] = ctx[g]
    BY <1>1, <2>1 DEF IInv, TypeOK
  <2>3. ctx'[h].enabled = e /\ ctx'[h].detour = ctx[h].detour
    BY <2>2 DEF Context
  <2>4. AbsSlot[a] = [detour |-> ctx[h].detour, on |-> ctx[h].enabled] /\ AbsSlot[a] # NoCtx
    BY <1>2, SlotOf
  <2>5. AbsSlot'[a] = [detour |-> ctx[h].detour, on |-> e]
    BY <1>1, <1>2, <2>3 DEF AbsSlot
  <2>6. \A b \in Addr \ {a} : AbsSlot'[b] = AbsSlot[b]
    <3>1. \A b \in Addr \ {a} : target_map[b] # NoCtx =>
            target_map[b] \in live /\ ctx[target_map[b]].target = b
      BY DEF IInv, TableConsistent
    <3>2. \A b \in Addr \ {a} : target_map[b] # NoCtx => target_map[b] \in Ctx \ {h}
      BY <3>1 DEF IInv, TypeOK, a
    <3>3. QED
      BY <1>1, <2>2, <3>2, SlotKept
  <2>7. [AbsSlot[a] EXCEPT !.on = e] = [detour |-> ctx[h].detour, on |-> e]
    BY <2>4
  <2>8. AbsSlot' = [AbsSlot EXCEPT ![a].on = e]
    BY <1>2, <2>5, <2>6, <2>7 DEF AbsSlot
  <2>9. Table!Switch(a, e)
    BY <1>1, <2>4, <2>8, EffectIsCode DEF Table!Switch, Table!Change
  <2>10. QED
    BY <1>2, <2>9 DEF Table!Next
<1>5. QED
  BY <1>3, <1>4

LEMMA SwitchAllRefines ==
  ASSUME IInv, IInv', OInv, NEW t \in Threads, EnableAllSection(t) \/ DisableAllSection(t)
  PROVE  Table!Next
<1>1. PICK e \in BOOLEAN :
        ctx' = [h \in Ctx |-> IF h \in Range(hooks) THEN [ctx[h] EXCEPT !.enabled = e]
                              ELSE ctx[h]]
  BY DEF EnableAllSection, DisableAllSection
<1>2. initialized /\ UNCHANGED <<initialized, target_map>>
  BY DEF EnableAllSection, DisableAllSection, OInv
<1>3. \A h \in live : ctx'[h].detour = ctx[h].detour /\ ctx'[h].enabled = e
  BY <1>1 DEF IInv, TypeOK, TableConsistent, Context
<1>4. \A a \in Addr :
        AbsSlot'[a] = IF AbsSlot[a] = NoCtx THEN NoCtx
                      ELSE [detour |-> AbsSlot[a].detour, on |-> e]
  <2>1. SUFFICES ASSUME NEW a \in Addr
                 PROVE  AbsSlot'[a] = IF AbsSlot[a] = NoCtx THEN NoCtx
                                      ELSE [detour |-> AbsSlot[a].detour, on |-> e]
    OBVIOUS
  <2>2. CASE target_map[a] = NoCtx
    BY <1>2, <2>2 DEF AbsSlot
  <2>3. CASE target_map[a] # NoCtx
    <3>1. target_map[a] \in live
      BY <2>3 DEF IInv, TableConsistent
    <3>2. AbsSlot'[a] = [detour |-> ctx[target_map[a]].detour, on |-> e]
      BY <1>2, <1>3, <2>3, <3>1 DEF AbsSlot
    <3>3. QED
      BY <2>3, <3>2, SlotOf
  <2>4. QED
    BY <2>2, <2>3
<1>5. AbsSlot' = [a \in Addr |-> IF AbsSlot[a] = NoCtx THEN NoCtx
                                 ELSE [detour |-> AbsSlot[a].detour, on |-> e]]
  BY <1>4 DEF AbsSlot
<1>6. Table!SwitchAll(e)
  BY <1>2, <1>5, EffectIsCode DEF Table!SwitchAll, Table!Change
<1>7. QED
  BY <1>6 DEF Table!Next

LEMMA CloseRefines ==
  ASSUME IInv, OInv, NEW t \in Threads, ShutdownEnds(t)
  PROVE  Table!Next
<1>1. live = {} /\ initialized
  BY DEF ShutdownEnds, OInv, FrameOK
<1>2. \A a \in Addr : AbsSlot[a] = NoCtx
  BY <1>1 DEF IInv, TableConsistent, AbsSlot
<1>3. initialized' = FALSE /\ UNCHANGED <<code, AbsSlot>>
  BY DEF ShutdownEnds, AbsSlot
<1>4. Table!Close
  BY <1>1, <1>2, <1>3 DEF Table!Close
<1>5. QED
  BY <1>4 DEF Table!Next

LEMMA StepRefines ==
  ASSUME IInv, IInv', OInv, [Next]_vars
  PROVE  [Table!Next]_(Table!vars)
<1>1. ASSUME UNCHANGED tables \/ UNCHANGED vars
      PROVE  UNCHANGED Table!vars
  BY <1>1, StutterRefines DEF tables, vars
<1>2. ASSUME NEW t \in Threads, NEW c \in Configs, Initialize(t, c) \/ SetConfig(t, c)
      PROVE  Table!Next \/ UNCHANGED Table!vars
  <2>1. CASE Initialize(t, c)
    <3>1. Table!Open
      BY <2>1 DEF Initialize, Table!Open, AbsSlot
    <3>2. QED
      BY <3>1 DEF Table!Next
  <2>2. CASE SetConfig(t, c)
    BY <2>2, StutterRefines DEF SetConfig
  <2>3. QED
    BY <1>2, <2>1, <2>2
<1>3. ASSUME NEW t \in Threads, Start(t),
             ~\E c \in Configs : Initialize(t, c) \/ SetConfig(t, c)
      PROVE  UNCHANGED tables
  BY <1>3 DEF Start, InstallCheck, RemoveCheck, EnableCheck, DisableCheck, AllCheck,
     RemoveAllCall, ShutdownCall, InstallAllCall, UseAfterFree
<1>4. ASSUME NEW t \in Threads,
             \/ InstallFails(t) \/ RemoveNotFound(t) \/ FreedBeforeLock(t)
             \/ RemoveAllCheck(t) \/ RemoveAllCopy(t) \/ RemoveNext(t)
             \/ RemoveLoopEnds(t) \/ InstallNext(t) \/ InstallAllEnables(t)
      PROVE  UNCHANGED tables
  BY <1>4 DEF InstallFails, RemoveNotFound, FreedBeforeLock, RemoveAllCheck, RemoveAllCopy,
     RemoveNext, RemoveLoopEnds, InstallNext, InstallAllEnables, UseAfterFree
<1>5. ASSUME NEW t \in Threads, Proceed(t)
      PROVE  Table!Next \/ UNCHANGED Table!vars
  BY <1>1, <1>4, <1>5, InstallRefines, RemoveRefines, SwitchRefines, SwitchAllRefines,
     CloseRefines DEF Proceed
<1>6. QED
  BY <1>1, <1>2, <1>3, <1>5 DEF Next

\* For a disciplined client that does not chain, the whole manager, with its unlocked
\* checks, its loops that release the mutex and its failing batches, behaves as one atomic
\* table of at most one hook per function; a hook in rel32 reach of its detour is one
\* whose jump the table, too, lets go astray.
THEOREM ManagerImplementsTable == NoChaining /\ Disciplined => (Spec => ImplementsTable)
<1> SUFFICES ASSUME NoChaining, Disciplined
             PROVE  Spec => ImplementsTable
  OBVIOUS
<1>1. IInv /\ OInv /\ IInv' /\ [Next]_vars => [Table!Next]_(Table!vars)
  BY StepRefines
<1>2. QED
  BY <1>1, InitRefines, DisciplinedInvariance, UnchainedInvariance, PTL
     DEF Spec, ImplementsTable, Table!Spec

-----------------------------------------------------------------------------
(* Every call gets on *)

\* How many parts of a call are still to come: shutdown checks again, the list is
\* copied, installs are made, removals are made, and one last section.
Stage(f) ==
  CASE f.pc = "idle" -> 0
    [] f.pc \in {"enable", "disable", "enable_all", "disable_all", "shutdown_end"} -> 1
    [] f.pc \in {"remove", "remove_next"} -> 2
    [] f.pc \in {"install", "install_next"} -> 3
    [] f.pc = "remove_all" -> 4
    [] f.pc = "remove_all_check" -> 5

\* Sections of a frame's loop that are still to come, two steps each.
Turns(f) ==
  CASE f.pc = "remove_next" -> 2 * Len(f.todo)
    [] f.pc = "remove" -> 2 * Len(f.todo) + 1
    [] f.pc = "install_next" -> 2 * Len(f.rest)
    [] f.pc = "install" -> 2 * Len(f.rest) + 1
    [] OTHER -> 0

\* Frame g is nearer to the end of the call than f, in a well-founded order.
Nearer(g, f) == Stage(g) < Stage(f) \/ (Stage(g) = Stage(f) /\ Turns(g) < Turns(f))

\* A step of thread t moves no other thread's call, and its own, if it is inside one,
\* nearer to its end; unless it reads a context that is no more.
MovesOn(t) ==
  /\ \A u \in Threads : u # t => call'[u] = call[u]
  /\ call[t].pc # "idle" => undefined' \/ Nearer(call'[t], call[t])

LEMMA MeasureTypes == ASSUME NEW f \in Frame PROVE Stage(f) \in Nat /\ Turns(f) \in Nat
<1>1. f.pc \in Labels /\ Len(f.todo) \in Nat /\ Len(f.rest) \in Nat
  BY DEF Frame
<1>2. Stage(f) \in Nat
  BY <1>1 DEF Stage, Labels
<1>3. Turns(f) \in Nat
  BY <1>1 DEF Turns
<1>4. QED
  BY <1>2, <1>3

\* A call that jumps to a later part is nearer to its end.
LEMMA LaterPart ==
  ASSUME TypeOK, NEW t \in Threads, NEW g, call' = [call EXCEPT ![t] = g],
         Stage(g) < Stage(call[t])
  PROVE  MovesOn(t)
BY DEF MovesOn, Nearer, TypeOK

LEMMA IdleStage ==
  ASSUME NEW f \in Frame, f.pc # "idle"
  PROVE  Stage(Idle) < Stage(f)
<1>1. Idle.pc = "idle" /\ f.pc \in Labels
  BY DEF Idle, Frame
<1>2. Stage(Idle) = 0
  BY <1>1 DEF Stage
<1>3. Stage(f) \in 1 .. 5
  BY <1>1 DEF Stage, Labels
<1>4. QED
  BY <1>2, <1>3

\* A call that returns has no part left.
LEMMA ReturnMovesOn ==
  ASSUME TypeOK, NEW t \in Threads, Return(t)
  PROVE  MovesOn(t)
<1>1. call[t] \in Frame /\ call' = [call EXCEPT ![t] = Idle]
  BY DEF TypeOK, Return, Goto
<1>2. CASE call[t].pc = "idle"
  BY <1>1, <1>2 DEF MovesOn
<1>3. CASE call[t].pc # "idle"
  BY <1>1, <1>3, IdleStage, LaterPart
<1>4. QED
  BY <1>2, <1>3

\* A jump to a label of a later part.
LEMMA JumpMovesOn ==
  ASSUME TypeOK, NEW t \in Threads, NEW pc, Jump(t, pc),
         \/ call[t].pc = "remove_all_check" /\ pc \in {"remove_all", "shutdown_end"}
         \/ call[t].pc = "remove_next" /\ pc = "shutdown_end"
         \/ call[t].pc \in {"install", "install_next"} /\ pc \in {"remove_next", "enable_all"}
  PROVE  MovesOn(t)
<1> DEFINE g == [call[t] EXCEPT !.pc = pc]
<1>1. call[t] \in Frame /\ call' = [call EXCEPT ![t] = g] /\ g.pc = pc
  BY DEF TypeOK, Jump, Frame
<1> HIDE DEF g
<1>2. Stage(g) < Stage(call[t])
  BY <1>1 DEF Stage
<1>3. QED
  BY <1>1, <1>2, LaterPart

LEMMA UseAfterFreeMovesOn ==
  ASSUME NEW t \in Threads, UseAfterFree
  PROVE  MovesOn(t)
BY DEF MovesOn, UseAfterFree

\* Every step of a call in progress.
LEMMA ProceedMovesOn ==
  ASSUME TypeOK, NEW t \in Threads, Proceed(t)
  PROVE  MovesOn(t)
<1> DEFINE f == call[t]
<1>0. f \in Frame /\ Len(f.todo) \in Nat /\ Len(f.rest) \in Nat
  BY DEF TypeOK, Frame
<1>1. CASE InstallFails(t)
  BY <1>1, JumpMovesOn, ReturnMovesOn DEF InstallFails
<1>2. ASSUME NEW h \in Ctx, InstallSucceeds(t, h)
      PROVE  MovesOn(t)
  <2>1. CASE f.caller # "install_all"
    BY <1>2, <2>1, ReturnMovesOn DEF InstallSucceeds
  <2>2. CASE f.caller = "install_all"
    <3> DEFINE g == [f EXCEPT !.pc = "install_next", !.todo = Append(f.todo, h)]
    <3>1. call' = [call EXCEPT ![t] = g] /\ f.pc = "install"
      BY <1>2, <2>2 DEF InstallSucceeds, Goto
    <3>2. g.pc = "install_next" /\ g.rest = f.rest
      BY <1>0 DEF Frame
    <3> HIDE DEF g
    <3>3. Stage(g) = 3 /\ Stage(f) = 3
      BY <3>1, <3>2 DEF Stage
    <3>4. Turns(g) = 2 * Len(f.rest) /\ Turns(f) = 2 * Len(f.rest) + 1
      BY <3>1, <3>2 DEF Turns
    <3>5. Nearer(g, f)
      BY <1>0, <3>3, <3>4 DEF Nearer
    <3>6. QED
      BY <3>1, <3>5 DEF MovesOn, TypeOK
  <2>3. QED
    BY <2>1, <2>2
<1>3. CASE RemoveNotFound(t) \/ RemoveFound(t)
  <2>1. f.pc = "remove" /\ AfterRemove(t)
    BY <1>3 DEF RemoveNotFound, RemoveFound
  <2>2. CASE f.caller = "api"
    BY <2>1, <2>2, ReturnMovesOn DEF AfterRemove
  <2>3. CASE f.caller # "api"
    <3> DEFINE g == [f EXCEPT !.pc = "remove_next"]
    <3>1. call' = [call EXCEPT ![t] = g]
      BY <2>1, <2>3 DEF AfterRemove, Jump, TypeOK
    <3>2. g.pc = "remove_next" /\ g.todo = f.todo
      BY <1>0 DEF Frame
    <3> HIDE DEF g
    <3>3. Stage(g) = 2 /\ Stage(f) = 2
      BY <2>1, <3>2 DEF Stage
    <3>4. Turns(g) = 2 * Len(f.todo) /\ Turns(f) = 2 * Len(f.todo) + 1
      BY <2>1, <3>2 DEF Turns
    <3>5. Nearer(g, f)
      BY <1>0, <3>3, <3>4 DEF Nearer
    <3>6. QED
      BY <3>1, <3>5 DEF MovesOn, TypeOK
  <2>4. QED
    BY <2>2, <2>3
<1>4. CASE EnableSection(t) \/ DisableSection(t)
  BY <1>4, ReturnMovesOn DEF EnableSection, DisableSection
<1>5. CASE FreedBeforeLock(t)
  BY <1>5, UseAfterFreeMovesOn DEF FreedBeforeLock
<1>6. CASE EnableAllSection(t) \/ DisableAllSection(t) \/ ShutdownEnds(t)
  BY <1>6, ReturnMovesOn DEF EnableAllSection, DisableAllSection, ShutdownEnds
<1>7. CASE RemoveAllCheck(t)
  BY <1>7, JumpMovesOn DEF RemoveAllCheck
<1>8. CASE RemoveAllCopy(t)
  <2> DEFINE g == [f EXCEPT !.pc = "remove_next", !.todo = hooks_copy]
  <2>1. call' = [call EXCEPT ![t] = g] /\ f.pc = "remove_all"
    BY <1>8 DEF RemoveAllCopy, Goto
  <2>2. g.pc = "remove_next"
    BY <1>0 DEF Frame
  <2> HIDE DEF g
  <2>3. Stage(g) < Stage(f)
    BY <2>1, <2>2 DEF Stage
  <2>4. QED
    BY <2>1, <2>3, LaterPart
<1>9. CASE RemoveNext(t)
  <2>1. CASE initialized /\ Head(f.todo) \notin live
    BY <1>9, <2>1, UseAfterFreeMovesOn DEF RemoveNext
  <2>2. CASE ~(initialized /\ Head(f.todo) \notin live)
    <3> DEFINE pc == IF initialized THEN "remove" ELSE "remove_next"
               g == [f EXCEPT !.pc = pc, !.h = Head(f.todo), !.todo = Tail(f.todo)]
               n == Len(f.todo)
    <3>1. call' = [call EXCEPT ![t] = g] /\ f.pc = "remove_next" /\ f.todo # <<>>
      BY <1>9, <2>2 DEF RemoveNext, Goto
    <3>2. g.pc = pc /\ g.todo = Tail(f.todo) /\ pc \in {"remove", "remove_next"}
      BY <1>0 DEF Frame
    <3>3. f.todo \in Seq(Ctx)
      BY <1>0 DEF Frame
    <3>4. n \in Nat /\ n > 0 /\ Len(Tail(f.todo)) = n - 1
      BY <3>1, <3>3
    <3> HIDE DEF g, pc, n
    <3>5. Stage(g) = 2 /\ Stage(f) = 2
      BY <3>1, <3>2 DEF Stage
    <3>6. Turns(f) = 2 * n /\ Turns(g) \in {2 * (n - 1), 2 * (n - 1) + 1}
      BY <3>1, <3>2, <3>4 DEF Turns, n
    <3>7. Nearer(g, f)
      BY <3>4, <3>5, <3>6 DEF Nearer
    <3>8. QED
      BY <3>1, <3>7 DEF MovesOn, TypeOK
  <2>3. QED
    BY <2>1, <2>2
<1>10. CASE RemoveLoopEnds(t)
  BY <1>10, JumpMovesOn, ReturnMovesOn DEF RemoveLoopEnds
<1>11. CASE InstallNext(t)
  <2>1. CASE ~initialized
    BY <1>11, <2>1, JumpMovesOn DEF InstallNext
  <2>2. CASE initialized
    <3> DEFINE k == InstallFrame(f, Head(f.rest)[1], Head(f.rest)[2])
               g == [k EXCEPT !.rest = Tail(f.rest)]
               n == Len(f.rest)
    <3>1. call' = [call EXCEPT ![t] = g] /\ f.pc = "install_next" /\ f.rest # <<>>
      BY <1>11, <2>2 DEF InstallNext, Goto
    <3>2. g.pc = "install" /\ g.rest = Tail(f.rest)
      BY <1>0 DEF Frame, InstallFrame
    <3>3. f.rest \in Seq(Addr \X Detour)
      BY <1>0 DEF Frame
    <3>4. n \in Nat /\ n > 0 /\ Len(Tail(f.rest)) = n - 1
      BY <3>1, <3>3
    <3> HIDE DEF g, n
    <3>5. Stage(g) = 3 /\ Stage(f) = 3
      BY <3>1, <3>2 DEF Stage
    <3>6. Turns(f) = 2 * n /\ Turns(g) = 2 * (n - 1) + 1
      BY <3>1, <3>2, <3>4 DEF Turns, n
    <3>7. Nearer(g, f)
      BY <3>4, <3>5, <3>6 DEF Nearer
    <3>8. QED
      BY <3>1, <3>7 DEF MovesOn, TypeOK
  <2>3. QED
    BY <2>1, <2>2
<1>12. CASE InstallAllEnables(t)
  BY <1>12, JumpMovesOn, ReturnMovesOn DEF InstallAllEnables
<1>13. QED
  BY <1>1, <1>2, <1>3, <1>4, <1>5, <1>6, <1>7, <1>8, <1>9, <1>10, <1>11, <1>12 DEF Proceed

\* A call begins in a thread that is in none.
LEMMA StartMovesOn ==
  ASSUME TypeOK, NEW t \in Threads, Start(t)
  PROVE  MovesOn(t)
<1>1. call[t].pc = "idle"
  BY DEF Start, MayCall, MayUse, MayTearDown, Initialize, SetConfig, InstallCheck,
         RemoveCheck, EnableCheck, DisableCheck, AllCheck, RemoveAllCall, ShutdownCall,
         InstallAllCall
<1>2. call' = call \/ \E g : call' = [call EXCEPT ![t] = g]
  BY DEF Start, Initialize, SetConfig, InstallCheck, RemoveCheck, EnableCheck, DisableCheck,
         AllCheck, RemoveAllCall, ShutdownCall, InstallAllCall, UseAfterFree, Goto
<1>3. QED
  BY <1>1, <1>2 DEF MovesOn, TypeOK

\* The API calls end, for every interleaving and every misuse of handles: each step is
\* one thread's and leaves the others' calls where they are, and a call in progress
\* comes nearer to its end with every step, in a well-founded order, whatever other
\* threads install and remove between two turns of the loops of remove_all, shutdown and
\* install_all.
THEOREM CallsGetOn ==
  Spec => /\ [](\A t \in Threads : Stage(call[t]) \in Nat /\ Turns(call[t]) \in Nat)
          /\ [][\E t \in Threads : MovesOn(t)]_vars
<1>1. TypeOK => \A t \in Threads : Stage(call[t]) \in Nat /\ Turns(call[t]) \in Nat
  BY MeasureTypes DEF TypeOK
<1>2. TypeOK /\ [Next]_vars => [\E t \in Threads : MovesOn(t)]_vars
  BY StartMovesOn, ProceedMovesOn DEF Next
<1>3. QED
  BY <1>1, <1>2, TypeCorrect, PTL DEF Spec
=============================================================================

----------------------------- MODULE HookManager -----------------------------
(***************************************************************************)
(* The inline-hook manager of lib/hook/hook.cpp: the global state g_state  *)
(* (initialized, config, hooks, target_map), the HookContext objects the   *)
(* client holds handles to, and the first bytes of the hooked functions.   *)
(*                                                                         *)
(* Every API function first reads g_state.initialized and, where it takes  *)
(* a handle, handle->valid WITHOUT the mutex, and only then locks it.  A   *)
(* call is therefore at least two steps here: a check and a section.  What *)
(* a section does between lock and unlock is one action, because only the  *)
(* two unlocked reads can see inside it.  remove_all, shutdown and         *)
(* install_all release the mutex between the calls they make and are loops *)
(* of such steps.  A call that an early return refuses changes nothing and *)
(* is not a step.                                                          *)
(*                                                                         *)
(* The machine code at an address is abstracted to what a call of it does: *)
(* run the function (Orig), jump to a detour, or jump astray: a detour in  *)
(* rel32 reach gets an E9 jump whose displacement was computed for the     *)
(* address of hook_bytes, where the jump is never executed.  Addresses are *)
(* far enough apart for patches not to overlap.                            *)
(***************************************************************************)
EXTENDS Naturals, Sequences, Functions

CONSTANTS
  Threads,     \* client threads
  Ctx,         \* addresses operator new can return for a HookContext
  Addr,        \* addresses of functions a hook can be put on
  Detour,      \* detour functions
  Orig,        \* the unpatched code of an address
  Astray,      \* the E9 patch of a detour in rel32 reach
  NoCtx,       \* nullptr handle / no entry of target_map
  NoAddr,      \* an address whose first byte is not E9
  Wild,        \* an address such a patch lands at
  Forward,     \* [Addr -> Addr \cup {NoAddr}]: E9 stubs of the program
  Near,        \* pairs <<a, d>> for which can_rel32(a, d) holds
  Configs,     \* values of Config::allow_chain the client passes
  Batches,     \* sequences of <<function, detour>> passed to install_all
  Disciplined  \* clients use handles one thread at a time (see MayUse)

ASSUME HookConstants ==
  /\ Detour # {}
  /\ Orig \notin Detour
  /\ Astray \notin Detour \cup {Orig}
  /\ NoCtx \notin Ctx
  /\ NoAddr \notin Addr
  /\ Wild \in Addr
  /\ Forward \in [Addr -> Addr \cup {NoAddr}]
  /\ Configs \subseteq BOOLEAN
  /\ Batches \subseteq Seq(Addr \X Detour)
  /\ Disciplined \in BOOLEAN

VARIABLES
  initialized,  \* g_state.initialized
  allow_chain,  \* g_state.config.allow_chain
  hooks,        \* g_state.hooks, in push_back order
  target_map,   \* g_state.target_map
  live,         \* contexts allocated and not deleted
  ctx,          \* the fields of each context
  code,         \* what the bytes at each address do
  call,         \* the frame of each thread's current API call
  owned,        \* handles each thread was given
  undefined     \* a freed context was dereferenced: no behaviour is defined

vars == <<initialized, allow_chain, hooks, target_map, live, ctx, code, call,
          owned, undefined>>

tables == <<initialized, allow_chain, hooks, target_map, live, ctx, code>>

\* What the bytes at an address can do.
Code == Detour \cup {Orig, Astray}

Context == [target : Addr, detour : Detour, saved : Code, enabled : BOOLEAN]

Labels == {"idle", "install", "remove", "enable", "disable", "enable_all",
           "disable_all", "remove_all_check", "remove_all", "remove_next",
           "shutdown_end", "install_next"}

Callers == {"api", "shutdown", "remove_all", "install_all"}

\* fn, addr, det: the function asked for, the address it resolved to and the
\* detour of an install; h: the handle argument; todo: hooks_copy of
\* remove_all and installed of install_all; rest: entries left to install.
Frame == [pc : Labels, caller : Callers, fn : Addr, addr : Addr, det : Detour,
          h : Ctx \cup {NoCtx}, todo : Seq(Ctx), rest : Seq(Addr \X Detour)]

Idle == [pc |-> "idle", caller |-> "api", fn |-> Wild, addr |-> Wild,
         det |-> CHOOSE d \in Detour : TRUE, h |-> NoCtx,
         todo |-> <<>>, rest |-> <<>>]

Init ==
  /\ initialized = FALSE
  /\ allow_chain = FALSE
  /\ hooks = <<>>
  /\ target_map = [a \in Addr |-> NoCtx]
  /\ live = {}
  /\ ctx = [h \in Ctx |-> [target |-> Wild, detour |-> Idle.det,
                          saved |-> Orig, enabled |-> FALSE]]
  /\ code = [a \in Addr |-> Orig]
  /\ call = [t \in Threads |-> Idle]
  /\ owned = [t \in Threads |-> {}]
  /\ undefined = FALSE

-----------------------------------------------------------------------------
(* Helpers *)

\* What ctx->hook_bytes do at a.  An E9 there ends at the distance from a at which the
\* detour is from hook_bytes: neither at the detour nor at a.
HookCode(a, d) == IF <<a, d>> \in Near THEN Astray ELSE d

\* Where the E9 at a leads, if there is one; an absolute jump is no E9.
Jmp(a) ==
  CASE code[a] = Orig -> Forward[a]
    [] code[a] = Astray -> Wild
    [] code[a] \in Detour -> NoAddr

FollowStub(a) == IF Jmp(a) = NoAddr THEN a ELSE Jmp(a)

resolve_forwarding_stub(a) ==
  FollowStub(FollowStub(FollowStub(FollowStub(FollowStub(a)))))

\* Slip: pop_back instead of erase(it).
Erase_PopBack(s, i) == SubSeq(s, 1, Len(s) - 1)

\* hooks.erase(it)
Erase(s, i) == [j \in 1 .. Len(s) - 1 |-> IF j < i THEN s[j] ELSE s[j + 1]]

IndexOf(s, h) == CHOOSE i \in 1 .. Len(s) : s[i] = h

\* The last hook of a set of positions of hooks, the one whose bytes remain
\* when a loop over hooks writes them in order.
Last(S) == CHOOSE i \in S : \A j \in S : j <= i

Goto(t, frame) == call' = [call EXCEPT ![t] = frame]

Jump(t, pc) == call' = [call EXCEPT ![t].pc = pc]

Return(t) == Goto(t, Idle)

InTeardown(t) == call[t].caller \in {"shutdown", "remove_all"}

\* A thread may start a call; a disciplined program makes none while another
\* thread tears the subsystem down.
MayCall(t) ==
  /\ ~undefined
  /\ call[t].pc = "idle"
  /\ Disciplined => \A u \in Threads : ~InTeardown(u)

\* A thread may pass handle h.  A disciplined program gives a handle to no
\* other thread and forgets it when it removes it; otherwise any handle that
\* was ever given out can be passed by anyone, at any time.
MayUse(t, h) ==
  /\ MayCall(t)
  /\ h \in IF Disciplined THEN owned[t] ELSE UNION {owned[u] : u \in Threads}

MayTearDown(t) ==
  /\ MayCall(t)
  /\ Disciplined => \A u \in Threads : call[u].pc = "idle"

Forget(t, S) == IF Disciplined
                THEN owned' = [owned EXCEPT ![t] = @ \ S]
                ELSE UNCHANGED owned

ForgetAll == IF Disciplined
             THEN owned' = [t \in Threads |-> {}]
             ELSE UNCHANGED owned

\* handle->valid, handle->enabled: reading a deleted context is undefined.
UseAfterFree == undefined' = TRUE /\ UNCHANGED <<tables, call, owned>>

-----------------------------------------------------------------------------
(* initialize, set_config *)

Initialize(t, c) ==
  /\ MayCall(t)
  /\ ~initialized
  /\ initialized' = TRUE
  /\ allow_chain' = c
  /\ UNCHANGED <<hooks, target_map, live, ctx, code, call, owned, undefined>>

SetConfig(t, c) ==
  /\ MayCall(t)
  /\ allow_chain' = c
  /\ UNCHANGED <<initialized, hooks, target_map, live, ctx, code, call, owned,
                 undefined>>

-----------------------------------------------------------------------------
(* install_impl *)

\* The unlocked part, up to the resolution of forwarding stubs.
InstallFrame(frame, fn, d) ==
  [frame EXCEPT !.pc = "install", !.fn = fn, !.det = d,
                !.addr = resolve_forwarding_stub(fn)]

InstallCheck(t, fn, d) ==
  /\ MayCall(t)
  /\ initialized
  /\ Goto(t, InstallFrame(Idle, fn, d))
  /\ UNCHANGED <<tables, owned, undefined>>

AlreadyInstalled(a) == target_map[a] # NoCtx /\ ~allow_chain

\* HookAlreadyInstalled, or DisassemblyFailed, AllocationFailed and
\* RelocationFailed, which the bytes at the address and the system decide.
\* install_all then rolls back what it has installed.
InstallFails(t) ==
  /\ ~undefined
  /\ call[t].pc = "install"
  /\ IF call[t].caller = "install_all"
     THEN /\ Jump(t, "remove_next")
          /\ Forget(t, Range(call[t].todo))
     ELSE /\ Return(t)
          /\ UNCHANGED owned
  /\ UNCHANGED <<tables, undefined>>

InstallSucceeds(t, h) ==
  LET f == call[t] IN
  /\ ~undefined
  /\ f.pc = "install"
  /\ ~AlreadyInstalled(f.addr)
  /\ h \in Ctx \ live
  /\ live' = live \cup {h}
  /\ ctx' = [ctx EXCEPT ![h] = [target |-> f.addr, detour |-> f.det,
                                saved |-> code[f.addr], enabled |-> FALSE]]
  /\ hooks' = Append(hooks, h)
  /\ target_map' = [target_map EXCEPT ![f.addr] = h]
  /\ owned' = [owned EXCEPT ![t] = @ \cup {h}]
  /\ IF f.caller = "install_all"
     THEN Goto(t, [f EXCEPT !.pc = "install_next",
                            !.todo = Append(f.todo, h)])
     ELSE Return(t)
  /\ UNCHANGED <<initialized, allow_chain, code, undefined>>

-----------------------------------------------------------------------------
(* remove *)

RemoveCheck(t, h) ==
  /\ MayUse(t, h)
  /\ initialized
  /\ IF h \in live
     THEN /\ Goto(t, [Idle EXCEPT !.pc = "remove", !.h = h])
          /\ Forget(t, {h})
          /\ UNCHANGED <<tables, undefined>>
     ELSE UseAfterFree

\* Slip: a nested remove ends the call it is nested in.
AfterRemove_Once(t) == Return(t)

\* Where a nested remove goes back to.
AfterRemove(t) ==
  IF call[t].caller = "api" THEN Return(t) ELSE Jump(t, "remove_next")

\* Slip: the bytes of an enabled hook are left in place.
BytesAfterRemove_Patched(h) == code[ctx[h].target]

\* What remove leaves at the target of h.
BytesAfterRemove(h) ==
  IF ctx[h].enabled THEN ctx[h].saved ELSE code[ctx[h].target]

RemoveNotFound(t) ==
  /\ ~undefined
  /\ call[t].pc = "remove"
  /\ call[t].h \notin Range(hooks)
  /\ AfterRemove(t)
  /\ UNCHANGED <<tables, owned, undefined>>

\* Slip: the handle is not looked up in hooks again once the lock is taken.
RemoveFound_Unlisted(t) ==
  LET h == call[t].h
      a == ctx[h].target IN
  /\ ~undefined
  /\ call[t].pc = "remove"
  /\ code' = [code EXCEPT ![a] = BytesAfterRemove(h)]
  /\ target_map' = [target_map EXCEPT ![a] = NoCtx]
  /\ hooks' = SelectSeq(hooks, LAMBDA g : g # h)
  /\ live' = live \ {h}
  /\ AfterRemove(t)
  /\ UNCHANGED <<initialized, allow_chain, ctx, owned, undefined>>

RemoveFound(t) ==
  LET h == call[t].h
      a == ctx[h].target IN
  /\ ~undefined
  /\ call[t].pc = "remove"
  /\ h \in Range(hooks)
  /\ code' = [code EXCEPT ![a] = BytesAfterRemove(h)]
  /\ target_map' = [target_map EXCEPT ![a] = NoCtx]
  /\ hooks' = Erase(hooks, IndexOf(hooks, h))
  /\ live' = live \ {h}
  /\ AfterRemove(t)
  /\ UNCHANGED <<initialized, allow_chain, ctx, owned, undefined>>

-----------------------------------------------------------------------------
(* enable, disable *)

EnableCheck(t, h) ==
  /\ MayUse(t, h)
  /\ initialized
  /\ IF h \in live
     THEN /\ Goto(t, [Idle EXCEPT !.pc = "enable", !.h = h])
          /\ UNCHANGED <<tables, owned, undefined>>
     ELSE UseAfterFree

EnableSection(t) ==
  LET h == call[t].h IN
  /\ ~undefined
  /\ call[t].pc = "enable"
  /\ h \in live
  /\ IF ctx[h].enabled
     THEN UNCHANGED <<code, ctx>>
     ELSE /\ code' = [code EXCEPT ![ctx[h].target] =
                                   HookCode(ctx[h].target, ctx[h].detour)]
          /\ ctx' = [ctx EXCEPT ![h].enabled = TRUE]
  /\ Return(t)
  /\ UNCHANGED <<initialized, allow_chain, hooks, target_map, live, owned,
                 undefined>>

DisableCheck(t, h) ==
  /\ MayUse(t, h)
  /\ initialized
  /\ IF h \in live
     THEN /\ Goto(t, [Idle EXCEPT !.pc = "disable", !.h = h])
          /\ UNCHANGED <<tables, owned, undefined>>
     ELSE UseAfterFree

DisableSection(t) ==
  LET h == call[t].h IN
  /\ ~undefined
  /\ call[t].pc = "disable"
  /\ h \in live
  /\ IF ~ctx[h].enabled
     THEN UNCHANGED <<code, ctx>>
     ELSE /\ code' = [code EXCEPT ![ctx[h].target] = ctx[h].saved]
          /\ ctx' = [ctx EXCEPT ![h].enabled = FALSE]
  /\ Return(t)
  /\ UNCHANGED <<initialized, allow_chain, hooks, target_map, live, owned,
                 undefined>>

\* The context was deleted between the unlocked check and the lock.
FreedBeforeLock(t) ==
  /\ ~undefined
  /\ call[t].pc \in {"enable", "disable"}
  /\ call[t].h \notin live
  /\ UseAfterFree

-----------------------------------------------------------------------------
(* enable_all, disable_all *)

AllCheck(t, pc) ==
  /\ MayCall(t)
  /\ initialized
  /\ pc \in {"enable_all", "disable_all"}
  /\ Goto(t, [Idle EXCEPT !.pc = pc])
  /\ UNCHANGED <<tables, owned, undefined>>

\* Positions of hooks on address a whose enabled flag is e.
HooksAt(a, e) ==
  {i \in 1 .. Len(hooks) : ctx[hooks[i]].target = a /\ ctx[hooks[i]].enabled = e}

EnableAllSection(t) ==
  /\ ~undefined
  /\ call[t].pc = "enable_all"
  /\ code' = [a \in Addr |->
                IF HooksAt(a, FALSE) = {} THEN code[a]
                ELSE HookCode(a, ctx[hooks[Last(HooksAt(a, FALSE))]].detour)]
  /\ ctx' = [h \in Ctx |->
               IF h \in Range(hooks) THEN [ctx[h] EXCEPT !.enabled = TRUE]
               ELSE ctx[h]]
  /\ Return(t)
  /\ UNCHANGED <<initialized, allow_chain, hooks, target_map, live, owned,
                 undefined>>

DisableAllSection(t) ==
  /\ ~undefined
  /\ call[t].pc = "disable_all"
  /\ code' = [a \in Addr |->
                IF HooksAt(a, TRUE) = {} THEN code[a]
                ELSE ctx[hooks[Last(HooksAt(a, TRUE))]].saved]
  /\ ctx' = [h \in Ctx |->
               IF h \in Range(hooks) THEN [ctx[h] EXCEPT !.enabled = FALSE]
               ELSE ctx[h]]
  /\ Return(t)
  /\ UNCHANGED <<initialized, allow_chain, hooks, target_map, live, owned,
                 undefined>>

-----------------------------------------------------------------------------
(* remove_all, shutdown *)

RemoveAllCall(t) ==
  /\ MayTearDown(t)
  /\ initialized
  /\ Goto(t, [Idle EXCEPT !.pc = "remove_all", !.caller = "remove_all"])
  /\ ForgetAll
  /\ UNCHANGED <<tables, undefined>>

\* shutdown up to the unlock before remove_all.
ShutdownCall(t) ==
  /\ MayTearDown(t)
  /\ initialized
  /\ Goto(t, [Idle EXCEPT !.pc = "remove_all_check", !.caller = "shutdown"])
  /\ ForgetAll
  /\ UNCHANGED <<tables, undefined>>

\* remove_all called by shutdown reads initialized again.
RemoveAllCheck(t) ==
  /\ ~undefined
  /\ call[t].pc = "remove_all_check"
  /\ Jump(t, IF initialized THEN "remove_all" ELSE "shutdown_end")
  /\ UNCHANGED <<tables, owned, undefined>>

\* Slip: the copy starts at the second hook.
hooks_copy_SkipsFirst == IF hooks = <<>> THEN hooks ELSE Tail(hooks)

hooks_copy == hooks

RemoveAllCopy(t) ==
  /\ ~undefined
  /\ call[t].pc = "remove_all"
  /\ Goto(t, [call[t] EXCEPT !.pc = "remove_next", !.todo = hooks_copy])
  /\ UNCHANGED <<tables, owned, undefined>>

\* One turn of the loop over hooks_copy, or over installed when install_all
\* rolls back: the unlocked checks of remove.
RemoveNext(t) ==
  LET h == Head(call[t].todo) IN
  /\ ~undefined
  /\ call[t].pc = "remove_next"
  /\ call[t].todo # <<>>
  /\ IF initialized /\ h \notin live
     THEN UseAfterFree
     ELSE /\ Goto(t, [call[t] EXCEPT
                        !.pc = IF initialized THEN "remove" ELSE "remove_next",
                        !.h = h,
                        !.todo = Tail(call[t].todo)])
          /\ UNCHANGED <<tables, owned, undefined>>

\* Slip: shutdown runs remove_all again instead of going on.
RemoveLoopEnds_Repeats(t) ==
  /\ ~undefined
  /\ call[t].pc = "remove_next"
  /\ call[t].todo = <<>>
  /\ IF call[t].caller = "shutdown"
     THEN Jump(t, "remove_all_check")
     ELSE Return(t)
  /\ UNCHANGED <<tables, owned, undefined>>

RemoveLoopEnds(t) ==
  /\ ~undefined
  /\ call[t].pc = "remove_next"
  /\ call[t].todo = <<>>
  /\ IF call[t].caller = "shutdown" THEN Jump(t, "shutdown_end") ELSE Return(t)
  /\ UNCHANGED <<tables, owned, undefined>>

ShutdownEnds(t) ==
  /\ ~undefined
  /\ call[t].pc = "shutdown_end"
  /\ initialized' = FALSE
  /\ Return(t)
  /\ UNCHANGED <<allow_chain, hooks, target_map, live, ctx, code, owned,
                 undefined>>

-----------------------------------------------------------------------------
(* install_all *)

InstallAllCall(t, batch) ==
  /\ MayCall(t)
  /\ initialized
  /\ Goto(t, [Idle EXCEPT !.pc = "install_next", !.caller = "install_all",
                          !.rest = batch])
  /\ UNCHANGED <<tables, owned, undefined>>

\* The next install_impl up to its lock; NotInitialized starts the rollback.
InstallNext(t) ==
  LET f == call[t] IN
  /\ ~undefined
  /\ f.pc = "install_next"
  /\ f.rest # <<>>
  /\ IF initialized
     THEN /\ Goto(t, [InstallFrame(f, Head(f.rest)[1], Head(f.rest)[2])
                        EXCEPT !.rest = Tail(f.rest)])
          /\ UNCHANGED owned
     ELSE /\ Jump(t, "remove_next")
          /\ Forget(t, Range(f.todo))
  /\ UNCHANGED <<tables, undefined>>

\* Phase 2: the unlocked check of enable_all.
InstallAllEnables(t) ==
  /\ ~undefined
  /\ call[t].pc = "install_next"
  /\ call[t].rest = <<>>
  /\ IF initialized THEN Jump(t, "enable_all") ELSE Return(t)
  /\ UNCHANGED <<tables, owned, undefined>>

-----------------------------------------------------------------------------

\* The steps of a call in progress.
Proceed(t) ==
  \/ InstallFails(t)
  \/ \E h \in Ctx : InstallSucceeds(t, h)
  \/ RemoveNotFound(t)
  \/ RemoveFound(t)
  \/ EnableSection(t)
  \/ DisableSection(t)
  \/ FreedBeforeLock(t)
  \/ EnableAllSection(t)
  \/ DisableAllSection(t)
  \/ RemoveAllCheck(t)
  \/ RemoveAllCopy(t)
  \/ RemoveNext(t)
  \/ RemoveLoopEnds(t)
  \/ ShutdownEnds(t)
  \/ InstallNext(t)
  \/ InstallAllEnables(t)

\* The client's choice of what to call next.
Start(t) ==
  \/ \E c \in Configs : Initialize(t, c) \/ SetConfig(t, c)
  \/ \E fn \in Addr \ {Wild}, d \in Detour : InstallCheck(t, fn, d)
  \/ \E h \in Ctx : RemoveCheck(t, h) \/ EnableCheck(t, h) \/ DisableCheck(t, h)
  \/ \E pc \in {"enable_all", "disable_all"} : AllCheck(t, pc)
  \/ RemoveAllCall(t)
  \/ ShutdownCall(t)
  \/ \E batch \in Batches : InstallAllCall(t, batch)

Next == \E t \in Threads : Start(t) \/ Proceed(t)

\* A thread inside a call keeps running; no client has to call anything.
Fairness == \A t \in Threads : WF_vars(Proceed(t))

Spec == Init /\ [][Next]_vars

FairSpec == Spec /\ Fairness

-----------------------------------------------------------------------------
(* Properties *)

\* Every variable has its type.
TypeOK ==
  /\ initialized \in BOOLEAN
  /\ allow_chain \in BOOLEAN
  /\ hooks \in Seq(Ctx)
  /\ target_map \in [Addr -> Ctx \cup {NoCtx}]
  /\ live \subseteq Ctx
  /\ ctx \in [Ctx -> Context]
  /\ code \in [Addr -> Code]
  /\ call \in [Threads -> Frame]
  /\ owned \in [Threads -> SUBSET Ctx]
  /\ undefined \in BOOLEAN

\* The vector hooks, the map target_map and the heap agree: hooks lists every
\* live context once, and the map has exactly the entry target -> context of
\* each, whatever calls are interleaved.
TableConsistent ==
  /\ \A i, j \in DOMAIN hooks : hooks[i] = hooks[j] => i = j
  /\ Range(hooks) = live
  /\ \A a \in Addr :
       target_map[a] # NoCtx =>
         target_map[a] \in live /\ ctx[target_map[a]].target = a
  /\ \A h \in live : target_map[ctx[h].target] = h

\* An address holds the jump of a hook exactly while a live hook on it is enabled;
\* every other address runs its own code.  So a patch never outlives its hook,
\* and disabling or removing one restores the function, however enable,
\* disable, enable_all, disable_all and removals interleave.
PatchesMatchTable ==
  \A a \in Addr :
    code[a] = IF target_map[a] # NoCtx /\ ctx[target_map[a]].enabled
              THEN HookCode(a, ctx[target_map[a]].detour)
              ELSE Orig

\* No call of a disciplined program reads a context another call has deleted.
NoUseAfterFree == ~undefined

\* Every hook can still be removed: a client has its handle, or a call that is
\* going to remove it is under way (a failed install_all leaves none behind).  Once
\* shutdown has finished, which makes the API unusable, no hook is left and every
\* function runs its own code.
NoHookOutlivesItsOwner ==
  /\ \A h \in live : \E t \in Threads :
       \/ h \in owned[t]
       \/ InTeardown(t)
       \/ call[t].pc = "remove" /\ call[t].h = h
       \/ call[t].pc \in {"remove", "remove_next"} /\ h \in Range(call[t].todo)
  /\ ~initialized => live = {} /\ \A a \in Addr : code[a] = Orig

\* hook.hpp on allow_chain, "Allow hooking already-hooked targets", and hook_test.cpp,
\* "double hook rejected": with allow_chain off, install_impl never adds a hook for a
\* function that a hook is already on.  (It does for an enabled hook in rel32 reach,
\* whose misdirected jump it follows away from the function before it looks it up.)
DoubleHookRejected ==
  [][\A t \in Threads :
       /\ call[t].pc = "install"
       /\ Len(hooks') > Len(hooks)
       /\ call'[t].pc # "install"
       => target_map[call[t].fn] = NoCtx]_vars

\* Every API call returns: the loops of remove_all, shutdown and install_all
\* end although other threads install and remove meanwhile.  Nothing is claimed of
\* a program that has read a deleted context.
CallsReturn ==
  \A t \in Threads : call[t].pc # "idle" ~> (call[t].pc = "idle" \/ undefined)
=============================================================================

----------------------------- MODULE ThreadPatch -----------------------------
(***************************************************************************)
(* What happens inside the patching sections of lib/hook/hook.cpp on       *)
(* Windows: suspend_threads and resume_threads of lib/syscall/syscall.cpp, *)
(* the write of the patch between them, and the release of the trampoline. *)
(* HookManager takes such a section for one step; here it is interleaved   *)
(* with the threads of the process that call the hooked function.          *)
(*                                                                         *)
(* One thread, the patcher, holds the mutex of the hook manager and        *)
(* enables, disables and removes one hook.  Both system functions build a  *)
(* std::vector, ask the system for a snapshot of the threads, enlarge the  *)
(* vector and ask again while it is too small, walk the snapshot, and free *)
(* the vector; allocating and freeing need the process heap lock.          *)
(***************************************************************************)
EXTENDS Naturals, FiniteSets

CONSTANTS
  Workers,  \* the other threads of the process, born or not
  Nobody,   \* owner of a free heap lock
  MaxSuspend, \* the suspend count the system allows (127)
  FirstRoom, \* the size a vector starts with (1 MB)
  Slack,     \* what is added to the length the system asks for (4096)
  MaxInfo,   \* the most the system has to tell, below 2^32 - Slack
  Worlds    \* what a process does and how it is configured (see World)

\* thread_safe: Config::thread_safe; spawns: threads create threads meanwhile;
\* allocates: they use the heap; queries_fail: NtQuerySystemInformation may fail;
\* long: more than one instruction starts in the bytes a patch replaces.
World == [thread_safe : BOOLEAN, spawns : BOOLEAN, allocates : BOOLEAN,
          queries_fail : BOOLEAN, long : BOOLEAN]

ASSUME ThreadPatchAssumption ==
  /\ IsFiniteSet(Workers)
  /\ Nobody \notin Workers
  /\ MaxSuspend \in Nat /\ MaxSuspend > 1
  /\ FirstRoom \in Nat /\ Slack \in Nat /\ MaxInfo \in Nat /\ FirstRoom <= MaxInfo
  /\ Worlds \subseteq World

VARIABLES
  world,
  pc,        \* where the patcher is
  goal,      \* what the current section writes: "orig" or "hook"
  removing,  \* the section is part of remove
  room,      \* buffer.size() while a section queries, FirstRoom otherwise
  todo,      \* threads of the snapshot still to suspend or resume
  bytes,     \* the first bytes of the function: "orig", "hook", or "torn" meanwhile
  at,        \* where each worker executes
  susp,      \* the suspend count of each worker
  owed,      \* how much of it is not the patcher's doing
  heap       \* owner of the heap lock

vars == <<world, pc, goal, removing, room, todo, bytes, at, susp, owed, heap>>
patcher == <<pc, goal, removing, room, todo, bytes>>
workers == <<at, susp, owed, heap>>

\* unborn, gone: no such thread; inside: behind the first instruction of the bytes a
\* patch replaces; freed: in a trampoline that has been released; the last three are
\* where a thread has executed something that was not written for it.
Places == {"unborn", "gone", "away", "inside", "detour", "trampoline", "freed",
           "ran_torn", "ran_middle", "ran_freed"}

\* s_: suspend_threads, r_: resume_threads.
Labels == {"idle", "removed", "s_alloc", "s_query", "s_grow", "s_drop", "s_each", "s_free",
           "write", "write_rest", "r_alloc", "r_query", "r_grow", "r_drop", "r_each", "r_free",
           "free_trampoline", "delete_handle"}

Alive == {w \in Workers : at[w] \notin {"unborn", "gone"}}
Running(w) == w \in Alive /\ susp[w] = 0 /\ at[w] \notin {"ran_torn", "ran_middle", "ran_freed"}

Init ==
  /\ world \in Worlds
  /\ pc = "idle" /\ goal = "orig" /\ removing = FALSE /\ room = FirstRoom /\ todo = {}
  /\ bytes = "orig"
  /\ at \in [Workers -> {"unborn", "away"}]
  /\ owed \in [Workers -> {0, 1}]
  /\ \A w \in Workers : at[w] = "unborn" => owed[w] = 0
  /\ susp = owed
  /\ heap = Nobody

-----------------------------------------------------------------------------
(* The patcher: enable, disable, remove *)

Goto(label) == pc' = label

\* Where a section starts: with thread_safe off nothing is suspended.
SectionStart == IF world.thread_safe THEN "s_alloc" ELSE "write"

SectionEnd == IF removing THEN "free_trampoline" ELSE "idle"

\* enable (b = "hook") and disable (b = "orig") of a hook that is not so already.
Patch(b) ==
  /\ pc = "idle" /\ bytes # b
  /\ Goto(SectionStart)
  /\ goal' = b
  /\ UNCHANGED <<world, removing, room, todo, bytes, workers>>

\* remove writes the original bytes only over an enabled hook.
Remove ==
  /\ pc = "idle"
  /\ Goto(IF bytes = "hook" THEN SectionStart ELSE "free_trampoline")
  /\ goal' = "orig" /\ removing' = TRUE
  /\ UNCHANGED <<world, room, todo, bytes, workers>>

\* std::vector<BYTE> buffer(buffer_size)
Alloc(from, to) ==
  /\ pc = from /\ heap = Nobody
  /\ Goto(to)
  /\ UNCHANGED <<world, goal, removing, room, todo, bytes, workers>>

Snapshot == Alive

\* Slip: the buffer is made as large as it was first, whatever length was returned.
Enlarged_Same(need) == FirstRoom

\* return_length + 4096
Enlarged(need) == need + Slack

\* NtQuerySystemInformation: it fills the buffer; or the buffer does not hold the length
\* needed now (processes come and go between two queries) and is enlarged, in another
\* block or, once it has grown, in spare capacity; or the query fails, which ends the
\* function at once.
Query(from, grow, each, end) ==
  /\ pc = from
  /\ \/ \E need \in 1 .. MaxInfo :
          \/ /\ need <= room
             /\ Goto(each) /\ todo' = Snapshot /\ room' = FirstRoom
          \/ /\ need > room
             /\ room' = Enlarged(need)
             /\ Goto(grow) \/ (room # FirstRoom /\ Goto(from))
             /\ UNCHANGED todo
     \/ world.queries_fail /\ Goto(end) /\ room' = FirstRoom /\ UNCHANGED todo
  /\ UNCHANGED <<world, goal, removing, bytes, workers>>

\* buffer.resize: a new block, and the old one given back.
Grow(grow, drop) == Alloc(grow, drop)

\* Slip: the walk over the snapshot ends one thread early.
Remaining_ButOne(S) == Cardinality(S) > 1

Remaining(S) == S # {}

\* NtSuspendThread
Suspended(n) == IF n = MaxSuspend THEN n ELSE n + 1

\* NtOpenThread fails for a thread that has ended.
Suspend(w) ==
  /\ pc = "s_each" /\ Remaining(todo) /\ w \in todo
  /\ todo' = todo \ {w}
  /\ susp' = IF w \in Alive THEN [susp EXCEPT ![w] = Suspended(@)] ELSE susp
  /\ UNCHANGED <<world, pc, goal, removing, room, bytes, at, owed, heap>>

\* Slip: threads are resumed until they run.
Resumed_Fully(n) == 0

\* What NtResumeThread makes of a suspend count.
Resumed(n) == IF n = 0 THEN 0 ELSE n - 1

Resume(w) ==
  /\ pc = "r_each" /\ Remaining(todo) /\ w \in todo
  /\ todo' = todo \ {w}
  /\ susp' = IF w \in Alive THEN [susp EXCEPT ![w] = Resumed(@)] ELSE susp
  /\ UNCHANGED <<world, pc, goal, removing, room, bytes, at, owed, heap>>

WalkEnds(from, to) ==
  /\ pc = from /\ ~Remaining(todo)
  /\ Goto(to)
  /\ todo' = {}
  /\ UNCHANGED <<world, goal, removing, room, bytes, workers>>

\* ~vector()
Free(from, to) ==
  /\ pc = from /\ heap = Nobody
  /\ Goto(to)
  /\ UNCHANGED <<world, goal, removing, room, todo, bytes, workers>>

\* memcpy of hook_bytes or original_bytes: not atomic.
Write ==
  /\ pc = "write"
  /\ bytes' = "torn"
  /\ Goto("write_rest")
  /\ UNCHANGED <<world, goal, removing, room, todo, workers>>

WriteRest ==
  /\ pc = "write_rest"
  /\ bytes' = goal
  /\ Goto(IF world.thread_safe THEN "r_alloc" ELSE SectionEnd)
  /\ UNCHANGED <<world, goal, removing, room, todo, workers>>

\* syscall::free_executable(handle->trampoline.code)
FreeTrampoline ==
  /\ pc = "free_trampoline"
  /\ at' = [w \in Workers |-> IF at[w] = "trampoline" THEN "freed" ELSE at[w]]
  /\ Goto("delete_handle")
  /\ UNCHANGED <<world, goal, removing, room, todo, bytes, susp, owed, heap>>

\* A new hook on the same function.
Install ==
  /\ pc = "removed"
  /\ Goto("idle") /\ removing' = FALSE
  /\ UNCHANGED <<world, goal, room, todo, bytes, workers>>

suspend_threads ==
  \/ Alloc("s_alloc", "s_query")
  \/ Query("s_query", "s_grow", "s_each", "s_free")
  \/ Grow("s_grow", "s_drop") \/ Free("s_drop", "s_query")
  \/ \E w \in Workers : Suspend(w)
  \/ WalkEnds("s_each", "s_free")
  \/ Free("s_free", "write")

resume_threads ==
  \/ Alloc("r_alloc", "r_query")
  \/ Query("r_query", "r_grow", "r_each", "r_free")
  \/ Grow("r_grow", "r_drop") \/ Free("r_drop", "r_query")
  \/ \E w \in Workers : Resume(w)
  \/ WalkEnds("r_each", "r_free")
  \/ Free("r_free", SectionEnd)

\* target_map.erase(handle->target), delete handle
DeleteHandle == Free("delete_handle", "removed")

Section ==
  \/ suspend_threads \/ Write \/ WriteRest \/ resume_threads
  \/ FreeTrampoline \/ DeleteHandle

-----------------------------------------------------------------------------
(* The other threads *)

Move(w, from, to) ==
  /\ Running(w) /\ heap # w
  /\ at[w] = from
  /\ at' = [at EXCEPT ![w] = to]
  /\ UNCHANGED <<world, patcher, susp, owed, heap>>

\* A call of the function: what the first fetch finds.
CallFunction(w) ==
  \/ bytes = "orig" /\ Move(w, "away", IF world.long THEN "inside" ELSE "away")
  \/ bytes = "hook" /\ Move(w, "away", "detour")
  \/ bytes = "torn" /\ Move(w, "away", "ran_torn")

\* The fetch of an instruction behind the first of the replaced bytes.
GoOn(w) == Move(w, "inside", IF bytes = "orig" THEN "away" ELSE "ran_middle")

\* The detour returns, or calls the original through the trampoline.
LeaveDetour(w) ==
  \/ Move(w, "detour", "away")
  \/ Move(w, "detour", IF pc \in {"delete_handle", "removed"} THEN "ran_freed" ELSE "trampoline")

LeaveTrampoline(w) == Move(w, "trampoline", "away") \/ Move(w, "freed", "ran_freed")

Malloc(w) ==
  /\ world.allocates
  /\ Running(w) /\ at[w] = "away" /\ heap = Nobody
  /\ heap' = w
  /\ UNCHANGED <<world, patcher, at, susp, owed>>

EndMalloc(w) ==
  /\ Running(w) /\ heap = w
  /\ heap' = Nobody
  /\ UNCHANGED <<world, patcher, at, susp, owed>>

\* n = 1: CREATE_SUSPENDED.
Spawn(w, v, n) ==
  /\ world.spawns
  /\ Running(w) /\ at[v] = "unborn"
  /\ at' = [at EXCEPT ![v] = "away"]
  /\ susp' = [susp EXCEPT ![v] = n]
  /\ owed' = [owed EXCEPT ![v] = n]
  /\ UNCHANGED <<world, patcher, heap>>

\* The creator of a suspended thread lets it run.
LetRun(w, v) ==
  /\ Running(w) /\ v \in Alive /\ owed[v] > 0
  /\ susp' = [susp EXCEPT ![v] = Resumed(@)]
  /\ owed' = [owed EXCEPT ![v] = @ - 1]
  /\ UNCHANGED <<world, patcher, at, heap>>

Exit(w) == Move(w, "away", "gone")

Worker(w) ==
  \/ CallFunction(w) \/ GoOn(w) \/ LeaveDetour(w) \/ LeaveTrampoline(w)
  \/ Malloc(w) \/ EndMalloc(w) \/ Exit(w)
  \/ \E v \in Workers : LetRun(w, v) \/ \E n \in {0, 1} : Spawn(w, v, n)

Next ==
  \/ \E b \in {"orig", "hook"} : Patch(b)
  \/ Remove \/ Install
  \/ Section
  \/ \E w \in Workers : Worker(w)

Spec == Init /\ [][Next]_vars

\* The patcher runs on and gets a heap lock that is free again and again; a thread that
\* can run leaves the allocator.
FairSpec == Spec /\ SF_vars(Section) /\ \A w \in Workers : WF_vars(EndMalloc(w))

-----------------------------------------------------------------------------
(* What the suspension is for *)

\* Shape of the variables; the walks never meet the patcher itself.
TypeOK ==
  /\ world \in World
  /\ pc \in Labels /\ goal \in {"orig", "hook"} /\ removing \in BOOLEAN
  /\ room \in 0 .. MaxInfo + Slack
  /\ todo \subseteq Workers
  /\ bytes \in {"orig", "hook", "torn"}
  /\ at \in [Workers -> Places]
  /\ susp \in [Workers -> 0 .. MaxSuspend]
  /\ owed \in [Workers -> 0 .. 1]
  /\ heap \in Workers \cup {Nobody}

\* Nothing escapes the suspension: it is switched on, its queries succeed, and no
\* thread is created while it works.
Covered == world.thread_safe /\ ~world.queries_fail /\ ~world.spawns

\* hook.hpp, "Suspend threads during patching": no thread executes a half written patch.
NoTornFetch == Covered => \A w \in Workers : at[w] # "ran_torn"

\* A thread its creator holds back never runs, and between two calls every thread is as
\* suspended as others made it: none is left suspended.
SuspensionsBalanced ==
  /\ TypeOK
  /\ Covered => \A w \in Alive :
       /\ susp[w] >= owed[w]
       /\ pc \in {"idle", "removed"} => susp[w] = owed[w]

Resting == pc \in {"idle", "removed"}

\* The labels at which the patcher allocates or frees.
AtHeap == pc \in {"s_alloc", "s_grow", "s_drop", "s_free",
                  "r_alloc", "r_grow", "r_drop", "r_free", "delete_handle"}

\* The patcher needs the heap lock and its owner is suspended.
Stuck == AtHeap /\ \E w \in Workers : heap = w /\ susp[w] > 0

\* Whatever the process does, a call of enable, disable or remove returns: its queries end
\* although the system may want a larger buffer each time, and no wait lasts but one, for
\* a heap lock whose owner the patcher itself stopped; that one lasts for ever.
PatchReturns == []<>Resting \/ <>[]Stuck
=============================================================================

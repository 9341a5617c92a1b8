# Formal models of vedx64

vedx64 is a C++17 library for x86-64 machine code: decoder, encoder,
disassembler, assembler, code generator, emulator, IR, symbolic execution,
control-flow recovery, instruction relocation and inline hooking.  This directory
holds TLA+ models of its parts that keep state or whose correctness is an argument
rather than a table, the TLC configurations that check them, and proofs checked by
TLAPS.  Paths below are relative to the repository root, and `lib/` and `include/`
stand for `src/lib/` and `src/include/vedx64/`; the models were translated from the
code, not from its documentation.

## 1. Inventory of the system

| Component | Source | State | Operations | What is hard |
|---|---|---|---|---|
| Hook manager | `lib/hook/hook.cpp` | `g_state`: `initialized`, `config`, `hooks`, `target_map`; one `HookContext` per hook; the patched bytes | `initialize`, `set_config`, `install`, `install_all`, `remove`, `remove_all`, `enable`, `disable`, `enable_all`, `disable_all`, `shutdown` | unlocked checks before locked sections, released locks inside loops, freed contexts, chained hooks, rollback |
| Patching under suspension | `lib/syscall/syscall.cpp`, `hook.cpp` | OS threads (suspend counts, instruction pointers), process heap lock, patched bytes | `suspend_threads`, `resume_threads`, the patch sections | threads stopped inside the bytes being replaced or inside a trampoline, allocation while others are suspended, two suspenders |
| Relocation and jumps | `lib/relocation/relocation.cpp`, `hook.cpp` | none (byte buffers) | `relocate_instruction`, `calc_stolen_bytes`, `generate_jump`, `can_rel32` | whole instructions, operands relative to RIP, 32-bit displacements computed from 64-bit addresses, rel8 branches |
| Control-flow walker | `lib/branch_follow/branch_follow.cpp` | worklist, visited set, block list | `classify_flow`, `walk_basic_block`, `walk_cfg` | closure of the result, caps, duplicates on the worklist |
| Branch resolver | `lib/branch_resolve/branch_resolve.cpp` | none (a walk over code and memory) | `recognize`, `resolve_target`, `recognize_all`, `enumerate_jump_table` | idioms of several instructions, partially written registers, chains and cycles, pointers in memory |
| Symbolic execution | `lib/symx/symx.cpp` | expression DAG, symbolic memory, states, worklist, solver | `Builder`, `Memory`, `State::fork`, `merge_diamond`, `Engine::run` | forking and merging of path conditions, overlapping stores, fork caps |
| Decoder, encoder, disassembler | `lib/core` | none | `decode`, `encode`, `disassemble` | prefixes and headers, fallbacks of the table lookup, round trips |
| Code generator | `include/codegen.hpp` | buffer, labels, pending patches, anchors, relocations | 1513 instruction methods, `label`, `bind`, `jmp`, `jcc`, data, `frame_setup`, `frame_teardown`, `clear` | ModRM and REX of every combination, forward references, rel8 range, rebinding, teardown order |
| Text assembler | `lib/assembler/assembler.cpp` | label table, two passes | `assemble`, `assemble_block` | sizes that change between the passes |
| Emulator | `lib/emu/emu.cpp` | CPU state, memory, fault handler | `emu_step`, `emu_run`, `emu_run_until` | fault dispatch and retry, REP with faults, flags at boundaries, operands read after others were written |
| IR | `lib/ir/ir.cpp` | temporaries and variables of a lifted instruction | `lift`, `execute`, `expand_flag_bundles` | equivalence with the emulator, copies replaced by what they are copies of, REP loops |
| Semantics, analysis | `lib/semantics`, `include/analysis.hpp` | none | per-mnemonic tables, liveness and def-use queries | tables written apart from the emulator they describe |
| Tables and identifiers | `lib/core/table.cpp`, `encoding_id.cpp`, `mnemonic.hpp` | none | generated data | data that several components read together |
| Bindings and tools | `python/`, `rust/`, `tools/`, `examples/` | wrappers | forward to the library | lifetime of handles across languages |

How they interact.  The hook manager calls the decoder to find instruction
boundaries, the relocation code to move the stolen bytes, and on Windows the
syscall module to suspend threads while it writes.  The walkers and the branch
resolver call the decoder through callbacks that read code and memory.  The
symbolic engine lifts with the IR, which is also executed concretely, and the
emulator is the second, independent implementation of the same instructions; the
semantics table and the analysis queries are a third account of them.  The code
generator writes what the decoder reads, and is used by the assembler, which keeps
a label table of its own.  Nothing but the hook manager (and the emulator's lazily
filled dispatch table) is shared between threads.

The models follow these lines: `Trampolines` composes code generator, decoder and
relocation on the same bytes; `IntMachine` composes the emulator with the tables
and queries; `HookRefinement` composes the hook manager with what it promises.

`PROJECT.json` lists under `hazards` each place where this code can go wrong in
a way a test would hardly reach, at its line, with the properties that cover it.

## 2. Plan

Order: first what several threads touch, then the walks and engines whose
correctness is an invariant over many steps, then the pure algorithms.

| # | Module | Composes / abstract specification | Checked by | Proved in | State |
|---|---|---|---|---|---|
| 1 | `HookManager` | implements `HookTable` (`HookRefinement`) | `hook_disciplined`, `hook_racing`, `hook_near` | `HookManagerProofs` | done |
| 2 | `CfgWalk` | reachability, stated on the code itself | `cfg_walk` | `CfgWalkProofs` | done |
| 3 | `ThreadPatch` | refines one locked section of `HookManager` by the threads around it | `thread_patch` | `ThreadPatchProofs` | done |
| 4 | `SymMemory` | a flat memory per value of the symbol | `sym_memory` | `SymMemoryProofs` | done |
| 5 | `SymxEngine` | the real run of each input | `symx_paths` | `SymxEngineProofs` | done |
| 6 | `LiftPasses` | the list as lifted | `lift_passes` | `LiftPassesProofs` | done |
| 7 | `EmuFaults` | the same instruction without faults | `emu_faults` | `EmuFaultsProofs` | done |
| 8 | `EmuFlags`, `EmuInt` | arithmetic over the integers, inverse instructions | `emu_int` | - | done |
| 9 | `Analysis`, `IntMachine` | the emulator: what the tables say against what a step does | `emu_int` | - | done |
| 10 | `OpcodeTable`, `Decoder` | - | through `CodeGen` | - | done |
| 11 | `CodeForms`, `CodeGen` | the decoder: what was asked for is what is read back | `codegen` | - | done |
| 12 | `Relocation`, `Trampolines` | the decoder: the moved instruction means what it meant | `codegen` | - | done |
| 13 | `BranchResolve` | a processor that runs the same code | `branch_resolve` | `BranchResolveProofs` | done |
| 14 | `Assembler` | the code generator's own labels and bytes | `codegen` | - | done |

Not proved of the plan: the carry and sign flags of `EmuFlags` for any width and the
round trips of decoder and code generator.  They need bit operations and folds, which
the prover has no facts about (section 5).

## 3. The modules

### HookManager, HookTable, HookRefinement

Variables keep the names of `g_state`; `live` and `ctx` are the heap of
`HookContext`s, `code` what a call of an address runs.  `call[t]` is where thread
`t` is inside an API call: every public function reads `g_state.initialized`
(and `handle->valid`) without the mutex and locks it later, so a call is a check
step and then a section.  What is done between lock and unlock is one step;
`remove_all`, `shutdown` and `install_all`, which release the mutex in between,
are loops of such steps.  `undefined` records a read of a context that has been
deleted; from then on nothing is claimed.

`Disciplined` says what the callers do: the library documents no rule for
handles, so both kinds are run.  A disciplined program passes a handle to one
thread at a time and tears down alone; an undisciplined one does not.

What a patch does depends on the distance.  An absolute jump leads to the detour.  For a
detour in rel32 reach (`Near`) `install_impl` generates an `E9` in `hook_bytes` and takes
its displacement from there (`hook.cpp:135`, `hook.cpp:488`), but the jump is executed at
the target (`hook.cpp:562`), from where it leads elsewhere: `HookCode` makes such a patch
`Astray`, and `resolve_forwarding_stub`, which follows any `E9`, ends at `Wild`.

`HookTable` is the promise to a program that does not chain hooks: per function
a slot that is free or holds a detour that is on or off, installs and removals
that are atomic, and a shutdown that closes an empty table.  `HookRefinement`
maps the manager's tables to it.  The table says of each pair of function and detour
whether its jump gets there (`Reached`); what the manager implements is the table in
which those in rel32 reach do not.

### CfgWalk

One `walk_cfg` over one memory, for *every* memory of the address space: each address
decodes to some instruction or to none, so instructions overlap and jumps land inside
others.  `pc` distinguishes popping the worklist, one turn of the instruction loop of
`walk_basic_block`, and pushing the successors.  What the code *means* (`Flows`,
`ReachableFrom`) is defined from the instructions alone and takes no part in the walk.
What a walk can be asked to find is `PursuedFrom`: all that is reachable, but for what
lies only behind an instruction at which `max_insns` cut every block that holds it
(`CutOff`), or behind a jump to address 0, which the code takes for "no target".

### ThreadPatch

The inside of the patching sections that `HookManager` takes for one step: the
snapshot of threads, the suspension of each, the write in two halves, the
resumption from a *second* snapshot, and the release of the trampoline and the context.
A snapshot is a loop: while `NtQuerySystemInformation` finds the buffer too small for the
length it needs this time, the buffer is enlarged, which may allocate and free (a new
block) or may not (spare capacity), and the query is made again.  Against that stand
threads that run through the function, the detour and the trampoline, use the
heap, create threads held back or running, and end.  Threads and the system calls
are external: they are modelled from how `syscall.cpp` uses them.

### SymMemory

The three structures of `Memory` (byte map, chunk cache, list of symbolic
writes).  Every byte written is a fresh token, which is what makes a stale byte
visible.  `flat` is the reference: for each value of the one symbol, the memory
a flat array would hold.  A client is the set of addresses it stores to and loads from,
constant and symbolic ones mixed, and of those it seeds first.  The memory keeps writes
apart by kind and not by time: a load at a constant address never sees a symbolic write,
and at a symbolic one the bytes of the highest constant addresses win (section 6).  So a
load is owed the last write unless a write of one kind was followed *there* by one of the
other; `InTime` says so byte by byte and value by value.  One thing is assumed of clients
(`StoresEndBelowTop`): no store at a constant address reaches the top of the address
space, where the end that `evict_overlapping` computes wraps.

### SymxEngine

`Engine::run` and `run_block`: the queue, the merge of states that meet, the fork
at branches, the resolution of targets with and without Z3, the shadow call stack
and every cap.  Expressions are functions from inputs to values and path
conditions sequences of sets of inputs.  `concrete` holds, for each input, the
states of its real run, and `dropped` the inputs that a cap gave up.  `MergeScan` is
the pass of the merge over the queue, element by element; `Sides` are the two states a
branch leaves behind.  Two cases in which a path does not follow its inputs (section 6)
are kept out by name: `MergersStoreNothing` (a program that stores is not run with
merging on) and `NoSelfJump` (no jump or call targets its own address).

### LiftPasses

The loop that ends `lift`, one turn per step.  The op list is not built: `direct`
is the machine after the list as lifted, `folded` after the list the loop has
pushed, and the copies recorded in `temp_alias` are what relates them.  Any op list may
come.  The loop has four ways of going wrong (section 6): a read of a temporary by
another size than its skipped copy had (`ReadsSkipped`), a dropped self-copy that was to
have an effect (`DropsEffect`), and an alias that outlives a write of the temporary it is
of or of the one it names (`MissesAliases`).  The latch `mistaken` says that a turn has met
one of them; up to there the properties are claimed, and dropping any of the four from `Mistake`
makes TLC find them violated.

### EmuFaults

One `emu_step` (called as often as the caller likes) around the accesses of one
instruction: each pass through `emu_mem_dispatch` is a step, so memory can be
provided by the handler between two checks or by the caller between two calls.
String instructions use `EMU_CHK`, which leaves the instruction; the plain
operands use `mem_read` and `mem_write`, which go on with zero or without the
store.

### EmuFlags, EmuInt

The integer instructions of the emulator.  `EmuFlags` is `update_flags_add`,
`update_flags_sub`, `update_flags_logic` and `eval_cc`: operators that take the
power of two of a width, so they fix none.  `EmuInt` is the switch of
`emu_exec_switch`: one operator per handler (or family of handlers that share
their lines), which takes a CPU state and an instruction and gives the next CPU
state, reading and writing operands in the order in which the handler does, since
an operand's address is worked out again for the write.  A byte has `Unit` bits, and
everything the code derives from sizes in bytes is derived from it; a count or an
immediate is not scaled.  What the processor leaves undefined the handlers compute
somehow, and that is what is modelled; where the host's behaviour is undefined the
parameter `ub` is the choice.

### Analysis, IntMachine

`Analysis` is what the library says of an instruction without running it: the flag
masks of the rows of `semantics.cpp`, `sets_eflags`, `reads_eflags`, `dead_flags`,
`modifies_reg`, `reads_reg`, `implicit_gpr_writes` and `backward_chain`.
`IntMachine` runs a program (`code`) instruction by instruction; `past` keeps the
states passed through, so that a property can relate an instruction, a query about it
and what the step did.  A property is about the programs of its shape (a comparison
and a jump, two halves of a wide sum, an instruction and its inverse, nested
stack operations), whatever else the run holds.

### OpcodeTable, Decoder

`OpcodeTable` holds the 1404 rows of `g_instr_table` with what the decoder looks at:
opcode map and byte, mandatory prefix, extension, second opcode, filters and
operands.  `Decoder` is `decode` (prefixes, the five kinds of header, the row and its
fallbacks, ModRM, SIB, displacement, immediate), `from_decoded` and `encode`, on
sequences of bytes.  Both are pure: they are checked by the modules that use them.

### CodeForms, CodeGen

`CodeForms` holds one form for each of the 1513 instruction methods: its name, its
layout (which argument goes into which field, what the operand size changes) and
its bytes.  `CodeGen` turns a form and arguments into bytes, as the methods do with
`emit_rex`, `emit_modrm_sib` and the like, and is the state of the generator:
`buf`, `labels`, `patches`, `anchors`, `relocs`, `count`.  `frames` is what the client
keeps of frames it has not torn down; `log` is a history of what it asked for and
where that was written, and is what the properties compare the decoder's reading with.

### Assembler

`Assemble` is one line: a directive, a count, a prefix, an alias, a branch with a
distance, one of the codes written by hand (`xchg` with the accumulator, `movsxd`,
shifts by CL), or the method of the code generator with the same name and kinds of
operands.  `Arms` is that dispatch, some thousand overloads long in the source: every
method of the generated part of the header and a few of the others.
`AssembleBlock` is the two passes: `FirstPass` places labels by the sizes of the
lines, with a line that does not assemble standing in as its mnemonic with a 0;
`SecondPass` writes the distances.  Statements are taken as read.  `Text` writes
down what the code generator's client asked for, so the reference of
`TextMeansCalls` is the generator with its own labels and patches.

### Relocation, Trampolines

`Relocation` is `calc_stolen_bytes`, `relocate_instruction`, `generate_jump` and
the trampoline that the hook manager writes.  An address is its eight bytes, so sums
wrap and displacements are cut as in the code.  `Trampolines` hooks the start of
what the code generator has written, at addresses at the limit of a
displacement and beyond it.

### BranchResolve

`recognize` with its idioms, the loop of `resolve_target`, and `recognize_all`.  Code
and memory are discovered: a read of an address not read before finds any of the
instructions of the instance (or none) and the same from then on, so every program is
covered without enumerating the bytes nobody looks at, and TLC's choice is part of
the step that reads.  `seen` is what has been read ahead from `at`.  `cpu` is the
reference, a processor with unknown registers that runs the instructions of each
pattern followed.

The MC modules hold the values of the constants: programs, start states, worlds,
sample arguments.  `MCCodeGen` also names the classes of instruction methods whose
bytes the decoder reads as something else, each with its reason; the run `codegen`
checks all others.

## 4. What is checked

| Run | Instance | Shows |
|---|---|---|
| `hook_disciplined` | 2 threads, 3 contexts, 2 functions and the landing address of a misdirected jump, 2 detours, one of them in rel32 reach of one function, a batch of two | `TableConsistent`, `PatchesMatchTable`, `NoUseAfterFree`, `NoHookOutlivesItsOwner`, `ImplementsTable` over every interleaving of all calls |
| `hook_racing` | 2 threads that share stale handles, 2 contexts, 1 function | tables and heap agree (`TableConsistent`) and every call returns (`CallsReturn`), up to the first read of a freed context |
| `hook_near` | 1 thread, a function, a stub to it and a detour in rel32 reach | a violation: "double hook rejected" (`DoubleHookRejected`) fails once the hook is enabled (section 6) |
| `cfg_walk` | all 50,625 programs of 4 addresses; caps of 3 blocks and 3 instructions | blocks are distinct and reachable (`ReportSound`), closed (`SuccessorsAreBlocks`), complete but for what the cap or a jump to 0 cuts off (`CompleteButForCuts`); the walk ends (`WalkEnds`) |
| `thread_patch` | the 32 worlds of `World`, 2 other threads, buffers of 1 that the system may want up to 4 | no torn fetch and balanced suspend counts when queries succeed and nobody is born (`NoTornFetch`, `SuspensionsBalanced`); in every world each call returns, however often a query has to be repeated and whoever else wants the heap, but for one deadlock, a heap lock whose owner the patcher itself has suspended (`PatchReturns`) |
| `sym_memory` | 7 addresses, 3 values of the symbol, widths 1 to 3, 3 writes, a window of 2 bytes, constant and symbolic addresses mixed | `LoadsSeeLastWrites`; the chunks are intact and disjoint (`CacheConsistent`) |
| `symx_paths` | 840 programs without and 120 with memory; depths 1 and 2, 2 or 3 targets, 6 steps, 2 visits, 3 inputs | the paths partition the inputs minus what was dropped (`PathsDisjoint`, `NothingLost`), what a path says of its inputs is so (`OnTrajectory`), `run` returns (`RunEnds`) |
| `lift_passes` | any list over 3 temporaries (of 8 bytes and also of 1, of 8, of 1) and the slices of one register, up to its first mistake | `TempsRecoverable`, `PassesPreserveMeaning`, with temporaries written any number of times |
| `emu_faults` | 8 addresses, 6 of which can be there, words of 2 bytes, RCX up to 3, every instruction, repetition and direction | faults leave whole iterations (`WholeIterations`), interrupted instructions complete exactly (`CompletesExactly`), nothing is written where nothing is (`UnmappedUntouched`) |
| `emu_int` | programs of one to eight instructions: every handler, every operand size, register and memory, boundary values, bytes of two bits | conditions order the operands (`ConditionsOrderOperands`), sums and differences of two words come out (`WideSums`), pairs of handlers fit (`PairsFit`), the stack is kept (`StackDiscipline`), tables and queries say what the steps do (`QueriesSound`, `EffectsDeclared`) |
| `codegen` | two clients: one calls every instruction method outside the named classes, with registers, addresses and immediates of every special encoding, alone or around a frame, a nop or data; the other writes two labels, short and long jumps before and after binding, 126 and 127 nops, nested frames, placeholders, anchors, one `clear` | the decoder reads what was asked for (`ListingMatches`), and again after `encode` (`ReencodingKeepsMeaning`); stolen for a hook, instructions do in the trampoline what they did in place (`TrampolinesWork`); `JumpsLeadToLabels`, `FramesRestore`; as text, single calls and whole programs have the same bytes (`TextMeansCalls`) |
| `branch_resolve` | two registers, words of four bits, programs of up to five of 26 instructions, four sets of options | a resolved target is where the processor arrives (`FollowsExecution`), no transfer is missed or invented (`TransfersListed`), every question is answered (`ResolutionEnds`) |

Why the bounds are enough.  The hook errors that can be made need two callers and a third
context (one freed, one reused, one live); four addresses hold a loop, a diamond, an
overlapping decode and an unmapped end at once, and two caps one below the number of
addresses are both hit; two threads suffice for one to be held while another is born or
owns the heap; three bytes of width give every overlap (before, behind, inside, across)
and three writes every order of two chunks and what evicts them, and of a write of one
kind between two of the other; three inputs make a branch that splits, one that does not,
and a merge of unequal sides.  `lift_passes` has no bound on the length of the list: its
state space closes.  It is cut (`CONSTRAINT Faultless`) where a turn has made a mistake,
from where on both properties claim nothing.  In `emu_faults` both ends of the memory,
wrap-around, overlapping source and destination and three iterations are in reach of the
pointers chosen.  In `emu_int` two-bit bytes keep four distinct sizes, each with a sign
bit, a low and a high nibble and a high byte register, and let all operands of the narrow
sizes be tried; the wide ones are tried at their limits.  The bytes of an instruction
depend on each argument through a few bits, so in `codegen` one register below 8 and one
above, and each special base, index, displacement and size, meet every method; two items
suffice for one to stand in front of the other; `MaxRead` says up to how many items a
listing is read back, re-encoded and hooked as well.  126 and 127 nops put a short jump at
both sides of its limit. The longest idiom of `recognize` has six instructions with its
transfer in the code, and three in the instance (`max_idiom_insns` up to 4); five
addresses with code hold an idiom, the jump behind it and a cycle, and the depth cap of 3
is met.

Bounds in the models: `MaxOps` (operations on a `SymMemory`), `MaxCount` (RCX), `MaxMem`
(bytes that can be provided), `MaxSuspend` (the system's own limit on suspend counts),
`FirstRoom`, `Slack` and `MaxInfo` (a query's first buffer, what is added to the length
asked for, and the longest answer), `MaxCode` (addresses with code in `BranchResolve`),
`MaxRead`, and the fields of a client's plan in `CodeGen`: `calls`, `jumps`, `holes`,
`anchors`, `depth` (of frames), `labels` and `work` (between two clears; one less after
each) and `clears`.  The caps `max_visits_per_rip`, `max_steps_per_path`,
`max_fork_depth`, `max_enumerate_targets`, `max_blocks`, `max_insns`, `max_transfers`,
`max_chain_depth` and `max_idiom_insns` are the code's own.

Deadlock is switched off where the system really stops: a walk, an exploration, a
question or an instruction that is over, a program that has been run or written, a
removed hook, a program after undefined behaviour.

Fairness.  `HookManager`: weak fairness of each thread's own progress inside a
call, since no section blocks while it holds the mutex; nobody is forced to make
calls.  `CfgWalk`, `SymxEngine` and `BranchResolve`: weak fairness of the only loop
there is.  `ThreadPatch`: strong fairness of the patcher's section,
because the heap lock is a critical section that wakes its waiters and that others cannot
keep for themselves for ever by taking it again and again; weak fairness of a thread's
leaving the allocator *if it is not suspended* (the action is one that a suspension
disables).
`EmuFaults` has no liveness property: `emu.hpp` leaves the termination of retries
to the handler.  A `Retry` without new memory repeats the check and is a stutter.

Every property of a run is listed in `PROJECT.json` under `mutants`
with a change of the modelled code that breaks it; the changed definitions are the
ones commented "Slip" in the modules.

## 5. What is proved

All theorems hold for every value of the constants that satisfies the named
assumption of the module, and rest on nothing else but the hypotheses they state.

**Hook manager** (`HookManagerProofs`).  Any number of threads, contexts, functions
and detours.

* `TablesAgree` and `PatchesAgree` (`TableConsistent`, `PatchesMatchTable`): when no
  caller turns chaining on (`NoChaining`), disciplined or not, wherever the detours are.
  The second says which code an address holds, so of a near hook that its misdirected
  jump is there exactly while the hook is enabled, not that the detour is reached.  It is
  not inductive: disabling and removing write back `original_bytes`, so the invariant
  adds `SavedOriginal`, that what a context has saved is the function's own code,
  which chaining would break.
* `NoDanglingHandle` and `EveryHookOwned` (`NoUseAfterFree`, `NoHookOutlivesItsOwner`):
  for disciplined callers; the first with chaining too, the second without.  The
  invariant `OInv` is about ownership: what a thread `Holds` (its handles, and those its
  own call is about to free) is disjoint from what others hold, every held context is
  alive, and what each half-done call carries along (`FrameOK`: the rest of a batch, the
  snapshot of `remove_all`, the handle that was checked before the lock) is either held
  or no longer looked at.  `HeapInv` ties `hooks` to the heap, element by element.
* `ManagerImplementsTable`: the manager implements `HookTable`, for disciplined callers
  without chaining.  Each step of each handler is mapped to an atomic operation on one
  slot or to a stutter; the two invariants above are what makes a checked handle mean its
  slot.  In that table a hook that is on leads to its detour unless the detour is in rel32
  reach, where it goes astray: the theorem does not say that near hooks work.  It is a
  safety refinement: neither side's fairness is part of it. `HookRefinement` assumes
  `NullIsNoHook`: `nullptr` is no context.  That a second hook on a function is refused is
  no theorem, because it is not so (`hook_near`).
* `CallsGetOn`, for callers of any kind: every step is one thread's and takes no other
  thread's call back, and a call in progress comes nearer to its end with each step of
  its thread, unless it reads a freed context.  Nearer is lexicographic: `Stage`, the
  part of the call it is in, and `Turns`, the sections its loop still has before it, over
  the snapshot of the tables or the caller's batch: what others install meanwhile adds
  no turn.

**Control-flow walk** (`CfgWalkProofs`): `WalkIsSound`, `WalkIsClosed`,
`WalkIsComplete`, for any memory, size and cap.  The invariant `IInv` says that
whatever a finished block leads to is visited or on the worklist (`NothingLost`), that
the block under way is a chain of fall-throughs (`BlockShapes`), and that worklist,
visited and blocks are reachable (`Sound`).  Completeness follows without induction:
the covered addresses, with those that cannot be read, are closed under `Pursued`, and
`PursuedFrom` is the smallest such set.  It is claimed of every walk that empties its
worklist with `max_insns` above zero, whatever the cap has cut.
`WalkIsBounded`: the caps alone bound the work.  What is left (`StepsLeft`) is a natural
number that every step makes smaller, and at first no more than
`max_blocks * (max_insns + 4) + 2`, for any code, cyclic or not.

**Thread suspension** (`ThreadPatchProofs`): `NoHalfPatchRuns`, `SuspensionsPairUp`, for
any number of threads and any suspend limit above one (Windows has 127).  The argument
counts: while suspension is switched on, its queries succeed and no thread is born
(`Covered`), a living thread is suspended beyond what its creator owes it by exactly
`Extra(w)`, a function of the patcher's place alone.  The limit has to leave room for the
patcher's unit above the owed one, or `SuspendThread` fails and the thread is resumed once
too often: hence the assumption `MaxSuspend > 1`.  While the bytes are torn `Extra` is one
for everybody, so nobody runs.  `SectionsEnd`: inside a call each step of the patcher
leaves it less to do (`SectionLeft`), no other thread's step moves it, and where it cannot
go on, it is for the heap lock alone, whose owner then can run or is a thread that the
patcher itself has stopped inside the allocator.  A turn of a query loop goes back to the
allocation, so the number has to count turns: each enlarged buffer is larger than the one
before, and none need be larger than `MaxInfo`, so the room still missing falls.

**Symbolic memory** (`SymMemoryProofs`): `ChunksStayIntact` (`CacheConsistent`) and
`MemoryIsFlat` (`LoadsSeeLastWrites`), for any size of the address space, any widths up
to it, any clients of `StoresEndBelowTop` and any number of writes.  The invariant says
that every chunk still has its bytes in the map and that chunks do not overlap, which
is what lets `set_byte` look back for one chunk only; that the map holds what each flat
memory holds wherever no symbolic write came later; and that a flat memory holds the last
write of the list that reaches an address wherever that write came last, which the load's
walk down the list then finds first.  It answers unknown only for a byte nobody wrote or
one with `Cap` constant addresses above it.

**Symbolic execution engine** (`SymxEngineProofs`), for any programs, inputs,
configurations, solver answers and caps.

* `OnePathPerInput` and `EveryInputOnAPath` (`PathsDisjoint`, `NothingLost`).  The
  invariant `PInv`: the models of the states in the queue, in hand and finished are
  pairwise disjoint, and with `dropped` they are all inputs, unless Z3 has answered
  unknown.  The merge is a pass over the queue (`MergeScan`); that it unites the models
  of what it merges and keeps all others is an induction over the pass.
* `PathsFollowRuns` (`OnTrajectory`) under `MergersStoreNothing` and `NoSelfJump`.  That
  a state agrees with the real run of its inputs *somewhere* needs that the run has been
  computed that far: `Longest` bounds it by visits per address times addresses.  The
  invariant `TInv` therefore keeps, for each state and input, a position in the run and
  the set `Seen` of pairs of an address and a visit; the position is never beyond the
  size of that set, and the set is never larger than the product.
* `CapsAreKept` (`CapsHold`): no path passes an address more often than
  `max_visits_per_rip`, and none is deeper than one beyond `max_fork_depth` (section 6
  says where the one comes from).  The invariant `CInv` puts queue, current state and
  finished paths into one set `Within`, which forking and merging do not leave.
* `RunIsBounded`: a run takes at most `Most(setup)` steps.  The number of states may grow
  with each step, so what falls is a weight: a state weighs twice
  `max_fork_depth + 2` to the power of the visits it may still count.  An instruction
  uses a visit and makes at most `max_fork_depth + 1` states, and a merged state weighs
  no more than the two it came from.

**Post-passes of the lifter** (`LiftPassesProofs`): `MeaningPreserved` and
`SnapshotsInTime` (`PassesPreserveMeaning`, `TempsRecoverable`) for every op list over any
registers, temporaries, values and arithmetic.  The two are inductive together: as long
as no turn was a mistake, every temporary's value is in the temporary or in what it is an
alias of, so reads give what they gave (`Recovered`), so what is computed agrees
(`Agreed`); and a write that `MissesAliases` does not name reaches no alias but those that
are materialized before it.  Lists that write a temporary again are covered like all
others: what is left out is what follows a turn at which the code itself goes wrong.

**Emulator** (`EmuFaultsProofs`), for any size of memory, word and address space, any
instructions and any bound on RCX of at least one.

* `NoWildWrite` (`UnmappedUntouched`).  A write is only reached with accesses that were
  checked against a memory no larger than the present one, so the invariant relates
  every recorded access to `mem_size`, and the wrap test of `mem_check` is what keeps a
  checked access from wrapping.
* `IterationsAreWhole` and `FaultsAreInvisible` (`WholeIterations`, `CompletesExactly`).
  The reference is what the instruction does to a memory that was there from the start,
  a recursive function of the number of iterations (`After`).  The invariant `MoveInv`
  says that at the instruction a string instruction has done the first `Count` of them
  and none of these ended it, that any other instruction has done nothing, and that
  behind the instruction all that was due is done.  An iteration more is one unfolding
  of the reference (`AfterFacts`), and the accesses of an iteration that is under way
  change nothing before the last of them is done.

**Branch resolver** (`BranchResolveProofs`): `TargetIsReached` (`FollowsExecution`), for
words of any even number of bits, any registers, any instructions of the forms of
`Instruction`, any memory and any options.  It is two arguments.  The first is about one
call of `recognize`: whatever sequence it is still reading is `Open`, the beginning of an
idiom, and a pattern that names a destination comes from a sequence of one of a few shapes
(`Named`); on each of these the processor gets to the destination (`ConcreteArrives`,
`MemoryArrives`), because what the scan computes is what the register holds, instruction
by instruction (`ComputesFacts`).  The second is the chain: `ChainInv` says that between
two hops `at` is the final target and the first instruction read is the code there, so a
chain that stops below its bound has looked at that code and found no direct jump to
somewhere else.  `Plain` code is what the property speaks of; that code only grows makes
its being plain at the end enough for the beginning.

`ListIsComplete` (`TransfersListed`) is about `recognize_all`, under `Straight`: no
instruction is empty, and all code together (`MaxCode` times the longest instruction) is
shorter than the address space, as in the run.  A listing that wraps around comes back to
its own addresses, and then no position in it has one place on the line. `ListInv` says
that `found` accounts for the line `Path` from the entry to `at`: each entry begins on it
and ends at a transfer, and each transfer on it ends an entry, also where instructions
were read ahead for an idiom that did not come about. That positions on the line are
distinct addresses is the pigeonhole principle: the lengths add up to less than one turn.

`ResolutionIsBounded`: what is left to do of a question (`StepsLeft`) is a natural number
that every step makes smaller: eight for each hop or turn that the options and
`max_transfers` still allow, and what may still be read of the idiom at hand.  The
model assumes `max_transfers` to be at least one: with none the code looks at nothing.

Type invariants are proved with these (`TypeCorrect`, or as a part of the inductive
invariant) and are not run.

How recursion is reasoned about.  The library's induction theorems take an operator as
a parameter, which the provers cannot instantiate.  The reference of the emulator,
the runs, the merge, the powers and sums of the engine, and the branch resolver's powers
of two, bitwise operations, scan, run and line are recursive functions over naturals; what these
particular functions compute is proved from the well-foundedness of the naturals,
stated for sets (`LeastNat`, `AllNats`): the arguments at which a claim fails have no
least element.  The same fact gives the greatest address below a store (`GreatestAddr`)
and the hook found last (`LastType`).

Only model-checked:

* liveness (`CallsReturn`, `WalkEnds`, `PatchReturns`, `RunEnds`, `ResolutionEnds`): that
  less is left with every step is proved of all five (`CallsGetOn`, `WalkIsBounded`,
  `SectionsEnd`, `RunIsBounded`, `ResolutionIsBounded`); that there is a next step until
  the end is reached, and that it is taken, is about ENABLED and fairness, which the
  prover does not handle;
* `EmuInt`, `Analysis` and `IntMachine` (`ConditionsOrderOperands`, `WideSums`,
  `PairsFit`, `StackDiscipline`, `QueriesSound`, `EffectsDeclared`): they use `Bitwise`,
  which the prover does not load;
* decoder, code generator, relocation and text assembler (`ListingMatches`,
  `ReencodingKeepsMeaning`, `JumpsLeadToLabels`, `FramesRestore`, `TrampolinesWork`,
  `TextMeansCalls`): tables of some thousand rows and folds over bytes, where a
  proof would be the enumeration that TLC does.

## 6. Where the code does something else than it seems to

`hook_near` shows the first; no run is spent on the others: they are what modelling
showed, and the properties are stated for the rest.  Where a property carves a case out,
the definition that does so is named.

**Against a statement of the repository**

* The jump of a hook whose detour is in rel32 reach has its displacement from the address
  of `hook_bytes` instead of the target's (`hook.cpp:135`), so it does not lead to the
  detour.  `install_impl` follows forwarding stubs before it looks for an existing hook,
  so it follows this `E9` too and puts a second hook on, at another address
  (`hook.cpp:447`), although `hook.hpp:46` makes that a matter of `allow_chain`.  The test
  "double hook rejected" (`hook_test.cpp:284`) installs the second hook while the first is
  disabled; the live tests, where a near detour would not be called, are skipped when CI
  or GITHUB_ACTIONS is set.
* Merged states keep the memory of one side, also when the sides wrote different
  values: `can_merge_with` does not look at memory, and the comment at
  `symx.cpp:532` takes it for benign.
* An alias of a temporary survives a write of that temporary: `invalidate_aliases_for`
  returns at once for temporaries (`ir.cpp:3048`; `MissesAliases`).  Every memory operand
  with a SIB byte and a displacement meets it: the copy of the displacement into the
  address becomes an alias, the addition of the base is emitted, and what reads the
  address afterwards is given the displacement alone.
* An aborted fault in a plain operand gives zero and `OK` (`emu.cpp:85`).
* `recognize_all` stops after `max_transfers` *instructions*, not transfers as
  `branch_resolve.hpp` says.
* `install_all` enables every disabled hook, not only its own (`hook.hpp:76`).
* `emu.hpp:28` and `emu.hpp:98` disagree on what `Skip` loads; a path's step count
  restarts in each fork while the visit counts do not.

**Hooks and patching.** With chaining, `remove` in another order than last-in
first-out brings back a removed detour (`hook.cpp:517`); after a rollback of
`install_all` its first handles dangle (`hook.cpp:678`).  A thread suspended behind
the first of several replaced instructions resumes inside the jump (`hook.cpp:562`;
`ThreadPatch` reaches the state `ran_middle`); the allocations made while others are
suspended can wait for the heap lock of one of them; a thread born after the
snapshot is not suspended; a failing second query leaves everybody suspended;
`remove` frees a trampoline somebody may be in (`hook.cpp:530`).

**Relocation** (`Handled`, `InReach`).  With VEX, EVEX or REX2 the ModRM byte is
looked for in the wrong place, so an operand relative to RIP is not moved or other
bytes are patched; rel8 branches are moved unchanged; 16-bit branches are patched as
if they had four bytes; displacements are cut to 32 bits without a check; a target
inside the stolen bytes is left pointing at the code that is overwritten.  The jump
back of a far trampoline goes through RAX and loses it.  `enable` copies
`hook_size` bytes (up to 64) out of the 14-byte `hook_bytes` before it writes the
nops.  `detect_jump_table` takes `[rsp+...]` and
`[r12+...]` for tables.

**Walk.** `walk_cfg` loses what follows a block cut by `max_insns`, and what only a
jump to address 0 reaches.

**Branch resolver** (`IsNarrow`, `IsElsewhere`).  A MOV of an 8 or 16-bit register
counts as one of the whole register (`mov al, imm; jmp rax` is "concrete");
arithmetic is folded 64 bits wide whatever the instruction's size, with shift counts
modulo 64; a 32-bit LEA is not cut; the accumulator's short forms are not folded;
segments are ignored; a 4-byte pointer is copied into an uninitialized 8-byte
variable (`branch_resolve.cpp:228`), whose upper half is garbage; a far pointer is
read as a near one; the store of the upper half of a pushed address may have any
width.

**Symbolic memory and engine** (`InTime`). A load at a constant address does not see
stores through symbolic addresses, and at a symbolic address the constant ones win,
whichever came later (`symx.cpp:442`, `symx.cpp:420`); `seed` after a store leaves stale
chunks; eviction wraps at the top of the address space.  A jump to itself falls through
(`symx.cpp:1234`); the forks of a symbolic target are two levels deeper than the state
they come from, so one goes one level beyond `max_fork_depth` (`symx.cpp:958`, after
`symx.cpp:512`), and no two of them are of one depth; an `unknown` from Z3 pins a target
that is not unique; `run_block` records the taken condition whichever way it goes
(`symx.hpp:338`).

**IR** (`Mistake`). A dword self-copy is dropped although it zero-extends
(`ir.cpp:3067`), and so is one of a temporary that still has an alias; a temporary is read
through another size than its skipped copy had; the
flags of AND with a constant 0 always set ZF (near `ir.cpp:591`); the scan
conditions of a lifted REP leave CMPSD out.

**Emulator.** A fetch beyond memory does not ask the handler (`emu.cpp:6236`); PUSHF
and ENTER move RSP before they check, so a repeated step moves it twice
(`emu.cpp:5095`, `emu.cpp:1580`); a branch, call or return to its own address is
taken for none (`emu.cpp:6249`); `call rsp` reads its target after the push; XADD
`[r], r` writes the register before it works out the address again.
ADC and SBB compute the flags of source plus carry, so a carry that takes the
source over to the other sign gives wrong OF and CF.  MUL and DIV take operand 0;
CBW and CWD are always 16 bits wide; RETN does not add its immediate; IMUL clears CF
and OF; an IDIV that overflows traps in the host; a 32-bit SARX shifts logically;
BSWAP of a word, and CMOV of a 32-bit register whose condition is false, keep what
the processor would clear.

**Tables and queries** (`Misplaced`, `Unlisted`, `MayKeepFlags`).  Rows of the
semantics table from about the 1084th on stand one place away from the form they
describe; POPCNT's row leaves ZF out, `reads_eflags` SETcc; the implicit masks of MUL
and IMUL never apply; `dead_flags` takes a flag that may be written for one that is;
`modifies_reg` and `backward_chain` take a high byte's number for a register and do
not see the second operand of XCHG.

**Code generator** (`Crooked` in `MCCodeGen`, method by method).  Methods without
operands whose opcode ends in a ModRM byte write another one; `enter`, `in`, `out`,
`retf`, `retn`, the three-operand `imul`, `dppd`, `palignr` and others lack their
immediate; `crc32`, `movbe`, `invept` lack the third opcode byte in memory forms;
stores `(Mem, Xmm)` carry the load's opcode; XMM overloads of MMX instructions lack
66; register overloads of memory-only instructions decode as something else;
`cmpxchg16b` writes a fixed 48 and loses REX.B; `pextrq` and `pinsrq` write 48 and then
another REX prefix; `btc(Mem, Reg)` writes 0F BA; EVEX ignores bit 4 of a register;
arithmetic on 8 and 16-bit registers, `push`, `pop`, `bswap` and `xchg` ignore the width;
`spl` and its like without REX are `ah` and its like; sized memory forms put 66 behind
REX; VEX forms drop segments; `jcxz` and `jecxz` write the same byte; addresses without
a base, `fs_abs` and `gs_abs` are relative to RIP.  Labels that were
default-constructed share one number, a label bound twice moves only the forward
jumps, `clear` restarts the numbers, a short jump is cut to a byte without a sign, and a
frame of 2^31 bytes or more is sign-extended.

**Text assembler** (`HasText`).  A line with an unknown label or operands of the wrong
kind stays what its mnemonic with a 0 is (`jmp 0`), without an error, if the text has a
label; only `jmp`, `call`, `jcc` and the directives take one number, so `loop`, `jcxz`,
`ret imm`, `int imm` and `push imm` cannot be assembled; `dq label` writes a distance;
`times` and prefixed lines cannot refer to labels; of two labels of one name the
last wins; `jpe`, `jpo`, `setpe` and `cmovpe` with their kin are unknown; `movsx r64, r32`
is MOVSXD here and 0F BE in the generator; `xchg` with the accumulator gets the
short form, which for two 32-bit EAX is a NOP; `shl`, `shr` and `sar` of memory by CL,
`extractps` and `pextr*` to memory and `pinsr*` from memory are missing; in an address the sign
before a register is ignored, the last displacement wins, the width of registers is
ignored, RSP as an index is lost, and `[disp]` is relative to RIP.

**Decoder and encoder** (the same classes).  FMA `pd` and `sd` are read as `ps` and
`ss`, opmask operations as CMOVcc and SETcc, EVEX arithmetic under its SSE name,
`vzeroall` as `emms`, `vpternlogq` as `vpternlogd`, the 16-bit POPCNT as `jmpe`; C4, C5
and 62 are VEX and EVEX also where they are LDS, LES and BOUND; only four prefixes are
kept; `clac` and its family are read one byte short.  `encode` drops ENTER's second
immediate and an implicit zero immediate.

## 7. What the models leave out

* `HookManager`: the Windows suspension inside a section (that is `ThreadPatch`),
  the failure paths of memory allocation that leave no trace, and the bytes of
  trampolines (those are in `Relocation`).
* `ThreadPatch`: the length a query asks for stays below 2^32, allocation succeeds,
  and one heap lock stands for the process heap.
* `CfgWalk`: `read_byte` answers the same during a walk.
* `SymMemory`: one symbol; clients seed before they store, and do not store at constant
  addresses up to the top of the address space.
* `SymxEngine`: expressions of one denotation are one expression; instructions
  that havoc their results, and REP; programs that overwrite return addresses; the
  loads and stores are explored without merging, because of what merging does to
  memory.
* `LiftPasses`: registers are two parts, one bit each in the run; ADD stands for
  all other ops; memory and XMM nodes, which the pass treats like other operands,
  are left out.
* Hazards without a property (`PROJECT.json` has a note for each) are those against which
  the code does nothing, so that only its failure could be stated: use of freed handles
  and hooks that survive a shutdown under racing callers, chained hooks, a thread stopped
  inside replaced bytes or born after the snapshot, a short jump cut to a byte, and what
  the depth cap of the engine drops.  The runs reach all of them but chained hooks.
* `EmuFaults`: words of one size, an instruction that does not overwrite its own
  bytes, flags other than ZF.
* `EmuInt`: memory that is all there (faults are `EmuFaults`), addresses with a base
  register only, the vector instructions, the system instructions that do nothing,
  the loops `emu_run*`.
* `Decoder`: the upper half of an eight-byte immediate, operand widths, implied
  operands; the disassembler's text.
* `CodeGen`: aliases, which call the method they stand for.
* `Assembler`: reading a line (operands, comments, equates, strings), opmasks and zmm
  registers, messages.
* `Relocation`: `emit_long_jcc`, `detect_jump_table`, the absolute call.
* `BranchResolve`: `enumerate_jump_table`, the fields that only describe a pattern
  or a table, the accumulator's short forms; one size of narrow register; the
  decoder, whose instructions it takes as read.
* Not modelled at all (`not_modelled` in `PROJECT.json`): the expression builder and
  the Z3 translation, whose results the engine's model takes by their meaning; the
  bindings, tools and examples, which forward to the library.
* Vector arithmetic of the emulator and the lifters of single mnemonics: element-wise
  arithmetic and long tables, where a test per case says as much as a model.

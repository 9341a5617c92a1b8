--------------------------- MODULE HookRefinement ---------------------------
(***************************************************************************)
(* The hook manager implements HookTable: the slot of a function is its    *)
(* target_map entry with the detour and the enabled flag of the context,   *)
(* and what a call runs is what the bytes at the address do.               *)
(***************************************************************************)
EXTENDS HookManager

\* nullptr is not a hook.
ASSUME NullIsNoHook == NoCtx \notin [detour : Detour, on : BOOLEAN]

AbsSlot ==
  [a \in Addr |->
     IF target_map[a] = NoCtx THEN NoCtx
     ELSE [detour |-> ctx[target_map[a]].detour,
           on |-> ctx[target_map[a]].enabled]]

Table == INSTANCE HookTable
           WITH Free <- NoCtx, Reached <- (Addr \X Detour) \ Near,
                ready <- initialized, slot <- AbsSlot, runs <- code

\* Every behaviour of the manager is one of the abstract table: the sections of
\* concurrent calls take effect one at a time, a call that fails or only checks
\* is invisible, and shutdown closes the table only once it is empty.
ImplementsTable == Table!Spec
=============================================================================

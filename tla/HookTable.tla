------------------------------ MODULE HookTable ------------------------------
(***************************************************************************)
(* What the hook manager promises a program that does not chain hooks:     *)
(* each function holds at most one hook, a call of the function goes where *)
(* the hook's jump leads exactly while the hook is on, every call is       *)
(* atomic, and the subsystem closes only when no hook is left.  The jump   *)
(* leads to the detour, but for pairs of a function and a detour so close  *)
(* that it goes astray.                                                    *)
(***************************************************************************)
CONSTANTS
  Addr,    \* hookable functions
  Detour,  \* detour functions
  Orig,    \* a call runs the function itself
  Astray,  \* a call runs into a misdirected jump
  Reached, \* pairs <<a, d>> for which the jump written at a leads to d
  Free     \* no hook on the function

VARIABLES
  ready,   \* the subsystem is initialized
  slot,    \* the hook on each function
  runs     \* what a call of each function runs

vars == <<ready, slot, runs>>

Hook == [detour : Detour, on : BOOLEAN]

\* What a call of a function runs while a hook is on.
Entered(a, d) == IF <<a, d>> \in Reached THEN d ELSE Astray

\* What a call of each function runs when the hooks are s.
Effect(s) ==
  [a \in Addr |-> IF s[a] # Free /\ s[a].on THEN Entered(a, s[a].detour) ELSE Orig]

Init ==
  /\ ready = FALSE
  /\ slot = [a \in Addr |-> Free]
  /\ runs = [a \in Addr |-> Orig]

Open == ~ready /\ ready' = TRUE /\ UNCHANGED <<slot, runs>>

Close ==
  /\ ready
  /\ \A a \in Addr : slot[a] = Free
  /\ ready' = FALSE
  /\ UNCHANGED <<slot, runs>>

Change(s) == slot' = s /\ runs' = Effect(s) /\ UNCHANGED ready

Install(a, d) ==
  /\ ready
  /\ slot[a] = Free
  /\ Change([slot EXCEPT ![a] = [detour |-> d, on |-> FALSE]])

Remove(a) ==
  /\ ready
  /\ slot[a] # Free
  /\ Change([slot EXCEPT ![a] = Free])

Switch(a, on) ==
  /\ ready
  /\ slot[a] # Free
  /\ Change([slot EXCEPT ![a].on = on])

SwitchAll(on) ==
  /\ ready
  /\ Change([a \in Addr |-> IF slot[a] = Free THEN Free
                            ELSE [detour |-> slot[a].detour, on |-> on]])

Next ==
  \/ Open
  \/ Close
  \/ \E a \in Addr : \/ Remove(a)
                     \/ \E d \in Detour : Install(a, d)
                     \/ \E on \in BOOLEAN : Switch(a, on)
  \/ \E on \in BOOLEAN : SwitchAll(on)

Spec == Init /\ [][Next]_vars
=============================================================================

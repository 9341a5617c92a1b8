SPECIFICATION Spec
CONSTANTS
  fa = fa
  fb = fb
  st = st
  wild = wild
  d1 = d1
  d2 = d2
  Addr = {fa, fb, wild}
  Detour = {d1, d2}
  Ctx = {c1, c2, c3}
  Threads = {t1, t2}
  Orig = Orig
  Astray = Astray
  NoCtx = NoCtx
  NoAddr = NoAddr
  Wild = wild
  Forward <- MCForward
  Near <- MCNear
  Batches <- MCBatches
  Configs = {FALSE}
  Disciplined = TRUE
SYMMETRY Symmetry
INVARIANTS
  TableConsistent
  PatchesMatchTable
  NoUseAfterFree
  NoHookOutlivesItsOwner
PROPERTIES
  ImplementsTable

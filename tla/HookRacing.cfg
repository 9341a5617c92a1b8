SPECIFICATION FairSpec
CONSTANTS
  fa = fa
  fb = fb
  st = st
  wild = wild
  d1 = d1
  d2 = d2
  Addr = {fa, st, wild}
  Detour = {d1}
  Ctx = {c1, c2}
  Threads = {t1, t2}
  Orig = Orig
  Astray = Astray
  NoCtx = NoCtx
  NoAddr = NoAddr
  Wild = wild
  Forward <- MCForward
  Near <- MCFar
  Batches <- OneBatch
  Configs = {FALSE}
  Disciplined = FALSE
CHECK_DEADLOCK FALSE
INVARIANT
  TableConsistent
PROPERTY
  CallsReturn

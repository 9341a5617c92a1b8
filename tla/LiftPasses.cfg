SPECIFICATION Spec
CONSTANTS
  rax = rax
  t1 = t1
  t2 = t2
  t3 = t3
  Regs = {rax}
  Temps = {t1, t2, t3}
  Part = {0, 1}
  Zero = 0
  Add <- AddBits
  And <- AndBits
  Or <- OrBits
  Ops <- SomeOps
  NoAlias = NoAlias
CONSTRAINT
  Faultless
INVARIANTS
  TempsRecoverable
  PassesPreserveMeaning

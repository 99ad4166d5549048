CONSTANTS
  t1 = t1
  t2 = t2
  t3 = t3
  f0 = f0
  f1 = f1
  Threads = {t1, t2, t3}
  Users = {t1, t2}
  NoThread = none
  Funcs = {f0, f1}
  FuncOf <- MCFuncOf
  Windowed = {r1, r2}
  Direct = {d}
  MaxTimeouts = 1
  SnWindows = {s0, s1}
  SnZero = s0
  Words = {w1, w2}
  Parts = {lo, hi}
  Values = {0, 1}
SPECIFICATION XSpec
INVARIANTS RightRegister RightWindow MemoryAsWritten
SYMMETRY Swap
CHECK_DEADLOCK FALSE

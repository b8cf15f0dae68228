CONSTANTS
  c1 = c1
  c2 = c2
  c3 = c3
  v1 = v1
  v2 = v2
  Cells = {c1, c2, c3}
  Envs = {v1, v2}
  NSlots = 1
  NVars = 1
  MaxHeld = 2
  NULL = NULL
SYMMETRY Sym
SPECIFICATION GcSpec
CHECK_DEADLOCK FALSE
INVARIANTS CountsExact HeapRight FindsGarbage

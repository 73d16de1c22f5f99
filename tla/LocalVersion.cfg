SPECIFICATION Spec
CONSTANTS
  Replica = {r1, r2}
  Field = {x, y}
  Value = {v0, v1, v2}
  Initial = v0
  MaxChanges = 3
SYMMETRY Symmetry
INVARIANTS
  Converged
  NotReverted
CHECK_DEADLOCK FALSE

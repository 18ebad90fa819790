SPECIFICATION Spec
CONSTANTS
  Requests = {r1, r2, r3}
  Boot = boot
  None = none
  MaxVersion = 2
SYMMETRY Symmetry
INVARIANT AtomicSwap
CHECK_DEADLOCK FALSE

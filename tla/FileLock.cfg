CONSTANTS
  Free = Free
  Processes = {P1, P2}
  PerProcess = {1, 2}
SPECIFICATION Spec
INVARIANT OneHolder

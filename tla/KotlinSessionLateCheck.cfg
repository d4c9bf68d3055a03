SPECIFICATION Spec
CONSTANTS
  ann = ann
  bob = bob
  Users <- MCUsers
  Nobody = Nobody
  Hasty = TRUE
  Cancelling = FALSE
  Refusals = FALSE
  MaxStarts = 8
SYMMETRY Symmetry
INVARIANT NeverNoRecord
CHECK_DEADLOCK FALSE

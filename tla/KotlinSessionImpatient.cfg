SPECIFICATION Spec
CONSTANTS
  ann = ann
  bob = bob
  Users <- MCUsers
  Nobody = Nobody
  Hasty = TRUE
  Cancelling = TRUE
  Refusals = TRUE
  MaxStarts = 3
SYMMETRY Symmetry
INVARIANT TypeOK
PROPERTY StrandedForGood
CHECK_DEADLOCK FALSE

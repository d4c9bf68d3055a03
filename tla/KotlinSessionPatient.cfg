SPECIFICATION FairSpec
CONSTANTS
  ann = ann
  bob = bob
  Users <- MCUsers
  Nobody = Nobody
  Hasty = FALSE
  Cancelling = FALSE
  Refusals = FALSE
  MaxStarts = 8
INVARIANT OnlyCompleteAccounts
PROPERTY DialogEnds
CHECK_DEADLOCK FALSE

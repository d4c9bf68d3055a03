SPECIFICATION Spec
CONSTANTS
  Devices = {phone, tablet}
  minsk = minsk
  brest = brest
  null = null
  Cities = {minsk, brest}
  Placeholder = null
  NoCity = NoCity
  InitialLists <- MCInitialLists
  Overlap = TRUE
  Registering = FALSE
  MaxVisits = 1
  MaxTaps = 2
  MaxBreaks = 1
CHECK_DEADLOCK FALSE
SYMMETRY Symmetry
INVARIANTS
  NeverTwice
PROPERTY
  PlaceholderStays

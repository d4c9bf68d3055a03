SPECIFICATION FairSpec
CONSTANTS
  Devices = {phone}
  minsk = minsk
  brest = brest
  null = null
  Cities = {minsk, brest}
  Placeholder = null
  NoCity = NoCity
  InitialLists <- MCInitialLists
  Overlap = FALSE
  Registering = TRUE
  MaxVisits = 2
  MaxTaps = 3
  MaxBreaks = 1
CHECK_DEADLOCK FALSE
INVARIANTS
  TypeOK
  ButtonSettles
  WritesTravelInOrder
PROPERTIES
  OneCityAtATime
  SpinnerEnds

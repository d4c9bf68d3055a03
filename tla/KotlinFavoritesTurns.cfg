SPECIFICATION Spec
CONSTANTS
  phone = phone
  tablet = tablet
  minsk = minsk
  brest = brest
  NULL = NULL
  Devices <- MCDevices
  Cities <- MCCities
  Placeholder = NULL
  NoCity = NoCity
  NoDevice = NoDevice
  InitialLists <- MCLists
  MaxActs = 4
  MaxBreaks = 1
INVARIANTS TypeOK ListMatchesButton ButtonFollows
PROPERTY OneCityAtATime
CHECK_DEADLOCK FALSE
SYMMETRY Symmetry

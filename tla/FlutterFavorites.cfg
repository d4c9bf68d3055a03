SPECIFICATION FairSpec
CONSTANTS
  phone = phone
  tablet = tablet
  minsk = minsk
  brest = brest
  Devices <- OneDevice
  Cities <- TwoCities
  NoCity = NoCity
  Overlap = FALSE
  Refusals = {"reads", "writes"}
  MaxVisits = 2
  MaxTaps = 2
  MaxBreaks = 1
CHECK_DEADLOCK FALSE
INVARIANTS TypeOK ButtonSettles
PROPERTIES OneCityAtATime RemovalIsComplete SpinnerEnds

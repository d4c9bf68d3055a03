CONSTANTS
  Users = {1, 2, 3}
  MaxSequence = 9
  Databases <- AllDatabases
  MaxInserts = 1
SPECIFICATION FairSpec
PROPERTIES IsCursor CallsReturn

\* A query whose values descend while its names ascend.
CONSTANTS
  p1 = p1  p2 = p2  ascending = ascending  other = other  slashed = slashed
  descending = descending
  None = None  Torn = Torn
  Processes = {p1}
  Queries = {ascending, descending}
  Keys <- AllKeys
  KeysOf <- Keyed
  SizesOf <- AnySize
  MaxMemory = 2
  MaxDisk = 2
  SaveInterval = 2
  Refused = {}
  MayFail = FALSE
  Clearers = {}
  Deleted = {}
  MaxEdits = 2
  MaxCrashes = 0
  MaxWalk = 2
SPECIFICATION Spec
INVARIANT OneEntryPerQuery
CHECK_DEADLOCK FALSE

\* One request at a time, a save after every edit, and one restart.
CONSTANTS
  p1 = p1  p2 = p2  ascending = ascending  other = other  slashed = slashed
  descending = descending
  None = None  Torn = Torn
  Processes = {p1}
  Queries = {ascending, other}
  Keys <- AllKeys
  KeysOf <- Keyed
  SizesOf <- AnySize
  MaxMemory = 1
  MaxDisk = 2
  SaveInterval = 1
  Refused = {}
  MayFail = FALSE
  Clearers = {}
  Deleted = {}
  MaxEdits = 4
  MaxCrashes = 1
  MaxWalk = 3
SPECIFICATION FairSpec
PROPERTY CallsReturn
CHECK_DEADLOCK FALSE

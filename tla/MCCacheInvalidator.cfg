\* Two requests and clients that delete and clear, over a crash and any panics.
CONSTANTS
  p1 = p1  p2 = p2  ascending = ascending  other = other  slashed = slashed  descending = descending
  None = None  Torn = Torn
  Processes = {p1, p2}
  Queries = {ascending, other, slashed}
  Keys <- AllKeys
  KeysOf <- Keyed
  SizesOf <- OneSizeEach
  MaxMemory = 1
  MaxDisk = 2
  SaveInterval = 2
  Refused <- SlashedKeys
  MayFail = TRUE
  Clearers = {p1, p2}
  Deleted = {ascending}
  MaxEdits = 3
  MaxCrashes = 1
  MaxWalk = 2
SPECIFICATION Spec
INVARIANTS
  TypeOK
  NoStaleAnswer
  AnswersOwnQuery
  OnlyLeftoversUnlisted
  SaveNotOverdue
SYMMETRY AnyProcess
CHECK_DEADLOCK FALSE

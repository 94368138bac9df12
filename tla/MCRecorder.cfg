\* Two requests for one URL, with and without a tape, under every tape call.
CONSTANTS
  r1 = r1  r2 = r2  u1 = u1  t1 = t1  i1 = i1  i2 = i2  i3 = i3
  None = None  Blank = Blank
  Requests = {r1, r2}
  Urls = {u1}
  Tapes = {t1, Blank}
  Ids = {i1, i2, i3}
  Asked <- OnlyTagged
  Loadable <- MixedTape
SPECIFICATION Spec
INVARIANTS
  TypeOK
  ReplayInOrder
  BlockedOnlyWhenPlayed
  SessionRecorded
PROPERTIES
  ReplayOnce
SYMMETRY AnyRequestAnyRecord

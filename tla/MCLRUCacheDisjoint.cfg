\* No two processes set or delete one key; a cache at rest is cleared.
\* A value of size 4 is beyond the bound.
CONSTANTS
  p1 = p1  p2 = p2  p3 = p3  k1 = k1  k2 = k2  k3 = k3
  None = None  NoElement = NoElement
  Processes = {p1, p2}
  Keys = {k1, k2, k3}
  KeysOf <- Disjoint
  Sizes = {1, 2, 4}
  MaxSize = 3
  MayFail = TRUE
  MayClear = {p1}
  QuietClear = TRUE
  Elements = {1, 2, 3, 4, 5, 6}
SPECIFICATION FairSpec
INVARIANT ListedIsReadable
PROPERTIES
  BoundedLRUSpec
  CallsReturn

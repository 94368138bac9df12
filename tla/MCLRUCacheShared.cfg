\* Every process sets, reads and deletes every key; a cache at rest is cleared.
CONSTANTS
  p1 = p1  p2 = p2  p3 = p3  k1 = k1  k2 = k2  k3 = k3
  None = None  NoElement = NoElement
  Processes = {p1, p2, p3}
  Keys = {k1, k2}
  KeysOf <- Shared
  Sizes = {1, 2}
  MaxSize = 2
  MayFail = TRUE
  MayClear = {p1, p2, p3}
  QuietClear = TRUE
  Elements = {1, 2, 3, 4, 5}
SPECIFICATION Spec
INVARIANTS
  TypeOK
  MappedIsListed
  BytesAccounted
  NoLeakedValue
SYMMETRY AnyProcessAnyKey

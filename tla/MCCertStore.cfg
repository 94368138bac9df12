\* Three connections to two hosts; generating a certificate may fail.
CONSTANTS
  f1 = f1  f2 = f2  f3 = f3  h1 = h1  h2 = h2
  None = None
  Fetches = {f1, f2, f3}
  Hosts = {h1, h2}
  MayFail = TRUE
SPECIFICATION FairSpec
INVARIANTS
  TypeOK
  GeneratedOnce
  ReturnedIsStored
PROPERTY OnlyOwnHostBlocks

\* No tape is ever loaded; the cache mode changes at any moment.  Two requests
\* for one URL, a GET and a POST.
CONSTANTS
  r1 = r1  r2 = r2  r3 = r3  u1 = u1  u2 = u2  k1 = k1  k2 = k2
  Requests <- TwoRequests
  Urls = {u1}
  Keys = {k1, k2}
  UrlOf <- MixedUrl
  KeyOf <- MixedKey
  GetRequests <- GetsOfMixed
  Outcomes = {"cacheable", "truncated", "error"}
  CacheModes = {"off", "standard", "getAggressive"}
  RecorderModes = {"off"}
SPECIFICATION FairSpec
INVARIANT NoAbandonedLock
PROPERTY RequestsComplete

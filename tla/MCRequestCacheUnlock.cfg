\* Cacheable traffic in standard mode, no tape.
CONSTANTS
  r1 = r1  r2 = r2  r3 = r3  u1 = u1  u2 = u2  k1 = k1  k2 = k2
  Requests <- TwoRequests
  Urls = {u1}
  Keys = {k1}
  UrlOf <- SameUrl
  KeyOf <- SameKey
  GetRequests = {r1, r2}
  Outcomes = {"cacheable"}
  CacheModes = {"standard"}
  RecorderModes = {"off"}
SPECIFICATION Spec
INVARIANT UnlockNeverFatal

\* Traffic that is never cached, standard mode, no tape loaded: two requests
\* for one URL and a third for another URL with the first one's key.
CONSTANTS
  r1 = r1  r2 = r2  r3 = r3  u1 = u1  u2 = u2  k1 = k1  k2 = k2
  Requests <- ThreeRequests
  Urls = {u1, u2}
  Keys = {k1, k2}
  UrlOf <- MixedUrl
  KeyOf <- MixedKey
  GetRequests <- GetsOfMixed
  Outcomes = {"nostore", "error"}
  CacheModes = {"standard"}
  RecorderModes = {"off", "write"}
SPECIFICATION Spec
INVARIANT UnlockNeverFatal
PROPERTY SingleFlightSpec

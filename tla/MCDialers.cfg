\* Two requests to one host, two loads, one of them rejected half way.
CONSTANTS
  r1 = r1  r2 = r2  h1 = h1
  None = None
  Requests = {r1, r2}
  HostOf <- OneHost
  TypeOf <- Types
  MatchesOf <- Matches
  Loads <- SomeLoads
  TotalTries = 0
  Protocols = {"HTTP1TLS", "HTTP2TLS"}
  MaxId = 5
SPECIFICATION FairSpec
INVARIANTS
  TypeOK
  FailsOnlyExhausted
  HighestPriorityFirst
  TransportOfDialer
PROPERTY RoundTripsEnd

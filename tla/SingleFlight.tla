---------------------------- MODULE SingleFlight ----------------------------
(***************************************************************************)
(* What the proxy promises of its request locks: "Limit outbound requests  *)
(* of the same URL to 1 concurrent request".  A request takes off only     *)
(* when no request for its URL is in the air; the end of the process ends  *)
(* every flight.                                                           *)
(***************************************************************************)
CONSTANTS Requests, Urls, UrlOf

VARIABLE flights    \* the requests that are outbound

TypeOK == flights \subseteq Requests

Init == flights = {}

TakeOff(r) ==
  /\ \A q \in flights : UrlOf[q] # UrlOf[r]
  /\ flights' = flights \cup {r}

Arrive(r) ==
  /\ r \in flights
  /\ flights' = flights \ {r}

Abort == flights' = {}

Next == (\E r \in Requests : TakeOff(r) \/ Arrive(r)) \/ Abort

Spec == Init /\ [][Next]_flights

(* No two requests for one URL are outbound together.                      *)
OneFlightPerUrl ==
  \A r, q \in flights : UrlOf[r] = UrlOf[q] => r = q
=============================================================================

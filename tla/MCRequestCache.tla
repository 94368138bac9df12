--------------------------- MODULE MCRequestCache ---------------------------
(***************************************************************************)
(* Instances of RequestCache for TLC.                                      *)
(***************************************************************************)
EXTENDS RequestCache

CONSTANTS r1, r2, r3, u1, u2, k1, k2

TwoRequests == {r1, r2}
FirstAndThird == {r1, r3}
ThreeRequests == {r1, r2, r3}

(* All the requests ask for one URL with one method.                       *)
SameUrl == [r \in Requests |-> u1]
SameKey == [r \in Requests |-> k1]

(* r1 and r2 ask for one URL, r1 by GET and r2 by POST; r3, where there is *)
(* one, uses another scheme or port: its lock is another, its key is r1's. *)
MixedUrl == [r \in Requests |-> IF r = r3 THEN u2 ELSE u1]
MixedKey == [r \in Requests |-> IF r = r2 THEN k2 ELSE k1]
GetsOfMixed == Requests \ {r2}
=============================================================================

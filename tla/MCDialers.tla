----------------------------- MODULE MCDialers -----------------------------
(***************************************************************************)
(* Instances of Dialers for TLC.                                           *)
(***************************************************************************)
EXTENDS Dialers

CONSTANTS r1, r2, h1

(* r1 is a script, whose URL the static expression matches; r2 a document. *)
OneHost == [r \in Requests |-> h1]
Types == [r \in Requests |-> IF r = r1 THEN "script" ELSE "document"]
Matches == [r \in Requests |-> IF r = r1 THEN {"static"} ELSE {}]

(* What the clients' default dialers amount to: a filtered one of high     *)
(* priority and a catch-all of low priority.                               *)
Static == [priority |-> 1000, requires |-> [regex |-> "static", types |-> {"image"}]]
Scripts == [priority |-> 1000, requires |-> [regex |-> "images", types |-> {"script"}]]
CatchAll == [priority |-> 1, requires |-> NoRequirement]
Broken == [priority |-> 1, requires |-> [regex |-> BadRegex, types |-> {}]]

SomeLoads == {<<CatchAll, Static>>, <<Scripts, Broken>>}
=============================================================================

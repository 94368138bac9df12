----------------------------- MODULE MCRecorder -----------------------------
(***************************************************************************)
(* Instances of Recorder for TLC.                                          *)
(***************************************************************************)
EXTENDS Recorder, TLC

CONSTANTS r1, r2, u1, t1, i1, i2, i3

Tagged == [url |-> u1, tape |-> t1]
Untagged == [url |-> u1, tape |-> Blank]
OnlyTagged == {Tagged}
MixedTape == {<<Untagged, Tagged>>}

AnyRequestAnyRecord == Permutations(Requests) \cup Permutations(Ids)
=============================================================================

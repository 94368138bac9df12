------------------------- MODULE MCCacheInvalidator -------------------------
(***************************************************************************)
(* Instances of CacheInvalidator for TLC, with the keys that getCacheKey   *)
(* makes of the queries: a text of the alphabet is a sequence of numbers.  *)
(***************************************************************************)
EXTENDS CacheInvalidator, CacheKey, TLC

CONSTANTS p1, p2, ascending, other, slashed, descending

a == <<97>>
b == <<98>>
c == <<99>>
One == <<49>>
Two == <<50>>
Three == <<51>>

(* GET h/?a=1&b=2&c=3 and the like.                                        *)
Request(query) ==
  [method |-> <<71>>, host |-> <<104>>, path |-> <<47>>, query |-> query]
RequestOf(q) ==
  CASE q = ascending -> Request(a :> <<One>> @@ b :> <<Two>> @@ c :> <<Three>>)
    [] q = other -> Request(a :> <<One>> @@ b :> <<Three>> @@ c :> <<Three>>)
    [] q = slashed -> Request(b :> <<Two>>)
    [] q = descending -> Request(a :> <<Two>> @@ b :> <<One>>)

(* The keys are numbered: TLC is quicker with numbers than with texts.     *)
Texts == [q \in Queries |-> GetCacheKey(RequestOf(q))]
Numbered == SetToSeq(UNION {Texts[q] : q \in Queries})
AllKeys == DOMAIN Numbered
Keyed == [q \in Queries |-> {n \in AllKeys : Numbered[n] \in Texts[q]}]
SlashedKeys == Keyed[slashed]

OneSizeEach == [q \in Queries |-> IF q = other THEN {2} ELSE {1}]
AnySize == [q \in Queries |-> {1, 2}]

AnyProcess == Permutations(Processes)
=============================================================================

------------------------------ MODULE CacheKey ------------------------------
(***************************************************************************)
(* The name under which the cache stores an answer: getCacheKey of         *)
(* groove/proxy/cache_key.go, a text made of a request's method, host,     *)
(* path and sorted query.  A request's query is a map, and Go iterates     *)
(* over a map in an order of its own each time, so that one request has as *)
(* many keys as there are orders the sort does not undo.  A text is a      *)
(* sequence of characters, which stand for their places in the alphabet;   *)
(* the base64 around the whole is injective and left out.                  *)
(***************************************************************************)
EXTENDS Integers, FiniteSets, SequencesExt

Ampersand == 38
Hyphen == 45
EqualsSign == 61

(* Go's < on strings.                                                      *)
TextLess(s, t) ==
  \E n \in 0..Len(s) :
    /\ n < Len(t) /\ SubSeq(s, 1, n) = SubSeq(t, 1, n)
    /\ n = Len(s) \/ s[n + 1] < t[n + 1]

-----------------------------------------------------------------------------
(* QueryArray.Less asks twice whether the first key is the smaller one and *)
(* never whether it is the greater one: a pair with a greater key and a    *)
(* smaller value is less, too.                                             *)
Less(x, y) == TextLess(x.key, y.key) \/ TextLess(x.value, y.value)

(* newQueryArray: a request's query maps each name to its values, in the   *)
(* order the request gives them; the names come in any order.              *)
PairsOf(values, name) ==
  [i \in DOMAIN values[name] |-> [key |-> name, value |-> values[name][i]]]
QueryArrays(values) ==
  {FlattenSeq([i \in DOMAIN names |-> PairsOf(values, names[i])]) :
     names \in SetToSeqs(DOMAIN values)}

(* sort.Sort, which is an insertion sort on arrays as short as a query: a  *)
(* pair moves to the left for as long as it is less than its neighbour.    *)
Insert(sorted, pair) ==
  LET passed == {i \in DOMAIN sorted : \A j \in i..Len(sorted) : Less(pair, sorted[j])}
  IN InsertAt(sorted, Len(sorted) + 1 - Cardinality(passed), pair)
Sort(array) ==
  LET sorted[n \in 0..Len(array)] ==
        IF n = 0 THEN << >> ELSE Insert(sorted[n - 1], array[n])
  IN sorted[Len(array)]

(* Mutant: the values of the query are left out of the key.                *)
PairText_KeyOnly(pair) == pair.key \o <<EqualsSign, Ampersand>>

PairText(pair) == pair.key \o <<EqualsSign>> \o pair.value \o <<Ampersand>>

CacheKeyOf(request, array) ==
  request.method \o <<Hyphen>> \o request.host \o request.path \o <<Hyphen>>
    \o FlattenSeq([i \in DOMAIN array |-> PairText(array[i])])

(* The keys one request may be looked up or stored under.                  *)
GetCacheKey(request) ==
  {CacheKeyOf(request, Sort(array)) : array \in QueryArrays(request.query)}
=============================================================================

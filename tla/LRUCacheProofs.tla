--------------------------- MODULE LRUCacheProofs ---------------------------
(***************************************************************************)
(* What LRUCache keeps for every set of processes, keys and sizes and for  *)
(* every bound, with every interleaving of Set, Get, Delete and DeleteAll. *)
(***************************************************************************)
EXTENDS LRUCache, SharedLemmas

(* The bytes of a list with an element more, and with one less.            *)
LEMMA BytesAre ==
  ASSUME NEW T, \A x \in T : x.size \in Nat, NEW s \in Seq(T)
  PROVE  Bytes(s) \in Nat
BY SumOfSizes DEF Bytes

LEMMA BytesRemoved ==
  ASSUME NEW T, \A x \in T : x.size \in Int, NEW s \in Seq(T), NEW i \in DOMAIN s
  PROVE  Bytes(RemoveAt(s, i)) = Bytes(s) - s[i].size /\ Bytes(s) \in Int
<1> DEFINE n == Len(s)
           t == RemoveAt(s, i)
           f == [j \in DOMAIN s |-> s[j].size]
           g == [j \in DOMAIN t |-> t[j].size]
           h == [j \in 1..(n - 1) |-> IF j < i THEN j ELSE j + 1]
<1>1. /\ n \in Nat /\ i \in 1..n /\ DOMAIN s = 1..n /\ DOMAIN t = 1..(n - 1)
      /\ \A j \in 1..(n - 1) : t[j] = s[h[j]]
  BY RemoveAtPlaces
<1>2. /\ h \in [1..(n - 1) -> (1..n) \ {i}]
      /\ \A x, y \in 1..(n - 1) : h[x] = h[y] => x = y
  BY <1>1
<1>3. \A y \in (1..n) \ {i} : \E x \in 1..(n - 1) : h[x] = y
  <2>1. SUFFICES ASSUME NEW y \in (1..n) \ {i} PROVE \E x \in 1..(n - 1) : h[x] = y
    OBVIOUS
  <2>2. CASE y < i
    <3>1. y \in 1..(n - 1) /\ h[y] = y
      BY <1>1, <2>2
    <3> QED BY <3>1
  <2>3. CASE ~(y < i)
    <3>1. y - 1 \in 1..(n - 1) /\ h[y - 1] = y
      BY <1>1, <2>3
    <3> QED BY <3>1
  <2> QED BY <2>2, <2>3
<1>4. /\ Bytes(s) = SumFunctionOnSet(f, 1..n)
      /\ Bytes(t) = SumFunctionOnSet(g, 1..(n - 1))
  <2>1. DOMAIN f = 1..n /\ DOMAIN g = 1..(n - 1)
    BY <1>1
  <2> QED BY <2>1 DEF Bytes, SumFunction
<1>5. IsFiniteSet(1..n) /\ IsFiniteSet(1..(n - 1))
  BY <1>1, FS_Interval
<1>6. \A j \in 1..n : f[j] = s[j].size /\ f[j] \in Int
  BY <1>1
<1>7. \A j \in 1..(n - 1) : g[j] = f[h[j]] /\ g[j] \in Int
  <2>1. \A j \in 1..(n - 1) : g[j] = t[j].size /\ h[j] \in 1..n
    BY <1>1, <1>2
  <2> HIDE DEF g, h, f, t, n
  <2> QED BY <1>1, <1>6, <2>1
<1> HIDE DEF n, t, f, g, h
<1>8. SumFunctionOnSet(g, 1..(n - 1)) = SumFunctionOnSet(f, (1..n) \ {i})
  <2>1. Reindexes(h, g, 1..(n - 1), f, (1..n) \ {i})
    BY <1>2, <1>3, <1>7 DEF Reindexes
  <2> QED BY <1>5, <2>1, SumReindexed
<1>9. /\ SumFunctionOnSet(f, 1..n) \in Int
      /\ \A x \in 1..n : SumFunctionOnSet(f, 1..n) = f[x] + SumFunctionOnSet(f, (1..n) \ {x})
  BY <1>5, <1>6, SumRemove
<1>10. SumFunctionOnSet(f, 1..n) = f[i] + SumFunctionOnSet(f, (1..n) \ {i})
  BY <1>1, <1>9
<1>11. SumFunctionOnSet(f, (1..n) \ {i}) \in Int
  <2>1. IsFiniteSet((1..n) \ {i}) /\ \A j \in (1..n) \ {i} : f[j] \in Int
    BY <1>1, <1>5, <1>6, OneLess
  <2> QED BY <2>1, SumRemove
<1> QED BY <1>1, <1>4, <1>6, <1>8, <1>9, <1>10, <1>11 DEF t

LEMMA BytesPushed ==
  ASSUME NEW T, \A x \in T : x.size \in Int, NEW s \in Seq(T), NEW e \in T
  PROVE  Bytes(<<e>> \o s) = Bytes(s) + e.size
<1> DEFINE t == <<e>> \o s
<1>1. /\ t \in Seq(T) /\ DOMAIN t = 1..(Len(s) + 1) /\ t[1] = e /\ 1 \in DOMAIN t
      /\ Len(s) \in Nat /\ DOMAIN s = 1..Len(s)
      /\ \A j \in 1..Len(s) : t[j + 1] = s[j]
  OBVIOUS
<1> HIDE DEF t
<1>2. RemoveAt(t, 1) = s
  <2>1. /\ RemoveAt(t, 1) \in Seq(T)
        /\ DOMAIN RemoveAt(t, 1) = 1..(Len(t) - 1)
        /\ \A j \in 1..(Len(t) - 1) : RemoveAt(t, 1)[j] = IF j < 1 THEN t[j] ELSE t[j + 1]
    BY <1>1, RemoveAtPlaces
  <2>2. Len(t) = Len(s) + 1
    BY <1>1
  <2>3. /\ DOMAIN RemoveAt(t, 1) = DOMAIN s
        /\ \A j \in DOMAIN s : RemoveAt(t, 1)[j] = s[j]
    BY <1>1, <2>1, <2>2
  <2> QED BY <2>1, <2>3
<1>3. Bytes(RemoveAt(t, 1)) = Bytes(t) - t[1].size /\ Bytes(t) \in Int
  BY <1>1, BytesRemoved
<1> QED BY <1>1, <1>2, <1>3 DEF t

LEMMA PositionOf ==
  ASSUME NEW e, InList(e)
  PROVE  Position(e) \in DOMAIN orderedCacheKeys /\ orderedCacheKeys[Position(e)] = e
BY DEF InList, Position, ToSet

LEMMA ListWithoutType ==
  ASSUME NEW S, orderedCacheKeys \in Seq(S), NEW e
  PROVE  ListWithout(e) \in Seq(S)
BY PositionOf, RemoveAtType DEF ListWithout

LEMMA ListWithoutKeeps ==
  ASSUME NEW S, orderedCacheKeys \in Seq(S), NEW e, NEW x, InList(x), x # e
  PROVE  x \in ToSet(ListWithout(e))
BY PositionOf, RemoveAtKeeps DEF ListWithout, InList

LEMMA PushedIsListed ==
  ASSUME NEW S, NEW s \in Seq(S), NEW e \in S
  PROVE  /\ <<e>> \o s \in Seq(S)
         /\ e \in ToSet(<<e>> \o s)
         /\ \A x \in ToSet(s) : x \in ToSet(<<e>> \o s)
<1> DEFINE t == <<e>> \o s
<1>1. <<e>> \in Seq(S) /\ Len(<<e>>) = 1 /\ t \in Seq(S) /\ Len(t) = Len(s) + 1
  OBVIOUS
<1>2. t[1] = e /\ 1 \in DOMAIN t
  BY <1>1
<1>3. \A i \in DOMAIN s : i + 1 \in DOMAIN t /\ t[i + 1] = s[i]
  BY <1>1
<1> HIDE DEF t
<1>4. e \in ToSet(t)
  BY <1>2 DEF ToSet
<1>5. ASSUME NEW x \in ToSet(s) PROVE x \in ToSet(t)
  <2>1. PICK i \in DOMAIN s : s[i] = x
    BY DEF ToSet
  <2>2. QED
    BY <1>3, <2>1 DEF ToSet
<1>6. QED
  BY <1>1, <1>4, <1>5 DEF t

-----------------------------------------------------------------------------
(* Types.                                                                  *)
LEMMA SizesArePositive == \A n \in Sizes : n \in Int /\ n > 0
BY LRUAssumption DEF LRUAssumption

LEMMA ElementFields ==
  ASSUME NEW e \in Element
  PROVE  e.key \in Keys /\ e.size \in Int
<1>1. e.key \in Keys /\ e.size \in Sizes
  BY DEF Element
<1>2. QED
  BY <1>1, SizesArePositive

LEMMA SetCallFields ==
  ASSUME NEW c \in SetCall
  PROVE  c.op = "set" /\ c.key \in Keys /\ c.size \in Sizes /\ c.size \in Int
<1>1. c.op = "set" /\ c.key \in Keys /\ c.size \in Sizes
  BY DEF SetCall
<1>2. QED
  BY <1>1, SizesArePositive

LEMMA UnlistType ==
  ASSUME TypeOK, NEW k \in Keys, Unlist(k)
  PROVE  /\ orderedCacheKeys' \in Seq(Element)
         /\ keyToElement' \in [Keys -> Element \cup {NoElement}]
         /\ currentSize' \in Int
<1>1. CASE keyToElement[k] = NoElement
  BY <1>1 DEF Unlist, listVars, TypeOK
<1>2. CASE keyToElement[k] # NoElement
  <2>1. keyToElement[k] \in Element /\ orderedCacheKeys \in Seq(Element)
    BY <1>2 DEF TypeOK
  <2>2. orderedCacheKeys' \in Seq(Element)
    BY <1>2, <2>1, ListWithoutType DEF Unlist
  <2>3. keyToElement[k].size \in Int
    BY <2>1, ElementFields
  <2>4. currentSize' \in Int
    BY <1>2, <2>3 DEF Unlist, TypeOK
  <2>5. keyToElement' \in [Keys -> Element \cup {NoElement}]
    BY <1>2 DEF Unlist, TypeOK
  <2>6. QED
    BY <2>2, <2>4, <2>5
<1>3. QED
  BY <1>1, <1>2

LEMMA LastType ==
  ASSUME NEW S, NEW s \in Seq(S), s # << >>
  PROVE  Last(s) \in S
BY DEF Last

(* A process inside a call knows what the call is about.                   *)
SettingLabels == {"evict", "purge", "purgeErase", "allocate", "write", "push", "refund"}
CallsKnown ==
  \A p \in Processes :
    /\ pc[p] \in SettingLabels => call[p] \in SetCall
    /\ pc[p] \in {"delete", "erase"} => call[p] \in SetCall \cup DeleteCall
    /\ pc[p] \in {"touch", "purgeErase"} => found[p] \in Element
TypeInv == TypeOK /\ CallsKnown

LEMMA TypeStep == TypeInv /\ [Next]_vars => TypeInv'
<1> SUFFICES ASSUME TypeInv, [Next]_vars PROVE TypeInv'
  OBVIOUS
<1> USE LRUAssumption DEF LRUAssumption, TypeInv, CallsKnown, SettingLabels,
                          Goto, Return
<1>1. ASSUME NEW p \in Processes, Begin(p) PROVE TypeInv'
  <2>1. CASE Set(p)
    BY <2>1 DEF Set, TypeOK, Labels, listVars, SetCall
  <2>2. CASE Delete(p)
    BY <2>2 DEF Delete, TypeOK, Labels, listVars, DeleteCall
  <2>3. CASE Get(p)
    BY <2>3 DEF Get, TypeOK, Labels, listVars
  <2>4. CASE DeleteAll(p)
    BY <2>4 DEF DeleteAll, TypeOK, Labels, listVars
  <2>5. QED
    BY <1>1, <2>1, <2>2, <2>3, <2>4 DEF Begin
<1>2. ASSUME NEW p \in Processes, Continue(p) PROVE TypeInv'
  <2>1. CASE DeleteMetadata(p)
    <3>1. call[p].key \in Keys
      BY <2>1 DEF DeleteMetadata, SetCall, DeleteCall
    <3>2. /\ orderedCacheKeys' \in Seq(Element)
          /\ keyToElement' \in [Keys -> Element \cup {NoElement}]
          /\ currentSize' \in Int
      BY <2>1, <3>1, UnlistType DEF DeleteMetadata
    <3>3. QED
      BY <2>1, <3>2 DEF DeleteMetadata, TypeOK, Labels
  <2>2. CASE DeleteKeyCallback(p)
    <3>1. values' \in [Keys -> {0} \cup Sizes]
      BY <2>2 DEF DeleteKeyCallback, TypeOK
    <3>2. call[p].op = "set" => call[p] \in SetCall
      BY <2>2 DEF DeleteKeyCallback, DeleteCall
    <3>3. CASE call[p].op = "set"
      BY <2>2, <3>1, <3>2, <3>3 DEF DeleteKeyCallback, TypeOK, Labels, listVars
    <3>4. CASE call[p].op # "set"
      BY <2>2, <3>1, <3>4 DEF DeleteKeyCallback, TypeOK, Labels, listVars
    <3>5. QED
      BY <3>3, <3>4
  <2>3. CASE StartPurge(p) \/ EndPurge(p)
    BY <2>3 DEF StartPurge, EndPurge, TypeOK, Labels, listVars
  <2>4. CASE PurgeOldest(p)
    <3>1. Last(orderedCacheKeys) \in Element
      BY <2>4, LastType DEF PurgeOldest, TypeOK
    <3>2. /\ orderedCacheKeys' \in Seq(Element)
          /\ keyToElement' \in [Keys -> Element \cup {NoElement}]
          /\ currentSize' \in Int
      BY <2>4, <3>1, UnlistType DEF PurgeOldest, Element
    <3>3. QED
      BY <2>4, <3>1, <3>2 DEF PurgeOldest, TypeOK, Labels
  <2>5. CASE PurgeErase(p)
    BY <2>5 DEF PurgeErase, TypeOK, Labels, listVars
  <2>6. CASE AllocateSpace(p) \/ Refund(p)
    <3>1. call[p].size \in Int
      BY <2>6, SetCallFields DEF AllocateSpace, Refund
    <3>2. QED
      BY <2>6, <3>1 DEF AllocateSpace, Refund, TypeOK, Labels
  <2>7. CASE NoSpace(p)
    BY <2>7 DEF NoSpace, TypeOK, Labels, listVars
  <2>8. CASE SetValueCallback(p) \/ SetValueFails(p)
    <3>1. call[p].key \in Keys /\ call[p].size \in Sizes
      BY <2>8 DEF SetValueCallback, SetValueFails, SetCall
    <3>2. QED
      BY <2>8, <3>1 DEF SetValueCallback, SetValueFails, TypeOK, Labels, listVars
  <2>9. CASE PushFront(p)
    <3> DEFINE e == [id |-> CHOOSE i \in FreshIds : TRUE,
                     key |-> call[p].key, size |-> call[p].size]
    <3>1. e \in Element
      BY <2>9 DEF PushFront, FreshIds, SetCall, Element
    <3>2. <<e>> \o orderedCacheKeys \in Seq(Element)
      BY <3>1, PushedIsListed DEF TypeOK
    <3> HIDE DEF e
    <3>3. /\ orderedCacheKeys' = <<e>> \o orderedCacheKeys
          /\ keyToElement' = [keyToElement EXCEPT ![e.key] = e]
      BY <2>9 DEF PushFront, e
    <3>4. keyToElement' \in [Keys -> Element \cup {NoElement}]
      BY <3>1, <3>3 DEF TypeOK
    <3>5. QED
      BY <2>9, <3>2, <3>3, <3>4 DEF PushFront, TypeOK, Labels
  <2>10. CASE MoveToFront(p)
    <3>1. found[p] \in Element
      BY <2>10 DEF MoveToFront
    <3>2. <<found[p]>> \o ListWithout(found[p]) \in Seq(Element)
      BY <3>1, ListWithoutType, PushedIsListed DEF TypeOK
    <3>3. QED
      BY <2>10, <3>2 DEF MoveToFront, TypeOK, Labels
  <2>11. CASE DeleteAllCallback(p)
    BY <2>11 DEF DeleteAllCallback, TypeOK, Labels, listVars
  <2>12. QED
    BY <1>2, <2>1, <2>2, <2>3, <2>4, <2>5, <2>6, <2>7, <2>8, <2>9, <2>10, <2>11
       DEF Continue
<1>3. CASE UNCHANGED vars
  BY <1>3 DEF vars, TypeOK
<1>4. QED
  BY <1>1, <1>2, <1>3 DEF Next

LEMMA TypeInit == Init => TypeInv
BY LRUAssumption DEF Init, TypeInv, TypeOK, CallsKnown, SettingLabels, Labels,
   LRUAssumption

(* Every variable keeps its type (TypeOK) under every interleaving of the  *)
(* calls.                                                                  *)
THEOREM TypeCorrect == Spec => []TypeOK
<1>1. TypeInv => TypeOK
  BY DEF TypeInv
<1>2. QED
  BY TypeInit, TypeStep, <1>1, PTL DEF Spec

-----------------------------------------------------------------------------
(* The map and the list.                                                   *)
LEMMA UnlistKeepsOthers ==
  ASSUME TypeOK, MappedIsListed, NEW k \in Keys, Unlist(k)
  PROVE  MappedIsListed'
<1>1. CASE keyToElement[k] = NoElement
  BY <1>1 DEF Unlist, listVars, MappedIsListed, InList
<1>2. CASE keyToElement[k] # NoElement
  <2>1. ASSUME NEW j \in Keys, keyToElement'[j] # NoElement
        PROVE  InList(keyToElement[j])' /\ keyToElement'[j].key = j
    <3>1. j # k /\ keyToElement'[j] = keyToElement[j]
      BY <1>2, <2>1 DEF Unlist, TypeOK
    <3>2. InList(keyToElement[j]) /\ keyToElement[j].key = j
      BY <2>1, <3>1 DEF MappedIsListed
    <3>3. keyToElement[j] # keyToElement[k]
      BY <1>2, <3>1, <3>2 DEF MappedIsListed
    <3>4. keyToElement[j] \in ToSet(ListWithout(keyToElement[k]))
      BY <3>2, <3>3, ListWithoutKeeps DEF TypeOK
    <3>5. orderedCacheKeys' = ListWithout(keyToElement[k])
      BY <1>2 DEF Unlist
    <3>6. QED
      BY <3>1, <3>2, <3>4, <3>5 DEF InList
  <2>2. QED
    BY <2>1 DEF MappedIsListed
<1>3. QED
  BY <1>1, <1>2

LEMMA MappedStep == TypeInv /\ MappedIsListed /\ [Next]_vars => MappedIsListed'
<1> SUFFICES ASSUME TypeInv, MappedIsListed, [Next]_vars PROVE MappedIsListed'
  OBVIOUS
<1>t. /\ TypeOK
      /\ orderedCacheKeys \in Seq(Element)
      /\ keyToElement \in [Keys -> Element \cup {NoElement}]
  BY DEF TypeInv, TypeOK
<1>1. ASSUME orderedCacheKeys' = orderedCacheKeys, keyToElement' = keyToElement
      PROVE  MappedIsListed'
  BY <1>1 DEF MappedIsListed, InList
<1>2. ASSUME NEW p \in Processes, Begin(p) PROVE MappedIsListed'
  <2>1. CASE DeleteAll(p)
    BY <2>1 DEF DeleteAll, MappedIsListed
  <2>2. CASE ~DeleteAll(p)
    BY <1>1, <1>2, <2>2 DEF Begin, Set, Delete, Get, listVars
  <2>3. QED
    BY <2>1, <2>2
<1>3. ASSUME NEW p \in Processes, Continue(p) PROVE MappedIsListed'
  <2>1. CASE DeleteMetadata(p)
    <3>1. call[p].key \in Keys
      BY <2>1 DEF DeleteMetadata, TypeInv, CallsKnown, SetCall, DeleteCall
    <3>2. QED
      BY <1>t, <2>1, <3>1, UnlistKeepsOthers DEF DeleteMetadata
  <2>2. CASE PurgeOldest(p)
    <3>1. Last(orderedCacheKeys).key \in Keys
      BY <1>t, <2>2, LastType, ElementFields DEF PurgeOldest
    <3>2. QED
      BY <1>t, <2>2, <3>1, UnlistKeepsOthers DEF PurgeOldest
  <2>3. CASE PushFront(p)
    <3> DEFINE e == [id |-> CHOOSE i \in FreshIds : TRUE,
                     key |-> call[p].key, size |-> call[p].size]
    <3>1. e \in Element /\ e.key \in Keys
      BY <2>3 DEF PushFront, FreshIds, TypeInv, CallsKnown, SettingLabels,
                  SetCall, Element
    <3> HIDE DEF e
    <3>2. /\ e \in ToSet(<<e>> \o orderedCacheKeys)
          /\ \A x \in ToSet(orderedCacheKeys) : x \in ToSet(<<e>> \o orderedCacheKeys)
      BY <1>t, <3>1, PushedIsListed
    <3>3. /\ orderedCacheKeys' = <<e>> \o orderedCacheKeys
          /\ keyToElement' = [keyToElement EXCEPT ![e.key] = e]
      BY <2>3 DEF PushFront, e
    <3>4. ASSUME NEW k \in Keys, keyToElement'[k] # NoElement
          PROVE  keyToElement'[k] \in ToSet(orderedCacheKeys') /\ keyToElement'[k].key = k
      <4>1. CASE k = e.key
        BY <1>t, <3>1, <3>2, <3>3, <4>1
      <4>2. CASE k # e.key
        <5>1. keyToElement'[k] = keyToElement[k]
          BY <1>t, <3>3, <4>2
        <5>2. keyToElement[k] \in ToSet(orderedCacheKeys) /\ keyToElement[k].key = k
          BY <3>4, <5>1 DEF MappedIsListed, InList
        <5>3. QED
          BY <3>2, <3>3, <5>1, <5>2
      <4>3. QED
        BY <4>1, <4>2
    <3>5. QED
      BY <3>4 DEF MappedIsListed, InList
  <2>4. CASE MoveToFront(p)
    <3> DEFINE moved == <<found[p]>> \o ListWithout(found[p])
    <3>1. CASE ~InList(found[p])
      BY <1>1, <2>4, <3>1 DEF MoveToFront
    <3>2. CASE InList(found[p])
      <4>1. found[p] \in Element /\ ListWithout(found[p]) \in Seq(Element)
        BY <1>t, <2>4, ListWithoutType DEF MoveToFront, TypeInv, CallsKnown
      <4>2. \A x : x \in ToSet(orderedCacheKeys) => x \in ToSet(moved)
        BY <1>t, <4>1, ListWithoutKeeps, PushedIsListed DEF InList
      <4>3. orderedCacheKeys' = moved /\ keyToElement' = keyToElement
        BY <2>4, <3>2 DEF MoveToFront
      <4> HIDE DEF moved
      <4>4. QED
        BY <4>2, <4>3 DEF MappedIsListed, InList
    <3>3. QED
      BY <3>1, <3>2
  <2>5. CASE ~(DeleteMetadata(p) \/ PurgeOldest(p) \/ PushFront(p) \/ MoveToFront(p))
    BY <1>1, <1>3, <2>5 DEF Continue, DeleteKeyCallback, StartPurge, PurgeErase,
       EndPurge, AllocateSpace, NoSpace, SetValueCallback, SetValueFails, Refund,
       DeleteAllCallback, listVars
  <2>6. QED
    BY <2>1, <2>2, <2>3, <2>4, <2>5
<1>4. CASE UNCHANGED vars
  BY <1>1, <1>4 DEF vars
<1>5. QED
  BY <1>2, <1>3, <1>4 DEF Next

(* What the map finds is in the list and bears the key asked for           *)
(* (MappedIsListed), whatever Sets, Gets, Deletes and DeleteAlls overlap.  *)
THEOREM MapAgreesWithList == Spec => []MappedIsListed
<1>1. Init => MappedIsListed
  BY DEF Init, MappedIsListed
<1>2. QED
  BY TypeInit, TypeStep, <1>1, MappedStep, PTL DEF Spec

-----------------------------------------------------------------------------
(* The values.                                                             *)
LEMMA LeakStep == TypeInv /\ NoLeakedValue /\ [Next]_vars => NoLeakedValue'
<1> SUFFICES ASSUME TypeInv, NoLeakedValue, [Next]_vars PROVE NoLeakedValue'
  OBVIOUS
<1> USE DEF NoLeakedValue, Claims, Goto, Return
<1>t. /\ keyToElement \in [Keys -> Element \cup {NoElement}]
      /\ values \in [Keys -> {0} \cup Sizes]
      /\ pc \in [Processes -> Labels]
      /\ call \in [Processes -> {NoCall} \cup SetCall \cup DeleteCall]
      /\ found \in [Processes -> Element \cup {NoElement}]
  BY DEF TypeInv, TypeOK
<1>1. ASSUME NEW p \in Processes, Begin(p) PROVE NoLeakedValue'
  BY <1>t, <1>1 DEF Begin, Set, Delete, Get, DeleteAll, listVars
<1>2. ASSUME NEW p \in Processes, Continue(p) PROVE NoLeakedValue'
  <2>1. CASE DeleteMetadata(p)
    BY <1>t, <2>1 DEF DeleteMetadata, Unlist, listVars
  <2>2. CASE DeleteKeyCallback(p)
    BY <1>t, <2>2 DEF DeleteKeyCallback, listVars
  <2>3. CASE StartPurge(p) \/ EndPurge(p)
    BY <1>t, <2>3 DEF StartPurge, EndPurge, listVars
  <2>4. CASE PurgeOldest(p)
    BY <1>t, <2>4 DEF PurgeOldest, Unlist, listVars
  <2>5. CASE PurgeErase(p)
    BY <1>t, <2>5 DEF PurgeErase, listVars
  <2>6. CASE AllocateSpace(p) \/ NoSpace(p) \/ Refund(p)
    BY <1>t, <2>6 DEF AllocateSpace, NoSpace, Refund, listVars
  <2>7. CASE SetValueCallback(p)
    BY <1>t, <2>7 DEF SetValueCallback, listVars
  <2>8. CASE SetValueFails(p)
    BY <1>t, <2>8 DEF SetValueFails, listVars
  <2>9. CASE PushFront(p)
    <3> DEFINE e == [id |-> CHOOSE i \in FreshIds : TRUE,
                     key |-> call[p].key, size |-> call[p].size]
    <3>1. e \in Element /\ e.key = call[p].key /\ e.key \in Keys
      BY <2>9 DEF PushFront, FreshIds, TypeInv, CallsKnown, SettingLabels,
                  SetCall, Element
    <3>2. e # NoElement
      BY <3>1, LRUAssumption DEF LRUAssumption, Element
    <3> HIDE DEF e
    <3>3. keyToElement' = [keyToElement EXCEPT ![e.key] = e]
      BY <2>9 DEF PushFront, e
    <3>4. \A k \in Keys : keyToElement'[k] =
            IF k = call[p].key THEN e ELSE keyToElement[k]
      BY <1>t, <3>1, <3>3
    <3>5. QED
      BY <1>t, <2>9, <3>2, <3>4 DEF PushFront
  <2>10. CASE MoveToFront(p) \/ DeleteAllCallback(p)
    BY <1>t, <2>10 DEF MoveToFront, DeleteAllCallback, listVars
  <2>11. QED
    BY <1>2, <2>1, <2>2, <2>3, <2>4, <2>5, <2>6, <2>7, <2>8, <2>9, <2>10
       DEF Continue
<1>3. CASE UNCHANGED vars
  BY <1>3 DEF vars
<1>4. QED
  BY <1>1, <1>2, <1>3 DEF Next

(* Every value of the backing store has metadata, or a call under way that *)
(* will give it some or erase it (NoLeakedValue).                          *)
THEOREM NoValueLeaks == Spec => []NoLeakedValue
<1>1. Init => NoLeakedValue
  BY DEF Init, NoLeakedValue
<1>2. QED
  BY TypeInit, TypeStep, <1>1, LeakStep, PTL DEF Spec

-----------------------------------------------------------------------------
(* The bytes.                                                              *)
Reserving == {"write", "push", "refund"}
Share(p) == IF pc[p] \in Reserving THEN call[p].size ELSE 0

LEMMA CallSizes ==
  ASSUME TypeOK, NEW p \in Processes
  PROVE  call[p].size \in Nat /\ Share(p) \in Nat
<1>1. \A n \in Sizes : n \in Nat
  BY LRUAssumption DEF LRUAssumption
<1>2. call[p].size \in Nat
  BY <1>1 DEF TypeOK, NoCall, SetCall, DeleteCall
<1> QED BY <1>2 DEF Share

LEMMA ElementSizes == \A e \in Element : e.size \in Nat /\ e.size \in Int /\ e.size > 0
<1>1. \A n \in Sizes : n \in Nat /\ n > 0
  BY LRUAssumption DEF LRUAssumption
<1> QED BY <1>1 DEF Element

(* What a set of sizes and its sum become when those of p alone change.    *)
LEMMA OneShareChanges ==
  ASSUME NEW S \in SUBSET Processes, NEW T \in SUBSET Processes, NEW p \in Processes,
         NEW f, NEW g, \A q \in Processes : f[q] \in Int /\ g[q] \in Int,
         \A q \in Processes : q # p => f[q] = g[q] /\ (q \in S <=> q \in T)
  PROVE  SumFunctionOnSet(f, S) - (IF p \in S THEN f[p] ELSE 0)
           = SumFunctionOnSet(g, T) - (IF p \in T THEN g[p] ELSE 0)
<1>1. IsFiniteSet(S) /\ IsFiniteSet(T)
  BY LRUAssumption, FS_Subset DEF LRUAssumption
<1>2. PICK rest : rest = S \ {p}
  OBVIOUS
<1>3. rest = T \ {p} /\ IsFiniteSet(rest) /\ \A q \in rest : f[q] = g[q] /\ f[q] \in Int
  BY <1>1, <1>2, FS_Subset
<1>4. SumFunctionOnSet(f, rest) = SumFunctionOnSet(g, rest) /\ SumFunctionOnSet(f, rest) \in Int
  BY <1>3, SumSame, SumRemove
<1>5. SumFunctionOnSet(f, S) = (IF p \in S THEN f[p] ELSE 0) + SumFunctionOnSet(f, rest)
  <2>1. CASE p \in S
    <3>1. \A q \in S : f[q] \in Int
      OBVIOUS
    <3>2. \A q \in S : SumFunctionOnSet(f, S) = f[q] + SumFunctionOnSet(f, S \ {q})
      BY <1>1, <3>1, SumRemove
    <3> QED BY <1>2, <2>1, <3>2
  <2>2. CASE p \notin S
    <3>1. S = rest
      BY <1>2, <2>2
    <3> QED BY <1>4, <2>2, <3>1
  <2> QED BY <2>1, <2>2
<1>6. SumFunctionOnSet(g, T) = (IF p \in T THEN g[p] ELSE 0) + SumFunctionOnSet(g, rest)
  <2>1. CASE p \in T
    <3>1. \A q \in T : g[q] \in Int
      OBVIOUS
    <3>2. \A q \in T : SumFunctionOnSet(g, T) = g[q] + SumFunctionOnSet(g, T \ {q})
      BY <1>1, <3>1, SumRemove
    <3> QED BY <1>3, <2>1, <3>2
  <2>2. CASE p \notin T
    <3>1. T = rest
      BY <1>3, <2>2
    <3> QED BY <1>4, <2>2, <3>1
  <2> QED BY <2>1, <2>2
<1>7. PICK a, b, c : /\ a = (IF p \in S THEN f[p] ELSE 0) /\ b = (IF p \in T THEN g[p] ELSE 0)
                     /\ c = SumFunctionOnSet(f, rest)
  OBVIOUS
<1>8. a \in Int /\ b \in Int /\ c \in Int
  BY <1>4, <1>7
<1>9. /\ SumFunctionOnSet(f, S) = a + c /\ SumFunctionOnSet(g, T) = b + c
  BY <1>4, <1>5, <1>6, <1>7
<1> QED BY <1>7, <1>8, <1>9

LEMMA ReservedStep ==
  ASSUME TypeOK, TypeOK', NEW p \in Processes,
         \A q \in Processes : q # p => pc'[q] = pc[q] /\ call'[q] = call[q]
  PROVE  Reserved \in Int /\ Reserved' \in Int /\ Reserved' - Share(p)' = Reserved - Share(p)
<1> DEFINE f == [q \in Processes |-> call[q].size]
           g == [q \in Processes |-> call'[q].size]
           S == {q \in Processes : pc[q] \in {"write", "push", "refund"}}
           T == {q \in Processes : pc'[q] \in {"write", "push", "refund"}}
<1>1. Reserved = SumFunctionOnSet(f, S) /\ Reserved' = SumFunctionOnSet(g, T)
  BY DEF Reserved
<1>2. \A q \in Processes : f[q] \in Int /\ g[q] \in Int
  <2>1. \A q \in Processes : call[q].size \in Nat
    BY CallSizes
  <2>2. \A q \in Processes : call'[q].size \in Nat
    <3>1. \A n \in Sizes : n \in Nat
      BY LRUAssumption DEF LRUAssumption
    <3> QED BY <3>1 DEF TypeOK, NoCall, SetCall, DeleteCall
  <2> QED BY <2>1, <2>2
<1>3. \A q \in Processes : q # p => f[q] = g[q] /\ (q \in S <=> q \in T)
  OBVIOUS
<1>4. /\ Share(p) = IF p \in S THEN f[p] ELSE 0
      /\ Share(p)' = IF p \in T THEN g[p] ELSE 0
  BY DEF Share, Reserving
<1>5. /\ S \in SUBSET Processes /\ T \in SUBSET Processes
      /\ IsFiniteSet(S) /\ IsFiniteSet(T)
  <2>1. S \in SUBSET Processes /\ T \in SUBSET Processes
    OBVIOUS
  <2> HIDE DEF S, T
  <2> QED BY <2>1, LRUAssumption, FS_Subset DEF LRUAssumption
<1> HIDE DEF f, g, S, T
<1>6. SumFunctionOnSet(f, S) - (IF p \in S THEN f[p] ELSE 0)
        = SumFunctionOnSet(g, T) - (IF p \in T THEN g[p] ELSE 0)
  BY <1>2, <1>3, <1>5, OneShareChanges
<1>7. SumFunctionOnSet(f, S) \in Int /\ SumFunctionOnSet(g, T) \in Int
  <2>1. (\A q \in S : f[q] \in Int) /\ (\A q \in T : g[q] \in Int)
    BY <1>2, <1>5
  <2> QED BY <1>5, <2>1, SumRemove
<1> QED BY <1>1, <1>4, <1>6, <1>7

LEMMA ListedBytes ==
  ASSUME TypeOK
  PROVE  Bytes(orderedCacheKeys) \in Nat
BY BytesAre, ElementSizes DEF TypeOK

LEMMA WithoutBytes ==
  ASSUME TypeOK, NEW e \in Element, InList(e)
  PROVE  Bytes(ListWithout(e)) = Bytes(orderedCacheKeys) - e.size
<1>1. Position(e) \in DOMAIN orderedCacheKeys /\ orderedCacheKeys[Position(e)] = e
  BY PositionOf
<1>2. ListWithout(e) = RemoveAt(orderedCacheKeys, Position(e))
  BY DEF ListWithout
<1> QED BY <1>1, <1>2, BytesRemoved, ElementSizes DEF TypeOK

LEMMA UnlistBytes ==
  ASSUME TypeOK, MappedIsListed, NEW k \in Keys, Unlist(k)
  PROVE  /\ currentSize' - Bytes(orderedCacheKeys') = currentSize - Bytes(orderedCacheKeys)
         /\ currentSize' <= currentSize /\ Bytes(orderedCacheKeys') \in Int
<1>0. currentSize \in Int /\ Bytes(orderedCacheKeys) \in Int
  BY ListedBytes DEF TypeOK
<1>1. CASE keyToElement[k] = NoElement
  BY <1>0, <1>1 DEF Unlist, listVars
<1>2. CASE keyToElement[k] # NoElement
  <2>1. keyToElement[k] \in Element /\ InList(keyToElement[k])
    BY <1>2 DEF TypeOK, MappedIsListed
  <2>2. /\ orderedCacheKeys' = ListWithout(keyToElement[k])
        /\ currentSize' = currentSize - keyToElement[k].size
    BY <1>2 DEF Unlist
  <2>3. keyToElement[k].size \in Nat
    BY <2>1, ElementSizes
  <2> QED BY <1>0, <2>1, <2>2, <2>3, WithoutBytes
<1> QED BY <1>1, <1>2

LEMMA MovedBytes ==
  ASSUME TypeOK, NEW e \in Element, InList(e)
  PROVE  Bytes(<<e>> \o ListWithout(e)) = Bytes(orderedCacheKeys)
<1>1. ListWithout(e) \in Seq(Element)
  BY ListWithoutType DEF TypeOK
<1>2. Bytes(<<e>> \o ListWithout(e)) = Bytes(ListWithout(e)) + e.size
  BY <1>1, BytesPushed, ElementSizes
<1>3. Bytes(orderedCacheKeys) \in Int /\ e.size \in Int
  BY ListedBytes, ElementSizes
<1> QED BY <1>2, <1>3, WithoutBytes

LEMMA NothingReserved ==
  ASSUME \A p \in Processes : pc[p] \notin Reserving
  PROVE  Reserved = 0
<1>1. {p \in Processes : pc[p] \in {"write", "push", "refund"}} = {}
  BY DEF Reserving
<1> QED BY <1>1, SumEmpty DEF Reserved

(* What the calls of the others are, a step does not change.               *)
LEMMA OthersCalls ==
  ASSUME TypeOK, NEW p \in Processes,
         Set(p) \/ Delete(p) \/ Get(p) \/ DeleteAll(p) \/ Continue(p),
         NEW q \in Processes, q # p
  PROVE  pc'[q] = pc[q] /\ call'[q] = call[q] /\ found'[q] = found[q]
<1> USE DEF TypeOK, Goto, Return
<1>1. CASE Set(p) \/ Delete(p) \/ Get(p) \/ DeleteAll(p)
  BY <1>1 DEF Set, Delete, Get, DeleteAll
<1>2. CASE DeleteMetadata(p) \/ DeleteKeyCallback(p) \/ StartPurge(p) \/ PurgeOldest(p)
           \/ PurgeErase(p) \/ EndPurge(p)
  BY <1>2 DEF DeleteMetadata, DeleteKeyCallback, StartPurge, PurgeOldest, PurgeErase, EndPurge
<1>3. CASE AllocateSpace(p) \/ NoSpace(p) \/ SetValueCallback(p) \/ SetValueFails(p)
           \/ PushFront(p) \/ Refund(p) \/ MoveToFront(p) \/ DeleteAllCallback(p)
  BY <1>3 DEF AllocateSpace, NoSpace, SetValueCallback, SetValueFails, PushFront, Refund,
     MoveToFront, DeleteAllCallback
<1> QED BY <1>1, <1>2, <1>3 DEF Continue

(* The bytes after a step of p that is not DeleteAll.                      *)
LEMMA AccountStep ==
  ASSUME TypeInv, MappedIsListed, MaxSize # -1, NEW p \in Processes,
         Set(p) \/ Delete(p) \/ Get(p) \/ Continue(p), currentSize <= MaxSize
  PROVE  /\ currentSize' - Bytes(orderedCacheKeys') - Share(p)'
              = currentSize - Bytes(orderedCacheKeys) - Share(p)
         /\ currentSize' <= MaxSize /\ Bytes(orderedCacheKeys') \in Int
<1> USE DEF TypeInv
<1>0. /\ currentSize \in Int /\ Bytes(orderedCacheKeys) \in Int /\ MaxSize \in Nat
      /\ call[p].size \in Nat /\ Share(p) \in Int /\ pc \in [Processes -> Labels]
      /\ call \in [Processes -> {NoCall} \cup SetCall \cup DeleteCall]
  BY ListedBytes, CallSizes, LRUAssumption DEF TypeOK, LRUAssumption
<1>s. /\ Share(p) = IF pc[p] \in Reserving THEN call[p].size ELSE 0
      /\ Share(p)' = IF pc'[p] \in Reserving THEN call'[p].size ELSE 0
  BY DEF Share
<1> USE DEF Reserving, Goto, Return
<1>1. CASE Set(p) \/ Delete(p) \/ Get(p)
  <2>1. UNCHANGED <<currentSize, orderedCacheKeys>>
    BY <1>1 DEF Set, Delete, Get, listVars
  <2>2. pc[p] \notin Reserving /\ pc'[p] \notin Reserving
    BY <1>0, <1>1 DEF Set, Delete, Get
  <2> QED BY <1>0, <1>s, <2>1, <2>2
<1>2. CASE DeleteMetadata(p) \/ PurgeOldest(p)
  <2>1. PICK k \in Keys : Unlist(k)
    <3>1. call[p].key \in Keys \/ pc[p] # "delete"
      BY DEF CallsKnown, SetCall, DeleteCall
    <3>2. orderedCacheKeys # << >> => Last(orderedCacheKeys).key \in Keys
      BY LastType, ElementFields DEF TypeOK
    <3> QED BY <1>2, <3>1, <3>2 DEF DeleteMetadata, PurgeOldest
  <2>2. pc[p] \notin Reserving /\ pc'[p] \notin Reserving
    BY <1>0, <1>2 DEF DeleteMetadata, PurgeOldest
  <2>3. currentSize' \in Int
    BY <2>1, UnlistType
  <2> QED BY <1>0, <1>s, <2>1, <2>2, <2>3, UnlistBytes
<1>3. CASE DeleteKeyCallback(p) \/ StartPurge(p) \/ PurgeErase(p) \/ EndPurge(p)
           \/ NoSpace(p) \/ DeleteAllCallback(p)
  <2>1. UNCHANGED <<currentSize, orderedCacheKeys>>
    BY <1>3 DEF DeleteKeyCallback, StartPurge, PurgeErase, EndPurge, NoSpace,
       DeleteAllCallback, listVars
  <2>2. pc[p] \notin Reserving /\ pc'[p] \notin Reserving
    BY <1>0, <1>3 DEF DeleteKeyCallback, StartPurge, PurgeErase, EndPurge, NoSpace,
       DeleteAllCallback
  <2> QED BY <1>0, <1>s, <2>1, <2>2
<1>4. CASE AllocateSpace(p)
  <2>1. /\ currentSize' = currentSize + call[p].size /\ UNCHANGED <<orderedCacheKeys, call>>
        /\ pc[p] = "allocate" /\ pc'[p] = "write" /\ ~Full(p)
    BY <1>0, <1>4 DEF AllocateSpace
  <2> QED BY <1>0, <1>s, <2>1 DEF Full
<1>5. CASE SetValueCallback(p) \/ SetValueFails(p)
  <2>1. /\ UNCHANGED <<currentSize, orderedCacheKeys, call>>
        /\ pc[p] = "write" /\ pc'[p] \in {"push", "refund"}
    BY <1>0, <1>5 DEF SetValueCallback, SetValueFails, listVars
  <2> QED BY <1>0, <1>s, <2>1
<1>6. CASE PushFront(p)
  <2> DEFINE e == [id |-> CHOOSE i \in FreshIds : TRUE,
                   key |-> call[p].key, size |-> call[p].size]
  <2>1. e \in Element /\ e.size = call[p].size
    BY <1>6 DEF PushFront, FreshIds, CallsKnown, SettingLabels, SetCall, Element
  <2>2. orderedCacheKeys' = <<e>> \o orderedCacheKeys /\ UNCHANGED currentSize
    BY <1>6 DEF PushFront
  <2>3. pc[p] = "push" /\ pc'[p] = "idle"
    BY <1>0, <1>6 DEF PushFront
  <2> HIDE DEF e
  <2>4. Bytes(orderedCacheKeys') = Bytes(orderedCacheKeys) + call[p].size
    BY <2>1, <2>2, BytesPushed, ElementSizes DEF TypeOK
  <2> QED BY <1>0, <1>s, <2>2, <2>3, <2>4
<1>7. CASE Refund(p)
  <2>1. /\ currentSize' = currentSize - call[p].size /\ UNCHANGED orderedCacheKeys
        /\ pc[p] = "refund" /\ pc'[p] = "idle"
    BY <1>0, <1>7 DEF Refund
  <2> QED BY <1>0, <1>s, <2>1
<1>8. CASE MoveToFront(p)
  <2>1. found[p] \in Element
    BY <1>8 DEF MoveToFront, CallsKnown
  <2>2. /\ UNCHANGED currentSize /\ pc[p] = "touch" /\ pc'[p] = "idle"
        /\ orderedCacheKeys' = IF InList(found[p]) THEN <<found[p]>> \o ListWithout(found[p])
                                                   ELSE orderedCacheKeys
    BY <1>0, <1>8 DEF MoveToFront
  <2>3. Bytes(orderedCacheKeys') = Bytes(orderedCacheKeys)
    BY <2>1, <2>2, MovedBytes
  <2> QED BY <1>0, <1>s, <2>2, <2>3
<1> QED BY <1>1, <1>2, <1>3, <1>4, <1>5, <1>6, <1>7, <1>8 DEF Continue

LEMMA BytesStep ==
  ASSUME QuietClear, MaxSize # -1, TypeInv, TypeInv', MappedIsListed, BytesAccounted, [Next]_vars
  PROVE  BytesAccounted'
<1> USE DEF TypeInv
<1>0. /\ currentSize \in Int /\ currentSize' \in Int /\ Bytes(orderedCacheKeys) \in Int
      /\ MaxSize \in Nat
  BY ListedBytes, LRUAssumption DEF TypeOK, LRUAssumption
<1>1. ASSUME NEW p \in Processes, DeleteAll(p), \A q \in Processes : pc[q] = "idle"
      PROVE  BytesAccounted'
  <2>1. currentSize' = 0 /\ orderedCacheKeys' = << >>
    BY <1>1 DEF DeleteAll
  <2>2. Bytes(orderedCacheKeys') = 0
    <3>1. DOMAIN [i \in DOMAIN << >> |-> << >>[i].size] = {}
      OBVIOUS
    <3> QED BY <2>1, <3>1, SumEmpty DEF Bytes, SumFunction
  <2>3. \A q \in Processes : pc'[q] \notin Reserving
    BY <1>1 DEF DeleteAll, Goto, Reserving, TypeOK
  <2>4. Reserved' = 0
    <3>1. {q \in Processes : pc'[q] \in {"write", "push", "refund"}} = {}
      BY <2>3 DEF Reserving
    <3> QED BY <3>1, SumEmpty DEF Reserved
  <2> QED BY <1>0, <2>1, <2>2, <2>4 DEF BytesAccounted
<1>2. ASSUME NEW p \in Processes, Set(p) \/ Delete(p) \/ Get(p) \/ Continue(p)
      PROVE  BytesAccounted'
  <2>1. /\ currentSize' - Bytes(orderedCacheKeys') - Share(p)'
             = currentSize - Bytes(orderedCacheKeys) - Share(p)
        /\ currentSize' <= MaxSize /\ Bytes(orderedCacheKeys') \in Int
    BY <1>2, AccountStep DEF BytesAccounted
  <2>2. Reserved \in Int /\ Reserved' \in Int /\ Reserved' - Share(p)' = Reserved - Share(p)
    BY <1>2, OthersCalls, ReservedStep
  <2>3. Share(p) \in Int /\ Share(p)' \in Int
    <3>1. Share(p)' \in Int
      <4>1. \A n \in Sizes : n \in Nat
        BY LRUAssumption DEF LRUAssumption
      <4>2. call'[p].size \in Nat
        BY <4>1 DEF TypeOK, NoCall, SetCall, DeleteCall
      <4> QED BY <4>2 DEF Share
    <3> QED BY <3>1, CallSizes
  <2>4. currentSize = Bytes(orderedCacheKeys) + Reserved
    BY DEF BytesAccounted
  <2>5. currentSize' = Bytes(orderedCacheKeys') + Reserved'
    BY <1>0, <2>1, <2>2, <2>3, <2>4
  <2> QED BY <2>1, <2>5 DEF BytesAccounted
<1>3. CASE UNCHANGED vars
  BY <1>3 DEF vars, BytesAccounted, Reserved
<1> QED BY <1>1, <1>2, <1>3 DEF Next, Begin

(* currentSize is the bytes of the list and those that calls under way     *)
(* have reserved, and never more than the bound, however Sets, Deletes and *)
(* purges overlap and whatever writes fail, where DeleteAll comes only to  *)
(* a cache at rest and there is a bound.                                   *)
THEOREM EveryByteCounted ==
  ASSUME QuietClear, MaxSize # -1
  PROVE  Spec => []BytesAccounted
<1>1. Init => BytesAccounted
  <2> SUFFICES ASSUME Init PROVE BytesAccounted
    OBVIOUS
  <2>1. Bytes(orderedCacheKeys) = 0
    <3>1. DOMAIN [i \in DOMAIN << >> |-> << >>[i].size] = {}
      OBVIOUS
    <3> QED BY <3>1, SumEmpty DEF Init, Bytes, SumFunction
  <2>2. Reserved = 0
    BY NothingReserved DEF Init, Reserving
  <2> QED BY <2>1, <2>2, LRUAssumption DEF Init, BytesAccounted, LRUAssumption
<1> QED BY <1>1, TypeInit, TypeStep, BytesStep, MapAgreesWithList, PTL DEF Spec

-----------------------------------------------------------------------------
(* Goroutines that never set or delete one another's keys, a cache cleared *)
(* at rest, and a bound.  The code guarantees none of the first two: every *)
(* hit of the request cache stores its key again without holding a lock,   *)
(* and two URLs may share a key, so that two Sets of one can overlap and   *)
(* push two elements for it.                                               *)
DisjointKeys == \A p, q \in Processes : p # q => KeysOf[p] \cap KeysOf[q] = {}
Undisturbed == DisjointKeys /\ QuietClear /\ MaxSize # -1

(* The map has each element of the list under its key.                     *)
ListIsMapped ==
  /\ \A i \in DOMAIN orderedCacheKeys :
       keyToElement[orderedCacheKeys[i].key] = orderedCacheKeys[i]
  /\ NoKeyTwice(orderedCacheKeys)

LEMMA UnlistDrops ==
  ASSUME TypeOK, MappedIsListed, ListIsMapped, NEW k \in Keys, Unlist(k)
  PROVE  /\ ListIsMapped'
         /\ keyToElement'[k] = NoElement
         /\ \A j \in Keys : j # k => keyToElement'[j] = keyToElement[j]
         /\ \/ orderedCacheKeys' = orderedCacheKeys
            \/ \E i \in DOMAIN orderedCacheKeys : orderedCacheKeys' = RemoveAt(orderedCacheKeys, i)
<1>t. orderedCacheKeys \in Seq(Element) /\ keyToElement \in [Keys -> Element \cup {NoElement}]
  BY DEF TypeOK
<1>1. CASE keyToElement[k] = NoElement
  BY <1>1 DEF Unlist, listVars, ListIsMapped
<1>2. CASE keyToElement[k] # NoElement
  <2>1. PICK i : i = Position(keyToElement[k])
    OBVIOUS
  <2>2. i \in DOMAIN orderedCacheKeys /\ orderedCacheKeys[i].key = k
    BY <1>2, <2>1, PositionOf DEF MappedIsListed
  <2>3. /\ orderedCacheKeys' = RemoveAt(orderedCacheKeys, i)
        /\ keyToElement' = [keyToElement EXCEPT ![k] = NoElement]
    BY <1>2, <2>1 DEF Unlist, ListWithout, MappedIsListed
  <2>4. /\ NoKeyTwice(orderedCacheKeys')
        /\ \A j \in DOMAIN orderedCacheKeys' :
             \E m \in DOMAIN orderedCacheKeys : m # i /\ orderedCacheKeys'[j] = orderedCacheKeys[m]
    BY <1>t, <2>2, <2>3, RemovedKeys DEF ListIsMapped
  <2>5. ASSUME NEW j \in DOMAIN orderedCacheKeys'
        PROVE  keyToElement'[orderedCacheKeys'[j].key] = orderedCacheKeys'[j]
    <3>1. PICK m \in DOMAIN orderedCacheKeys : m # i /\ orderedCacheKeys'[j] = orderedCacheKeys[m]
      BY <2>4
    <3>2. orderedCacheKeys[m].key # k
      BY <2>2, <3>1 DEF ListIsMapped, NoKeyTwice
    <3>3. keyToElement'[orderedCacheKeys[m].key] = keyToElement[orderedCacheKeys[m].key]
      <4>1. orderedCacheKeys[m] \in Element
        BY <1>t
      <4> QED BY <1>t, <2>3, <3>2, <4>1, ElementFields
    <3> QED BY <3>1, <3>3 DEF ListIsMapped
  <2> QED BY <1>t, <2>2, <2>3, <2>4, <2>5 DEF ListIsMapped
<1> QED BY <1>1, <1>2

LEMMA UnlistedNotInList ==
  ASSUME TypeOK, ListIsMapped, NEW k \in Keys, keyToElement[k] = NoElement
  PROVE  \A i \in DOMAIN orderedCacheKeys : orderedCacheKeys[i].key # k
<1>1. SUFFICES ASSUME NEW i \in DOMAIN orderedCacheKeys, orderedCacheKeys[i].key = k PROVE FALSE
  OBVIOUS
<1>2. orderedCacheKeys[i] = NoElement /\ orderedCacheKeys[i] \in Element
  BY <1>1 DEF ListIsMapped, TypeOK
<1> QED BY <1>2, LRUAssumption DEF LRUAssumption, Element

LEMMA PushLists ==
  ASSUME TypeOK, ListIsMapped, NEW e \in Element, keyToElement[e.key] = NoElement,
         orderedCacheKeys' = <<e>> \o orderedCacheKeys,
         keyToElement' = [keyToElement EXCEPT ![e.key] = e]
  PROVE  ListIsMapped'
<1>t. /\ orderedCacheKeys \in Seq(Element) /\ keyToElement \in [Keys -> Element \cup {NoElement}]
      /\ e.key \in Keys
  BY ElementFields DEF TypeOK
<1>1. \A i \in DOMAIN orderedCacheKeys : orderedCacheKeys[i].key # e.key
  BY <1>t, UnlistedNotInList
<1>2. /\ NoKeyTwice(orderedCacheKeys')
      /\ \A j \in DOMAIN orderedCacheKeys' :
           orderedCacheKeys'[j] = e \/ \E m \in DOMAIN orderedCacheKeys : orderedCacheKeys'[j] = orderedCacheKeys[m]
  BY <1>t, <1>1, PushedKeys DEF ListIsMapped
<1>3. \A m \in DOMAIN orderedCacheKeys : keyToElement'[orderedCacheKeys[m].key] = orderedCacheKeys[m]
  <2>1. \A m \in DOMAIN orderedCacheKeys : orderedCacheKeys[m].key \in Keys
    BY <1>t, ElementFields
  <2> QED BY <1>t, <1>1, <2>1 DEF ListIsMapped
<1>4. keyToElement'[e.key] = e
  BY <1>t
<1> QED BY <1>2, <1>3, <1>4 DEF ListIsMapped

LEMMA MoveKeepsMapped ==
  ASSUME TypeOK, ListIsMapped, NEW e \in Element, InList(e),
         orderedCacheKeys' = <<e>> \o ListWithout(e), keyToElement' = keyToElement
  PROVE  /\ ListIsMapped'
         /\ \E i \in DOMAIN orderedCacheKeys :
              orderedCacheKeys' = <<orderedCacheKeys[i]>> \o RemoveAt(orderedCacheKeys, i)
<1>1. PICK i : i = Position(e)
  OBVIOUS
<1>2. /\ i \in DOMAIN orderedCacheKeys /\ orderedCacheKeys[i] = e
      /\ ListWithout(e) = RemoveAt(orderedCacheKeys, i)
      /\ orderedCacheKeys \in Seq(Element)
  BY <1>1, PositionOf DEF ListWithout, TypeOK
<1>3. PICK rest : rest = RemoveAt(orderedCacheKeys, i)
  OBVIOUS
<1>4. /\ rest \in Seq(Element) /\ NoKeyTwice(rest)
      /\ \A j \in DOMAIN rest : \E m \in DOMAIN orderedCacheKeys : m # i /\ rest[j] = orderedCacheKeys[m]
  BY <1>2, <1>3, RemovedKeys, RemoveAtType DEF ListIsMapped
<1>5. \A j \in DOMAIN rest : rest[j].key # e.key
  BY <1>2, <1>4 DEF ListIsMapped, NoKeyTwice
<1>6. /\ NoKeyTwice(orderedCacheKeys')
      /\ \A j \in DOMAIN orderedCacheKeys' :
           orderedCacheKeys'[j] = e \/ \E m \in DOMAIN rest : orderedCacheKeys'[j] = rest[m]
  BY <1>2, <1>3, <1>4, <1>5, PushedKeys
<1>7. ASSUME NEW j \in DOMAIN orderedCacheKeys'
      PROVE  keyToElement[orderedCacheKeys'[j].key] = orderedCacheKeys'[j]
  <2>1. \E m \in DOMAIN orderedCacheKeys : orderedCacheKeys'[j] = orderedCacheKeys[m]
    BY <1>2, <1>4, <1>6
  <2> QED BY <2>1 DEF ListIsMapped
<1> QED BY <1>2, <1>6, <1>7 DEF ListIsMapped

LEMMA ListedStep ==
  ASSUME TypeInv, MappedIsListed, ListIsMapped, NEW p \in Processes,
         Set(p) \/ Delete(p) \/ Get(p) \/ DeleteAll(p) \/ Continue(p),
         PushFront(p) => keyToElement[call[p].key] = NoElement
  PROVE  ListIsMapped'
<1> USE DEF TypeInv
<1>1. CASE Set(p) \/ Delete(p) \/ Get(p) \/ DeleteKeyCallback(p) \/ StartPurge(p)
           \/ PurgeErase(p) \/ EndPurge(p) \/ AllocateSpace(p) \/ NoSpace(p)
           \/ SetValueCallback(p) \/ SetValueFails(p) \/ Refund(p) \/ DeleteAllCallback(p)
  <2>1. UNCHANGED <<orderedCacheKeys, keyToElement>>
    BY <1>1 DEF Set, Delete, Get, DeleteKeyCallback, StartPurge, PurgeErase, EndPurge,
       AllocateSpace, NoSpace, SetValueCallback, SetValueFails, Refund, DeleteAllCallback, listVars
  <2> QED BY <2>1 DEF ListIsMapped
<1>2. CASE DeleteAll(p)
  BY <1>2 DEF DeleteAll, ListIsMapped, NoKeyTwice
<1>3. CASE DeleteMetadata(p) \/ PurgeOldest(p)
  <2>1. PICK k \in Keys : Unlist(k)
    <3>1. call[p].key \in Keys \/ pc[p] # "delete"
      BY DEF CallsKnown, SetCall, DeleteCall
    <3>2. orderedCacheKeys # << >> => Last(orderedCacheKeys).key \in Keys
      BY LastType, ElementFields DEF TypeOK
    <3> QED BY <1>3, <3>1, <3>2 DEF DeleteMetadata, PurgeOldest
  <2> QED BY <2>1, UnlistDrops
<1>4. CASE PushFront(p)
  <2> DEFINE e == [id |-> CHOOSE i \in FreshIds : TRUE,
                   key |-> call[p].key, size |-> call[p].size]
  <2>1. e \in Element /\ e.key = call[p].key
    BY <1>4 DEF PushFront, FreshIds, CallsKnown, SettingLabels, SetCall, Element
  <2>2. /\ orderedCacheKeys' = <<e>> \o orderedCacheKeys
        /\ keyToElement' = [keyToElement EXCEPT ![e.key] = e]
    BY <1>4 DEF PushFront
  <2> HIDE DEF e
  <2> QED BY <1>4, <2>1, <2>2, PushLists
<1>5. CASE MoveToFront(p)
  <2>1. found[p] \in Element /\ keyToElement' = keyToElement
    BY <1>5 DEF MoveToFront, CallsKnown
  <2>2. CASE InList(found[p])
    BY <1>5, <2>1, <2>2, MoveKeepsMapped DEF MoveToFront
  <2>3. CASE ~InList(found[p])
    BY <1>5, <2>1, <2>3 DEF MoveToFront, ListIsMapped
  <2> QED BY <2>2, <2>3
<1> QED BY <1>1, <1>2, <1>3, <1>4, <1>5 DEF Continue

(* A call that changes a key has it for itself: from the moment it has     *)
(* taken the key off the list to its last step, nobody lists the key or    *)
(* writes its value.                                                       *)
Changing == {"erase", "evict", "purge", "purgeErase", "allocate", "write", "push", "refund"}
OwnKey == \A p \in Processes : pc[p] \in Changing \cup {"delete"} => call[p].key \in KeysOf[p]
Unlisted == \A p \in Processes : pc[p] \in Changing => keyToElement[call[p].key] = NoElement

(* The purge that has the lock has unlisted a key nobody is about to list. *)
PurgeLocks == \A p \in Processes :
  /\ pc[p] \in {"purge", "purgeErase"} => linkedListLock = p
  /\ pc[p] = "purgeErase" =>
       /\ keyToElement[found[p].key] = NoElement
       /\ \A q \in Processes : pc[q] \in {"write", "push"} => call[q].key # found[p].key

ClearAlone == \A p \in Processes : pc[p] = "eraseAll" =>
  /\ \A q \in Processes : q # p => pc[q] = "idle"
  /\ \A k \in Keys : keyToElement[k] = NoElement

Stored ==
  /\ \A p \in Processes : pc[p] = "push" => values[call[p].key] = call[p].size
  /\ \A k \in Keys : keyToElement[k] # NoElement => values[k] = keyToElement[k].size

DisjointInv == OwnKey /\ Unlisted /\ PurgeLocks /\ ClearAlone /\ Stored

(* What each step needs of the types and of the keys.                      *)
LEMMA CallKeys ==
  ASSUME TypeInv, DisjointInv, DisjointKeys, NEW p \in Processes,
         pc[p] \in Changing \cup {"delete"}
  PROVE  /\ call[p].key \in Keys /\ call[p].key \in KeysOf[p]
         /\ \A q \in Processes : q # p /\ pc[q] \in Changing \cup {"delete"} =>
              call[q].key # call[p].key
<1>1. \A q \in Processes : pc[q] \in Changing \cup {"delete"} => call[q].key \in KeysOf[q]
  BY DEF DisjointInv, OwnKey
<1>2. KeysOf[p] \subseteq Keys
  BY LRUAssumption DEF LRUAssumption
<1> QED BY <1>1, <1>2 DEF DisjointKeys

LEMMA DisjointUnlist ==
  ASSUME Undisturbed, TypeInv, MappedIsListed, ListIsMapped, DisjointInv, NEW p \in Processes,
         DeleteMetadata(p) \/ PurgeOldest(p)
  PROVE  DisjointInv'
<1> USE DEF TypeInv, Undisturbed
<1>t. /\ keyToElement \in [Keys -> Element \cup {NoElement}] /\ pc \in [Processes -> Labels]
      /\ found \in [Processes -> Element \cup {NoElement}] /\ orderedCacheKeys \in Seq(Element)
      /\ \A q \in Processes : pc[q] \in Changing \cup {"delete"} => call[q].key \in Keys
  BY CallKeys DEF TypeOK
<1> USE DEF Goto
<1>1. CASE DeleteMetadata(p)
  <2>1. PICK k \in Keys : k = call[p].key
    BY <1>t, <1>1 DEF DeleteMetadata
  <2>2. /\ pc[p] = "delete" /\ pc' = [pc EXCEPT ![p] = "erase"] /\ Unlist(k)
        /\ UNCHANGED <<linkedListLock, values, call, found>> /\ linkedListLock = None
    BY <1>1, <2>1 DEF DeleteMetadata
  <2>3. /\ keyToElement'[k] = NoElement
        /\ \A j \in Keys : j # k => keyToElement'[j] = keyToElement[j]
    BY <2>2, UnlistDrops
  <2>4. OwnKey'
    BY <1>t, <2>2 DEF DisjointInv, OwnKey, Changing
  <2>5. Unlisted'
    BY <1>t, <2>1, <2>2, <2>3 DEF DisjointInv, Unlisted, Changing
  <2>6. PurgeLocks'
    BY <1>t, <2>2, LRUAssumption DEF DisjointInv, PurgeLocks, LRUAssumption
  <2>7. ClearAlone'
    BY <1>t, <2>2, <2>3 DEF DisjointInv, ClearAlone
  <2>8. Stored'
    BY <1>t, <2>2, <2>3 DEF DisjointInv, Stored
  <2> QED BY <2>4, <2>5, <2>6, <2>7, <2>8 DEF DisjointInv
<1>2. CASE PurgeOldest(p)
  <2>1. PICK e \in Element : e = Last(orderedCacheKeys)
    BY <1>t, <1>2, LastType DEF PurgeOldest
  <2>2. PICK k \in Keys : k = e.key
    BY ElementFields
  <2>3. /\ pc[p] = "purge" /\ pc' = [pc EXCEPT ![p] = "purgeErase"] /\ Unlist(k)
        /\ found' = [found EXCEPT ![p] = e] /\ UNCHANGED <<linkedListLock, values, call>>
    BY <1>2, <2>1, <2>2 DEF PurgeOldest
  <2>4. /\ keyToElement'[k] = NoElement
        /\ \A j \in Keys : j # k => keyToElement'[j] = keyToElement[j]
    BY <2>3, UnlistDrops
  <2>5. keyToElement[k] # NoElement
    <3>1. Len(orderedCacheKeys) \in DOMAIN orderedCacheKeys /\ e = orderedCacheKeys[Len(orderedCacheKeys)]
      BY <1>t, <1>2, <2>1 DEF PurgeOldest, Last
    <3>2. keyToElement[k] = e
      BY <2>2, <3>1 DEF ListIsMapped
    <3> QED BY <3>2, LRUAssumption DEF LRUAssumption, Element
  <2>6. \A q \in Processes : pc[q] \in Changing => call[q].key # k
    BY <2>5 DEF DisjointInv, Unlisted
  <2>7. OwnKey'
    BY <1>t, <2>3 DEF DisjointInv, OwnKey, Changing
  <2>8. Unlisted'
    BY <1>t, <2>3, <2>4, <2>6 DEF DisjointInv, Unlisted, Changing
  <2>9. PurgeLocks'
    <3>1. \A q \in Processes : q # p => pc[q] \notin {"purge", "purgeErase"}
      BY <2>3 DEF DisjointInv, PurgeLocks
    <3>2. linkedListLock' = p /\ found'[p] = e
      BY <1>t, <2>3 DEF DisjointInv, PurgeLocks
    <3>3. \A q \in Processes : pc'[q] \in {"write", "push"} => call'[q].key # k
      BY <1>t, <2>3, <2>6 DEF Changing
    <3>4. \A q \in Processes : pc'[q] \in {"purge", "purgeErase"} => q = p
      BY <1>t, <2>3, <3>1
    <3> QED BY <2>2, <2>4, <3>2, <3>3, <3>4 DEF PurgeLocks
  <2>10. ClearAlone'
    BY <1>t, <2>3, <2>4 DEF DisjointInv, ClearAlone
  <2>11. Stored'
    BY <1>t, <2>3, <2>4 DEF DisjointInv, Stored
  <2> QED BY <2>7, <2>8, <2>9, <2>10, <2>11 DEF DisjointInv
<1> QED BY <1>1, <1>2

LEMMA DisjointBegin ==
  ASSUME Undisturbed, TypeInv, DisjointInv, NEW p \in Processes, Begin(p)
  PROVE  DisjointInv'
<1> USE DEF TypeInv, Undisturbed, Goto
<1>t. /\ keyToElement \in [Keys -> Element \cup {NoElement}] /\ pc \in [Processes -> Labels]
      /\ call \in [Processes -> {NoCall} \cup SetCall \cup DeleteCall]
      /\ found \in [Processes -> Element \cup {NoElement}]
      /\ \A q \in Processes : pc[q] \in Changing \cup {"delete"} => call[q].key \in Keys
      /\ \A q \in Processes : KeysOf[q] \subseteq Keys
  BY CallKeys, LRUAssumption DEF TypeOK, LRUAssumption
<1>0. pc[p] = "idle" /\ \A q \in Processes : pc[q] # "eraseAll"
  BY DEF Begin, Set, Delete, Get, DeleteAll
<1>1. CASE Set(p) \/ Delete(p)
  <2>1. PICK k \in KeysOf[p] :
          /\ call' = [call EXCEPT ![p] = call'[p]] /\ call'[p].key = k
          /\ pc'[p] \in {"delete", "evict"} /\ pc' = [pc EXCEPT ![p] = pc'[p]]
          /\ pc'[p] = "evict" => values[k] = 0
          /\ UNCHANGED <<listVars, linkedListLock, values, found>>
    <3>1. CASE Set(p)
      <4>1. PICK k \in KeysOf[p], size \in Sizes :
              /\ call' = [call EXCEPT ![p] = [op |-> "set", key |-> k, size |-> size]]
              /\ pc' = [pc EXCEPT ![p] = IF values[k] # 0 THEN "delete" ELSE "evict"]
        BY <3>1 DEF Set
      <4>2. call'[p].key = k /\ pc'[p] = IF values[k] # 0 THEN "delete" ELSE "evict"
        BY <1>t, <4>1
      <4> QED BY <1>t, <3>1, <4>1, <4>2 DEF Set
    <3>2. CASE Delete(p)
      BY <1>t, <3>2 DEF Delete
    <3> QED BY <1>1, <3>1, <3>2
  <2>2. k \in Keys /\ (values[k] = 0 => keyToElement[k] = NoElement)
    <3>1. k \in Keys
      BY <1>t
    <3>2. keyToElement[k] # NoElement => values[k] # 0
      BY <1>t, <3>1, ElementSizes DEF DisjointInv, Stored
    <3> QED BY <3>1, <3>2
  <2>3. OwnKey'
    BY <1>t, <2>1 DEF DisjointInv, OwnKey, Changing
  <2>4. Unlisted'
    BY <1>t, <2>1, <2>2 DEF DisjointInv, Unlisted, Changing, listVars
  <2>5. PurgeLocks'
    BY <1>t, <2>1 DEF DisjointInv, PurgeLocks, listVars
  <2>6. ClearAlone'
    BY <1>t, <1>0, <2>1 DEF ClearAlone
  <2>7. Stored'
    BY <1>t, <2>1 DEF DisjointInv, Stored, listVars
  <2> QED BY <2>3, <2>4, <2>5, <2>6, <2>7 DEF DisjointInv
<1>2. CASE Get(p)
  <2>1. /\ pc' = [pc EXCEPT ![p] = "touch"] /\ found' = [found EXCEPT ![p] = found'[p]]
        /\ UNCHANGED <<listVars, linkedListLock, values, call>>
    BY <1>t, <1>2 DEF Get
  <2>2. OwnKey' /\ Unlisted' /\ PurgeLocks'
    BY <1>t, <2>1 DEF DisjointInv, OwnKey, Unlisted, PurgeLocks, Changing, listVars
  <2>3. ClearAlone' /\ Stored'
    BY <1>t, <1>0, <2>1 DEF DisjointInv, ClearAlone, Stored, listVars
  <2> QED BY <2>2, <2>3 DEF DisjointInv
<1>3. CASE DeleteAll(p) /\ \A q \in Processes : pc[q] = "idle"
  <2>1. /\ pc' = [pc EXCEPT ![p] = "eraseAll"] /\ keyToElement' = [k \in Keys |-> NoElement]
        /\ UNCHANGED <<linkedListLock, values, call, found>>
    BY <1>3 DEF DeleteAll
  <2>2. \A q \in Processes : pc'[q] = IF q = p THEN "eraseAll" ELSE "idle"
    BY <1>t, <1>3, <2>1
  <2> QED BY <2>1, <2>2 DEF DisjointInv, OwnKey, Unlisted, PurgeLocks, ClearAlone, Stored, Changing
<1> QED BY <1>1, <1>2, <1>3 DEF Begin

(* The steps that leave the list and the values as they are.               *)
LEMMA DisjointQuiet ==
  ASSUME Undisturbed, TypeInv, DisjointInv, NEW p \in Processes,
         \/ StartPurge(p) \/ EndPurge(p) \/ AllocateSpace(p) \/ NoSpace(p) \/ Refund(p)
         \/ MoveToFront(p)
  PROVE  DisjointInv'
<1> USE DEF TypeInv, Undisturbed, Goto, Return
<1>t. /\ keyToElement \in [Keys -> Element \cup {NoElement}] /\ pc \in [Processes -> Labels]
      /\ call \in [Processes -> {NoCall} \cup SetCall \cup DeleteCall]
      /\ found \in [Processes -> Element \cup {NoElement}] /\ MaxSize > -1
      /\ None \notin Processes
  BY LRUAssumption DEF TypeOK, LRUAssumption
<1>1. CASE StartPurge(p)
  <2>1. /\ pc[p] = "evict" /\ linkedListLock = None /\ linkedListLock' = p
        /\ pc' = [pc EXCEPT ![p] = "purge"] /\ UNCHANGED <<keyToElement, values, call, found>>
    BY <1>t, <1>1 DEF StartPurge, listVars
  <2> QED BY <1>t, <2>1 DEF DisjointInv, OwnKey, Unlisted, PurgeLocks, ClearAlone, Stored, Changing
<1>2. CASE EndPurge(p)
  <2>1. /\ pc[p] = "purge" /\ linkedListLock' = None
        /\ pc' = [pc EXCEPT ![p] = "allocate"] /\ UNCHANGED <<keyToElement, values, call, found>>
    BY <1>t, <1>2 DEF EndPurge, listVars
  <2>2. \A q \in Processes : pc'[q] \notin {"purge", "purgeErase"}
    BY <1>t, <2>1 DEF DisjointInv, PurgeLocks
  <2> QED BY <1>t, <2>1, <2>2 DEF DisjointInv, OwnKey, Unlisted, PurgeLocks, ClearAlone, Stored, Changing
<1>3. CASE AllocateSpace(p)
  <2>1. /\ pc[p] = "allocate" /\ linkedListLock = None /\ UNCHANGED linkedListLock
        /\ pc' = [pc EXCEPT ![p] = "write"] /\ UNCHANGED <<keyToElement, values, call, found>>
    BY <1>t, <1>3 DEF AllocateSpace
  <2>2. \A q \in Processes : pc'[q] \notin {"purge", "purgeErase"}
    BY <1>t, <2>1 DEF DisjointInv, PurgeLocks
  <2> QED BY <1>t, <2>1, <2>2 DEF DisjointInv, OwnKey, Unlisted, PurgeLocks, ClearAlone, Stored, Changing
<1>4. CASE NoSpace(p) \/ Refund(p) \/ MoveToFront(p)
  <2>1. /\ pc[p] \in {"allocate", "refund", "touch"} /\ UNCHANGED <<linkedListLock, keyToElement, values>>
        /\ pc' = [pc EXCEPT ![p] = "idle"] /\ call' = [call EXCEPT ![p] = NoCall]
        /\ found' = [found EXCEPT ![p] = NoElement]
    BY <1>t, <1>4 DEF NoSpace, Refund, MoveToFront, listVars
  <2>2. \A q \in Processes : q # p => pc'[q] = pc[q] /\ call'[q] = call[q] /\ found'[q] = found[q]
    BY <1>t, <2>1
  <2>3. pc'[p] = "idle"
    BY <1>t, <2>1
  <2> QED BY <1>t, <2>1, <2>2, <2>3
             DEF DisjointInv, OwnKey, Unlisted, PurgeLocks, ClearAlone, Stored, Changing
<1> QED BY <1>1, <1>2, <1>3, <1>4

(* The steps that write or erase values, and the one that lists a key.     *)
LEMMA DisjointValues ==
  ASSUME Undisturbed, TypeInv, DisjointInv, NEW p \in Processes,
         \/ DeleteKeyCallback(p) \/ PurgeErase(p) \/ SetValueCallback(p) \/ SetValueFails(p)
         \/ PushFront(p) \/ DeleteAllCallback(p)
  PROVE  DisjointInv'
<1> USE DEF TypeInv, Undisturbed, Goto, Return
<1>t. /\ keyToElement \in [Keys -> Element \cup {NoElement}] /\ pc \in [Processes -> Labels]
      /\ call \in [Processes -> {NoCall} \cup SetCall \cup DeleteCall]
      /\ values \in [Keys -> {0} \cup Sizes]
      /\ found \in [Processes -> Element \cup {NoElement}]
      /\ None \notin Processes
  BY LRUAssumption DEF TypeOK, LRUAssumption
<1>k. \A q, r \in Processes : pc[q] \in Changing \cup {"delete"} =>
        /\ call[q].key \in Keys
        /\ r # q /\ pc[r] \in Changing \cup {"delete"} => call[r].key # call[q].key
  BY CallKeys
<1>1. CASE DeleteKeyCallback(p)
  <2>1. PICK k \in Keys : k = call[p].key
    BY <1>k, <1>1 DEF DeleteKeyCallback, Changing
  <2>2. /\ pc[p] = "erase" /\ values' = [values EXCEPT ![k] = 0]
        /\ UNCHANGED <<keyToElement, linkedListLock>>
        /\ pc' = [pc EXCEPT ![p] = pc'[p]] /\ pc'[p] \in {"evict", "idle"}
        /\ pc'[p] = "evict" => call'[p] = call[p]
        /\ \A q \in Processes : q # p => call'[q] = call[q] /\ found'[q] = found[q]
    BY <1>t, <1>1, <2>1 DEF DeleteKeyCallback, listVars
  <2>3. OwnKey' /\ Unlisted'
    BY <1>t, <2>2 DEF DisjointInv, OwnKey, Unlisted, Changing
  <2>4. PurgeLocks'
    BY <1>t, <2>2 DEF DisjointInv, PurgeLocks
  <2>5. ClearAlone'
    BY <1>t, <2>2 DEF DisjointInv, ClearAlone
  <2>6. Stored'
    <3>1. keyToElement[k] = NoElement
      BY <2>1, <2>2 DEF DisjointInv, Unlisted, Changing
    <3>2. \A q \in Processes : pc'[q] = "push" => q # p /\ pc[q] = "push" /\ call[q].key \in Keys \ {k}
      BY <1>t, <1>k, <2>1, <2>2 DEF Changing
    <3> QED BY <1>t, <2>2, <3>1, <3>2 DEF DisjointInv, Stored
  <2> QED BY <2>3, <2>4, <2>5, <2>6 DEF DisjointInv
<1>2. CASE PurgeErase(p)
  <2>1. PICK k : k = found[p].key
    OBVIOUS
  <2>2. /\ pc[p] = "purgeErase" /\ values' = [values EXCEPT ![k] = 0]
        /\ UNCHANGED <<keyToElement, linkedListLock, call>>
        /\ pc' = [pc EXCEPT ![p] = "purge"] /\ found' = [found EXCEPT ![p] = NoElement]
    BY <1>t, <1>2, <2>1 DEF PurgeErase, listVars
  <2>3. keyToElement[k] = NoElement /\ \A q \in Processes : pc[q] \in {"write", "push"} => call[q].key # k
    BY <2>1, <2>2 DEF DisjointInv, PurgeLocks
  <2>4. OwnKey' /\ Unlisted'
    BY <1>t, <2>2 DEF DisjointInv, OwnKey, Unlisted, Changing
  <2>5. PurgeLocks'
    BY <1>t, <2>2 DEF DisjointInv, PurgeLocks
  <2>6. ClearAlone'
    BY <1>t, <2>2 DEF DisjointInv, ClearAlone
  <2>7. Stored'
    BY <1>t, <1>k, <2>2, <2>3 DEF DisjointInv, Stored, Changing
  <2> QED BY <2>4, <2>5, <2>6, <2>7 DEF DisjointInv
<1>3. CASE SetValueCallback(p) \/ SetValueFails(p)
  <2>1. PICK k \in Keys : k = call[p].key
    BY <1>k, <1>3 DEF SetValueCallback, SetValueFails, Changing
  <2>2. /\ pc[p] = "write" /\ values' = [values EXCEPT ![k] = values'[k]]
        /\ UNCHANGED <<keyToElement, linkedListLock, call, found>>
        /\ pc' = [pc EXCEPT ![p] = pc'[p]] /\ pc'[p] \in {"push", "refund"}
        /\ pc'[p] = "push" => values'[k] = call[p].size
    BY <1>t, <1>3, <2>1 DEF SetValueCallback, SetValueFails, listVars
  <2>3. OwnKey' /\ Unlisted'
    BY <1>t, <2>2 DEF DisjointInv, OwnKey, Unlisted, Changing
  <2>4. PurgeLocks'
    BY <1>t, <2>2 DEF DisjointInv, PurgeLocks
  <2>5. ClearAlone'
    BY <1>t, <2>2 DEF DisjointInv, ClearAlone
  <2>6. Stored'
    <3>1. keyToElement[k] = NoElement
      BY <2>1, <2>2 DEF DisjointInv, Unlisted, Changing
    <3>2. \A q \in Processes : q # p /\ pc[q] = "push" => call[q].key \in Keys \ {k}
      BY <1>k, <2>1, <2>2 DEF Changing
    <3> QED BY <1>t, <2>1, <2>2, <3>1, <3>2 DEF DisjointInv, Stored
  <2> QED BY <2>3, <2>4, <2>5, <2>6 DEF DisjointInv
<1>4. CASE PushFront(p)
  <2>1. PICK k \in Keys : k = call[p].key
    BY <1>k, <1>4 DEF PushFront, Changing
  <2> DEFINE e == [id |-> CHOOSE i \in FreshIds : TRUE,
                   key |-> call[p].key, size |-> call[p].size]
  <2>2. /\ pc[p] = "push" /\ linkedListLock = None /\ UNCHANGED <<linkedListLock, values>>
        /\ keyToElement' = [keyToElement EXCEPT ![e.key] = e]
        /\ pc' = [pc EXCEPT ![p] = "idle"] /\ call' = [call EXCEPT ![p] = NoCall]
        /\ found' = [found EXCEPT ![p] = NoElement]
    BY <1>4 DEF PushFront
  <2>3. e.key = k /\ e.size = call[p].size
    BY <2>1
  <2> HIDE DEF e
  <2>4. \A j \in Keys : keyToElement'[j] = IF j = k THEN e ELSE keyToElement[j]
    BY <1>t, <2>2, <2>3
  <2>5. /\ pc'[p] = "idle"
        /\ \A q \in Processes : q # p => pc'[q] = pc[q] /\ call'[q] = call[q] /\ found'[q] = found[q]
    BY <1>t, <2>2
  <2>6. \A q \in Processes : pc[q] \notin {"purge", "purgeErase"} /\ pc[q] # "eraseAll"
    BY <1>t, <2>2 DEF DisjointInv, PurgeLocks, ClearAlone
  <2>7. OwnKey'
    BY <2>5 DEF DisjointInv, OwnKey, Changing
  <2>8. Unlisted'
    BY <1>k, <2>1, <2>2, <2>4, <2>5 DEF DisjointInv, Unlisted, Changing
  <2>9. PurgeLocks' /\ ClearAlone'
    BY <2>5, <2>6 DEF PurgeLocks, ClearAlone
  <2>10. Stored'
    <3>1. values[k] = e.size
      BY <2>1, <2>2, <2>3 DEF DisjointInv, Stored
    <3> QED BY <2>2, <2>4, <2>5, <3>1 DEF DisjointInv, Stored
  <2> QED BY <2>7, <2>8, <2>9, <2>10 DEF DisjointInv
<1>5. CASE DeleteAllCallback(p)
  <2>1. /\ pc[p] = "eraseAll" /\ UNCHANGED <<keyToElement, linkedListLock>>
        /\ pc' = [pc EXCEPT ![p] = "idle"]
    BY <1>5 DEF DeleteAllCallback, listVars
  <2>2. /\ \A q \in Processes : pc'[q] = "idle"
        /\ \A k \in Keys : keyToElement'[k] = NoElement
    BY <1>t, <2>1 DEF DisjointInv, ClearAlone
  <2> QED BY <2>2 DEF DisjointInv, OwnKey, Unlisted, PurgeLocks, ClearAlone, Stored, Changing
<1> QED BY <1>1, <1>2, <1>3, <1>4, <1>5

LEMMA DisjointStep ==
  ASSUME Undisturbed, TypeInv, MappedIsListed, ListIsMapped, DisjointInv, [Next]_vars
  PROVE  DisjointInv' /\ ListIsMapped'
<1>1. ASSUME NEW p \in Processes, Begin(p) PROVE DisjointInv' /\ ListIsMapped'
  <2>1. ~PushFront(p)
    BY <1>1 DEF PushFront, Begin, Set, Delete, Get, DeleteAll
  <2> QED BY <1>1, <2>1, DisjointBegin, ListedStep DEF Begin
<1>2. ASSUME NEW p \in Processes, Continue(p) PROVE DisjointInv' /\ ListIsMapped'
  <2>1. PushFront(p) => keyToElement[call[p].key] = NoElement
    BY DEF PushFront, DisjointInv, Unlisted, Changing
  <2> QED BY <1>2, <2>1, DisjointUnlist, DisjointQuiet, DisjointValues, ListedStep DEF Continue
<1>3. CASE UNCHANGED vars
  BY <1>3 DEF vars, DisjointInv, OwnKey, Unlisted, PurgeLocks, ClearAlone, Stored, ListIsMapped
<1> QED BY <1>1, <1>2, <1>3 DEF Next

LEMMA DisjointInit == Init => DisjointInv /\ ListIsMapped
BY DEF Init, DisjointInv, OwnKey, Unlisted, PurgeLocks, ClearAlone, Stored, Changing,
   ListIsMapped, NoKeyTwice

(* A key on the list has a value of the size the list says, so that a hit  *)
(* on it can be read (ListedIsReadable).                                   *)
THEOREM ListedCanBeRead ==
  ASSUME Undisturbed
  PROVE  Spec => []ListedIsReadable
<1>1. DisjointInv => ListedIsReadable
  BY DEF DisjointInv, Stored, ListedIsReadable
<1>2. Init => MappedIsListed
  BY DEF Init, MappedIsListed
<1> QED BY TypeInit, TypeStep, MappedStep, DisjointInit, DisjointStep, <1>1, <1>2, PTL DEF Spec

-----------------------------------------------------------------------------
(* The list implements BoundedLRU.                                         *)
LEMMA SameBytes ==
  ASSUME NEW s PROVE LRU!Bytes(s) = Bytes(s)
BY DEF LRU!Bytes, Bytes, LRU!SumFunction, SumFunction, LRU!SumFunctionOnSet, SumFunctionOnSet,
       LRU!FoldFunctionOnSet, FoldFunctionOnSet, LRU!MapThenFoldSet, MapThenFoldSet

LEMMA SameRemoveAt ==
  ASSUME NEW s, NEW i PROVE LRU!RemoveAt(s, i) = RemoveAt(s, i)
BY DEF LRU!RemoveAt, RemoveAt

EntryOf(e) == [key |-> e.key, size |-> e.size]
EntriesOf(s) == [i \in DOMAIN s |-> EntryOf(s[i])]

LEMMA EntriesType ==
  ASSUME NEW s \in Seq(Element)
  PROVE  /\ EntriesOf(s) \in Seq([key : Keys, size : Sizes])
         /\ Len(EntriesOf(s)) = Len(s) /\ DOMAIN EntriesOf(s) = DOMAIN s
         /\ \A i \in DOMAIN s : EntriesOf(s)[i] = EntryOf(s[i])
         /\ Bytes(EntriesOf(s)) = Bytes(s)
<1>1. /\ Len(s) \in Nat /\ DOMAIN s = 1..Len(s)
      /\ \A i \in DOMAIN s : s[i] \in Element
  OBVIOUS
<1>2. \A e \in Element : EntryOf(e) \in [key : Keys, size : Sizes] /\ EntryOf(e).size = e.size
  BY DEF Element, EntryOf
<1>3. PICK t : t = EntriesOf(s)
  OBVIOUS
<1>4. /\ t \in [1..Len(s) -> [key : Keys, size : Sizes]]
      /\ DOMAIN t = DOMAIN s /\ \A i \in DOMAIN s : t[i] = EntryOf(s[i])
  BY <1>1, <1>2, <1>3 DEF EntriesOf
<1>5. t \in Seq([key : Keys, size : Sizes]) /\ Len(t) = Len(s)
  <2>1. t \in Seq([key : Keys, size : Sizes])
    <3>1. PICK R : R = [key : Keys, size : Sizes]
      OBVIOUS
    <3>2. t \in [1..Len(s) -> R]
      BY <1>4, <3>1
    <3>3. t \in Seq(R)
      BY <1>1, <3>2, SeqDef
    <3> QED BY <3>1, <3>3
  <2> QED BY <1>1, <1>4, <2>1
<1>6. Bytes(t) = Bytes(s)
  <2>1. \A i \in DOMAIN s : t[i].size = s[i].size
    BY <1>1, <1>2, <1>4
  <2>2. [i \in DOMAIN t |-> t[i].size] = [i \in DOMAIN s |-> s[i].size]
    BY <1>4, <2>1
  <2> QED BY <2>2 DEF Bytes
<1> QED BY <1>3, <1>4, <1>5, <1>6

LEMMA EntriesRemoved ==
  ASSUME NEW s \in Seq(Element), NEW i \in DOMAIN s
  PROVE  EntriesOf(RemoveAt(s, i)) = RemoveAt(EntriesOf(s), i)
<1>1. PICK t, u, v : t = EntriesOf(s) /\ u = RemoveAt(s, i) /\ v = RemoveAt(t, i)
  OBVIOUS
<1>2. /\ u \in Seq(Element) /\ DOMAIN u = 1..(Len(s) - 1) /\ Len(s) \in Nat
      /\ DOMAIN s = 1..Len(s)
      /\ \A j \in 1..(Len(s) - 1) : u[j] = IF j < i THEN s[j] ELSE s[j + 1]
  BY <1>1, RemoveAtPlaces
<1>3. /\ t \in Seq([key : Keys, size : Sizes]) /\ Len(t) = Len(s) /\ DOMAIN t = DOMAIN s
      /\ \A j \in DOMAIN s : t[j] = EntryOf(s[j])
  BY <1>1, EntriesType
<1>4. /\ v \in Seq([key : Keys, size : Sizes]) /\ DOMAIN v = 1..(Len(s) - 1)
      /\ \A j \in 1..(Len(s) - 1) : v[j] = IF j < i THEN t[j] ELSE t[j + 1]
  BY <1>1, <1>3, RemoveAtPlaces
<1>5. DOMAIN EntriesOf(u) = 1..(Len(s) - 1) /\ \A j \in DOMAIN u : EntriesOf(u)[j] = EntryOf(u[j])
  BY <1>2, EntriesType
<1>6. ASSUME NEW j \in 1..(Len(s) - 1) PROVE EntriesOf(u)[j] = v[j]
  <2>1. j \in DOMAIN s /\ j + 1 \in DOMAIN s
    BY <1>2
  <2> QED BY <1>2, <1>3, <1>4, <1>5, <2>1
<1>7. EntriesOf(u) \in Seq([key : Keys, size : Sizes])
  BY <1>2, EntriesType
<1>8. EntriesOf(u) = v
  BY <1>4, <1>5, <1>6, <1>7
<1> QED BY <1>1, <1>8

LEMMA EntriesPushed ==
  ASSUME NEW s \in Seq(Element), NEW e \in Element
  PROVE  EntriesOf(<<e>> \o s) = <<EntryOf(e)>> \o EntriesOf(s)
<1>1. PICK t, u, v : t = EntriesOf(s) /\ u = <<e>> \o s /\ v = <<EntryOf(e)>> \o t
  OBVIOUS
<1>2. /\ u \in Seq(Element) /\ DOMAIN u = 1..(Len(s) + 1) /\ u[1] = e
      /\ Len(s) \in Nat /\ DOMAIN s = 1..Len(s)
      /\ \A j \in 2..(Len(s) + 1) : u[j] = s[j - 1]
  BY <1>1
<1>3. /\ t \in Seq([key : Keys, size : Sizes]) /\ Len(t) = Len(s) /\ DOMAIN t = DOMAIN s
      /\ \A j \in DOMAIN s : t[j] = EntryOf(s[j])
  BY <1>1, EntriesType
<1>4. EntryOf(e) \in [key : Keys, size : Sizes]
  BY DEF EntryOf, Element
<1>5. /\ v \in Seq([key : Keys, size : Sizes]) /\ DOMAIN v = 1..(Len(s) + 1) /\ v[1] = EntryOf(e)
      /\ \A j \in 2..(Len(s) + 1) : v[j] = t[j - 1]
  <2>1. v = <<EntryOf(e)>> \o t /\ Len(t) = Len(s)
    BY <1>1, <1>3
  <2> QED BY <1>3, <1>4, <2>1
<1>6. DOMAIN EntriesOf(u) = 1..(Len(s) + 1) /\ \A j \in DOMAIN u : EntriesOf(u)[j] = EntryOf(u[j])
  BY <1>2, EntriesType
<1>7. ASSUME NEW j \in 1..(Len(s) + 1) PROVE EntriesOf(u)[j] = v[j]
  <2>1. CASE j = 1
    BY <1>2, <1>5, <1>6, <2>1
  <2>2. CASE j # 1
    <3>1. j \in 2..(Len(s) + 1) /\ j - 1 \in DOMAIN s
      BY <1>2, <2>2
    <3> QED BY <1>2, <1>3, <1>5, <1>6, <3>1
  <2> QED BY <2>1, <2>2
<1>8. EntriesOf(u) \in Seq([key : Keys, size : Sizes])
  BY <1>2, EntriesType
<1>9. EntriesOf(u) = v
  BY <1>5, <1>6, <1>7, <1>8
<1> QED BY <1>1, <1>9

(* What a call under way has reserved is part of what all have.            *)
LEMMA ShareIsReserved ==
  ASSUME TypeOK, NEW p \in Processes
  PROVE  Reserved \in Int /\ Share(p) <= Reserved
<1> DEFINE f == [q \in Processes |-> call[q].size]
           S == {q \in Processes : pc[q] \in {"write", "push", "refund"}}
<1>1. Reserved = SumFunctionOnSet(f, S)
  BY DEF Reserved
<1>2. \A q \in Processes : f[q] \in Nat /\ f[q] \in Int
  <2>1. \A q \in Processes : call[q].size \in Nat
    BY CallSizes
  <2> QED BY <2>1
<1>3. S \in SUBSET Processes /\ (pc[p] \in Reserving => p \in S) /\ f[p] = call[p].size
  BY DEF Reserving
<1> HIDE DEF f, S
<1>4. IsFiniteSet(S) /\ \A q \in S : f[q] \in Nat /\ f[q] \in Int
  BY <1>2, <1>3, LRUAssumption, FS_Subset DEF LRUAssumption
<1>5. SumFunctionOnSet(f, S) \in Nat
  BY <1>4, SumNatural
<1>6. CASE pc[p] \in Reserving
  <2>1. p \in S
    BY <1>3, <1>6
  <2>2. \A q \in S : SumFunctionOnSet(f, S) = f[q] + SumFunctionOnSet(f, S \ {q})
    BY <1>4, SumRemove
  <2>3. SumFunctionOnSet(f, S) = f[p] + SumFunctionOnSet(f, S \ {p})
    BY <2>1, <2>2
  <2>4. SumFunctionOnSet(f, S \ {p}) \in Nat
    <3>1. IsFiniteSet(S \ {p}) /\ \A q \in S \ {p} : f[q] \in Nat
      BY <1>4, FS_Subset
    <3> QED BY <3>1, SumNatural
  <2> QED BY <1>1, <1>3, <1>4, <1>5, <1>6, <2>1, <2>3, <2>4 DEF Share
<1>7. CASE pc[p] \notin Reserving
  BY <1>1, <1>5, <1>7 DEF Share
<1> QED BY <1>6, <1>7

LEMMA RefinementStep ==
  ASSUME Undisturbed, TypeInv, MappedIsListed, ListIsMapped, DisjointInv, BytesAccounted,
         [Next]_vars
  PROVE  LRU!Next \/ Entries' = Entries
<1> USE DEF TypeInv
<1>t. orderedCacheKeys \in Seq(Element)
  BY DEF TypeOK
<1>e. Entries = EntriesOf(orderedCacheKeys) /\ Entries' = EntriesOf(orderedCacheKeys')
  BY DEF Entries, EntriesOf, EntryOf
<1>d. DOMAIN Entries = DOMAIN orderedCacheKeys /\ Bytes(Entries) = Bytes(orderedCacheKeys)
      /\ \A i \in DOMAIN orderedCacheKeys : Entries[i] = EntryOf(orderedCacheKeys[i])
  BY <1>t, <1>e, EntriesType
<1>1. ASSUME orderedCacheKeys' = orderedCacheKeys PROVE Entries' = Entries
  BY <1>1 DEF Entries
<1>2. ASSUME NEW i \in DOMAIN orderedCacheKeys, orderedCacheKeys' = RemoveAt(orderedCacheKeys, i)
      PROVE  LRU!Next
  <2>1. Entries' = RemoveAt(Entries, i)
    BY <1>t, <1>e, <1>2, EntriesRemoved
  <2>2. LRU!Drop(i)
    BY <2>1, SameRemoveAt DEF LRU!Drop
  <2> QED BY <1>d, <2>2 DEF LRU!Next
<1>3. ASSUME NEW i \in DOMAIN orderedCacheKeys,
             orderedCacheKeys' = <<orderedCacheKeys[i]>> \o RemoveAt(orderedCacheKeys, i)
      PROVE  LRU!Next
  <2>1. RemoveAt(orderedCacheKeys, i) \in Seq(Element) /\ orderedCacheKeys[i] \in Element
    BY <1>t, RemoveAtType
  <2>2. Entries' = <<EntryOf(orderedCacheKeys[i])>> \o EntriesOf(RemoveAt(orderedCacheKeys, i))
    BY <1>e, <1>3, <2>1, EntriesPushed
  <2>3. EntriesOf(RemoveAt(orderedCacheKeys, i)) = RemoveAt(Entries, i)
    BY <1>t, <1>e, EntriesRemoved
  <2>4. LRU!Touch(i)
    BY <1>d, <2>2, <2>3, SameRemoveAt DEF LRU!Touch
  <2> QED BY <1>d, <2>4 DEF LRU!Next
<1>4. ASSUME NEW p \in Processes, Begin(p) PROVE LRU!Next \/ Entries' = Entries
  <2>1. CASE Set(p) \/ Delete(p) \/ Get(p)
    BY <1>1, <2>1 DEF Set, Delete, Get, listVars
  <2>2. CASE DeleteAll(p)
    <3>1. Entries' = << >>
      BY <2>2 DEF DeleteAll, Entries
    <3> QED BY <3>1 DEF LRU!Next, LRU!Clear
  <2> QED BY <1>4, <2>1, <2>2 DEF Begin
<1>5. ASSUME NEW p \in Processes, Continue(p) PROVE LRU!Next \/ Entries' = Entries
  <2>1. CASE DeleteMetadata(p) \/ PurgeOldest(p)
    <3>1. PICK k \in Keys : Unlist(k)
      <4>1. call[p].key \in Keys \/ pc[p] # "delete"
        BY DEF CallsKnown, SetCall, DeleteCall
      <4>2. orderedCacheKeys # << >> => Last(orderedCacheKeys).key \in Keys
        BY LastType, ElementFields DEF TypeOK
      <4> QED BY <2>1, <4>1, <4>2 DEF DeleteMetadata, PurgeOldest
    <3> QED BY <1>1, <1>2, <3>1, UnlistDrops
  <2>2. CASE PushFront(p)
    <3> DEFINE e == [id |-> CHOOSE i \in FreshIds : TRUE,
                     key |-> call[p].key, size |-> call[p].size]
    <3>1. e \in Element /\ e.key = call[p].key /\ e.size = call[p].size
      BY <2>2 DEF PushFront, FreshIds, CallsKnown, SettingLabels, SetCall, Element
    <3>2. orderedCacheKeys' = <<e>> \o orderedCacheKeys /\ pc[p] = "push"
      BY <2>2 DEF PushFront
    <3> HIDE DEF e
    <3>3. e.key \in Keys /\ e.size \in Nat /\ e.size > 0
      BY <3>1, ElementFields, ElementSizes
    <3>4. Entries' = <<[key |-> e.key, size |-> e.size]>> \o Entries
      BY <1>t, <1>e, <3>1, <3>2, EntriesPushed DEF EntryOf
    <3>5. ~LRU!Listed(e.key)
      <4>1. keyToElement[e.key] = NoElement
        BY <3>1, <3>2 DEF DisjointInv, Unlisted, Changing
      <4>2. \A i \in DOMAIN orderedCacheKeys : orderedCacheKeys[i].key # e.key
        BY <3>3, <4>1, UnlistedNotInList
      <4>3. \A i \in DOMAIN Entries : Entries[i].key # e.key
        BY <1>d, <4>2 DEF EntryOf
      <4> QED BY <4>3 DEF LRU!Listed
    <3>6. e.size + Bytes(Entries) <= MaxSize /\ MaxSize \in Int
      <4>1. Share(p) = e.size
        BY <3>1, <3>2 DEF Share, Reserving
      <4>2. /\ currentSize = Bytes(orderedCacheKeys) + Reserved /\ currentSize <= MaxSize
            /\ Bytes(orderedCacheKeys) \in Nat /\ MaxSize \in Int
        BY ListedBytes, LRUAssumption DEF BytesAccounted, LRUAssumption
      <4>3. Reserved \in Int /\ e.size <= Reserved
        BY <4>1, ShareIsReserved
      <4> QED BY <1>d, <3>3, <4>2, <4>3
    <3>7. Bytes(Entries) \in Nat
      BY <1>d, ListedBytes
    <3>8. LRU!Add(e.key, e.size)
      BY <3>4, <3>5, <3>6, SameBytes DEF LRU!Add
    <3>9. e.size \in 1..MaxSize
      BY <3>3, <3>6, <3>7
    <3> QED BY <3>3, <3>8, <3>9 DEF LRU!Next
  <2>3. CASE MoveToFront(p)
    <3>1. found[p] \in Element /\ keyToElement' = keyToElement
      BY <2>3 DEF MoveToFront, CallsKnown
    <3>2. CASE InList(found[p])
      <4>1. orderedCacheKeys' = <<found[p]>> \o ListWithout(found[p])
        BY <2>3, <3>2 DEF MoveToFront
      <4> QED BY <1>3, <3>1, <3>2, <4>1, MoveKeepsMapped
    <3>3. CASE ~InList(found[p])
      BY <1>1, <2>3, <3>3 DEF MoveToFront
    <3> QED BY <3>2, <3>3
  <2>4. CASE \/ DeleteKeyCallback(p) \/ StartPurge(p) \/ PurgeErase(p) \/ EndPurge(p)
             \/ AllocateSpace(p) \/ NoSpace(p) \/ SetValueCallback(p) \/ SetValueFails(p)
             \/ Refund(p) \/ DeleteAllCallback(p)
    BY <1>1, <2>4 DEF DeleteKeyCallback, StartPurge, PurgeErase, EndPurge, AllocateSpace,
       NoSpace, SetValueCallback, SetValueFails, Refund, DeleteAllCallback, listVars
  <2> QED BY <1>5, <2>1, <2>2, <2>3, <2>4 DEF Continue
<1>6. CASE UNCHANGED vars
  BY <1>1, <1>6 DEF vars
<1> QED BY <1>4, <1>5, <1>6 DEF Next

(* The list is an LRU list with no key twice and within its bound          *)
(* (BoundedLRUSpec): a purge or a deletion drops one entry, a hit moves    *)
(* one to the front, and a Set adds one that the bound has room for.       *)
THEOREM ImplementsBoundedLRU ==
  ASSUME Undisturbed
  PROVE  Spec => BoundedLRUSpec
<1>1. Init => MappedIsListed /\ LRU!Init
  BY DEF Init, MappedIsListed, LRU!Init, Entries
<1>2. QuietClear /\ MaxSize # -1
  BY DEF Undisturbed
<1>3. Spec => []BytesAccounted
  BY <1>2, EveryByteCounted
<1>4. TypeInv /\ MappedIsListed /\ ListIsMapped /\ DisjointInv /\ BytesAccounted /\ [Next]_vars
        => [LRU!Next]_Entries
  BY RefinementStep
<1> QED BY TypeInit, TypeStep, MappedStep, DisjointInit, DisjointStep, <1>1, <1>3, <1>4, PTL
           DEF Spec, BoundedLRUSpec, LRU!Spec
=============================================================================

------------------------------ MODULE LRUCache ------------------------------
(***************************************************************************)
(* The LRU cache of groove/proxy/cache/lru.go: a list of metadata, a map   *)
(* from keys to the list's elements and a byte count, all three under      *)
(* linkedListLock, and a backing store of values that the callbacks reach  *)
(* outside it.  The request goroutines of the proxy call Set and Get, the  *)
(* control API calls DeleteAll; a label of pc is a point of a call where   *)
(* another goroutine can run.                                              *)
(***************************************************************************)
EXTENDS Integers, FiniteSets, SequencesExt

CONSTANTS
  Processes,   \* goroutines, each making one call at a time
  Keys,
  KeysOf,      \* the keys each process sets and deletes
  Sizes,       \* len(*value)
  MaxSize,     \* maxSize; -1 is meant to stand for no bound
  MayFail,     \* whether SetValueCallback can return an error (it writes to disk)
  MayClear,    \* the processes that call DeleteAll
  QuietClear,  \* whether they call it only while no other call is under way
  Elements,    \* identities of *list.Element
  NoElement, None

ASSUME LRUAssumption ==
  /\ IsFiniteSet(Processes)
  /\ KeysOf \in [Processes -> SUBSET Keys]
  /\ Sizes \subseteq Nat \ {0}
  /\ MaxSize \in Nat \cup {-1}
  /\ MayFail \in BOOLEAN
  /\ MayClear \subseteq Processes
  /\ QuietClear \in BOOLEAN
  /\ NoElement \notin [id : Elements, key : Keys, size : Sizes]
  /\ None \notin Processes

VARIABLES
  orderedCacheKeys,  \* elements, freshest first
  keyToElement,      \* the element of each key, or NoElement
  currentSize,
  linkedListLock,    \* the process inside the purge loop, or None
  values,            \* backing store: the size of each key's value, 0 where none
  pc,
  call,              \* the call each process is in
  found              \* the element each process has looked up

vars == <<orderedCacheKeys, keyToElement, currentSize, linkedListLock, values,
          pc, call, found>>
listVars == <<orderedCacheKeys, keyToElement, currentSize>>

-----------------------------------------------------------------------------
Element == [id : Elements, key : Keys, size : Sizes]
Labels == {"idle", "delete", "erase", "evict", "purge", "purgeErase",
           "allocate", "write", "push", "refund", "touch", "eraseAll"}
SetCall == [op : {"set"}, key : Keys, size : Sizes]
DeleteCall == [op : {"delete"}, key : Keys, size : {0}]
NoCall == [op |-> "none", key |-> None, size |-> 0]

Goto(p, label) == pc' = [pc EXCEPT ![p] = label]
Return(p) ==
  /\ Goto(p, "idle")
  /\ call' = [call EXCEPT ![p] = NoCall]
  /\ found' = [found EXCEPT ![p] = NoElement]

(* container/list: an element's place, and the list without it.  Removing  *)
(* or moving an element that has left the list does nothing.               *)
Position(e) == CHOOSE i \in DOMAIN orderedCacheKeys : orderedCacheKeys[i] = e
InList(e) == e \in ToSet(orderedCacheKeys)
ListWithout(e) ==
  IF InList(e) THEN RemoveAt(orderedCacheKeys, Position(e)) ELSE orderedCacheKeys

(* The identities no element in sight has.  Elements bounds how many there *)
(* are at once: a push beyond it would wait, and none does.                *)
InUse == (ToSet(orderedCacheKeys) \cup {found[p] : p \in Processes}) \ {NoElement}
FreshIds == Elements \ {e.id : e \in InUse}

Bytes(list) == SumFunction([i \in DOMAIN list |-> list[i].size])

-----------------------------------------------------------------------------
Init ==
  /\ orderedCacheKeys = << >>
  /\ keyToElement = [k \in Keys |-> NoElement]
  /\ currentSize = 0
  /\ linkedListLock = None
  /\ values = [k \in Keys |-> 0]
  /\ pc = [p \in Processes |-> "idle"]
  /\ call = [p \in Processes |-> NoCall]
  /\ found = [p \in Processes |-> NoElement]

(* Set: what is already there is deleted first.                            *)
Set(p) ==
  /\ pc[p] = "idle"
  /\ \E k \in KeysOf[p], size \in Sizes :
       /\ call' = [call EXCEPT ![p] = [op |-> "set", key |-> k, size |-> size]]
       /\ Goto(p, IF values[k] # 0 THEN "delete" ELSE "evict")
  /\ UNCHANGED <<listVars, linkedListLock, values, found>>

Delete(p) ==
  /\ pc[p] = "idle"
  /\ \E k \in KeysOf[p] :
       call' = [call EXCEPT ![p] = [op |-> "delete", key |-> k, size |-> 0]]
  /\ Goto(p, "delete")
  /\ UNCHANGED <<listVars, linkedListLock, values, found>>

(* Mutant: the element leaves the list and stays in the map.               *)
Unlist_Mapped(k) ==
  IF keyToElement[k] = NoElement THEN UNCHANGED listVars ELSE
    /\ orderedCacheKeys' = ListWithout(keyToElement[k])
    /\ currentSize' = currentSize - keyToElement[k].size
    /\ UNCHANGED keyToElement

(* deleteWithProtection, first the housekeeping and then the callback.     *)
Unlist(k) ==
  IF keyToElement[k] = NoElement THEN UNCHANGED listVars ELSE
    /\ orderedCacheKeys' = ListWithout(keyToElement[k])
    /\ currentSize' = currentSize - keyToElement[k].size
    /\ keyToElement' = [keyToElement EXCEPT ![k] = NoElement]

DeleteMetadata(p) ==
  /\ pc[p] = "delete" /\ linkedListLock = None
  /\ Unlist(call[p].key)
  /\ Goto(p, "erase")
  /\ UNCHANGED <<linkedListLock, values, call, found>>

DeleteKeyCallback(p) ==
  /\ pc[p] = "erase"
  /\ values' = [values EXCEPT ![call[p].key] = 0]
  /\ IF call[p].op = "set" THEN Goto(p, "evict") /\ UNCHANGED <<call, found>>
                           ELSE Return(p)
  /\ UNCHANGED <<listVars, linkedListLock>>

-----------------------------------------------------------------------------
(* The loop that makes room keeps linkedListLock through its callbacks.    *)
StartPurge(p) ==
  /\ pc[p] = "evict" /\ (MaxSize > -1 => linkedListLock = None)
  /\ linkedListLock' = IF MaxSize > -1 THEN p ELSE linkedListLock
  /\ Goto(p, IF MaxSize > -1 THEN "purge" ELSE "allocate")
  /\ UNCHANGED <<listVars, values, call, found>>

Full(p) == currentSize + call[p].size > MaxSize

PurgeOldest(p) ==
  /\ pc[p] = "purge" /\ Full(p) /\ orderedCacheKeys # << >>
  /\ found' = [found EXCEPT ![p] = Last(orderedCacheKeys)]
  /\ Unlist(Last(orderedCacheKeys).key)
  /\ Goto(p, "purgeErase")
  /\ UNCHANGED <<linkedListLock, values, call>>

(* Mutant: the purge takes entries off the list and leaves their values.   *)
PurgeErase_NoCallback(p) ==
  /\ pc[p] = "purgeErase"
  /\ found' = [found EXCEPT ![p] = NoElement]
  /\ Goto(p, "purge")
  /\ UNCHANGED <<listVars, linkedListLock, values, call>>

PurgeErase(p) ==
  /\ pc[p] = "purgeErase"
  /\ values' = [values EXCEPT ![found[p].key] = 0]
  /\ found' = [found EXCEPT ![p] = NoElement]
  /\ Goto(p, "purge")
  /\ UNCHANGED <<listVars, linkedListLock, call>>

(* Mutant: the loop's way out through an empty list keeps the lock.        *)
EndPurge_Locked(p) ==
  /\ pc[p] = "purge" /\ (~Full(p) \/ orderedCacheKeys = << >>)
  /\ linkedListLock' = IF Full(p) THEN p ELSE None
  /\ Goto(p, "allocate")
  /\ UNCHANGED <<listVars, values, call, found>>

EndPurge(p) ==
  /\ pc[p] = "purge" /\ (~Full(p) \/ orderedCacheKeys = << >>)
  /\ linkedListLock' = None
  /\ Goto(p, "allocate")
  /\ UNCHANGED <<listVars, values, call, found>>

-----------------------------------------------------------------------------
(* allocateSpace reserves the bytes before the value is written.           *)
AllocateSpace(p) ==
  /\ pc[p] = "allocate" /\ linkedListLock = None /\ ~Full(p)
  /\ currentSize' = currentSize + call[p].size
  /\ Goto(p, "write")
  /\ UNCHANGED <<orderedCacheKeys, keyToElement, linkedListLock, values, call, found>>

NoSpace(p) ==
  /\ pc[p] = "allocate" /\ linkedListLock = None /\ Full(p)
  /\ Return(p)
  /\ UNCHANGED <<listVars, linkedListLock, values>>

(* Mutant: the value is added to the one that is there.                    *)
SetValueCallback_Append(p) ==
  /\ pc[p] = "write"
  /\ values' = [values EXCEPT ![call[p].key] = @ + call[p].size]
  /\ Goto(p, "push")
  /\ UNCHANGED <<listVars, linkedListLock, call, found>>

SetValueCallback(p) ==
  /\ pc[p] = "write"
  /\ values' = [values EXCEPT ![call[p].key] = call[p].size]
  /\ Goto(p, "push")
  /\ UNCHANGED <<listVars, linkedListLock, call, found>>

(* Mutant: the error is dropped and the metadata kept.                     *)
SetValueFails_Ignored(p) ==
  /\ pc[p] = "write" /\ MayFail
  /\ \E left \in {0, values[call[p].key]} :
       values' = [values EXCEPT ![call[p].key] = left]
  /\ Goto(p, "push")
  /\ UNCHANGED <<listVars, linkedListLock, call, found>>

(* A failed write removes the file, when it has come to open one.          *)
SetValueFails(p) ==
  /\ pc[p] = "write" /\ MayFail
  /\ \E left \in {0, values[call[p].key]} :
       values' = [values EXCEPT ![call[p].key] = left]
  /\ Goto(p, "refund")
  /\ UNCHANGED <<listVars, linkedListLock, call, found>>

PushFront(p) ==
  /\ pc[p] = "push" /\ linkedListLock = None
  /\ FreshIds # {}
  /\ LET e == [id |-> CHOOSE i \in FreshIds : TRUE,
               key |-> call[p].key, size |-> call[p].size]
     IN /\ orderedCacheKeys' = <<e>> \o orderedCacheKeys
        /\ keyToElement' = [keyToElement EXCEPT ![e.key] = e]
  /\ Return(p)
  /\ UNCHANGED <<currentSize, linkedListLock, values>>

(* Mutant: a failed write keeps what it had reserved.                      *)
Refund_None(p) ==
  /\ pc[p] = "refund" /\ linkedListLock = None
  /\ Return(p)
  /\ UNCHANGED <<listVars, linkedListLock, values>>

Refund(p) ==
  /\ pc[p] = "refund" /\ linkedListLock = None
  /\ currentSize' = currentSize - call[p].size
  /\ Return(p)
  /\ UNCHANGED <<orderedCacheKeys, keyToElement, linkedListLock, values>>

-----------------------------------------------------------------------------
(* Get looks the element up under the read lock and moves it later; a Get  *)
(* of a key that is not listed changes nothing.                            *)
Get(p) ==
  /\ pc[p] = "idle" /\ linkedListLock = None
  /\ \E k \in Keys :
       /\ keyToElement[k] # NoElement
       /\ found' = [found EXCEPT ![p] = keyToElement[k]]
  /\ Goto(p, "touch")
  /\ UNCHANGED <<listVars, linkedListLock, values, call>>

MoveToFront(p) ==
  /\ pc[p] = "touch" /\ linkedListLock = None
  /\ orderedCacheKeys' = IF InList(found[p]) THEN <<found[p]>> \o ListWithout(found[p])
                                             ELSE orderedCacheKeys
  /\ Return(p)
  /\ UNCHANGED <<keyToElement, currentSize, linkedListLock, values>>

(* Mutant: the list survives the map and the byte count.                   *)
DeleteAll_KeepsList(p) ==
  /\ pc[p] = "idle" /\ p \in MayClear /\ linkedListLock = None
  /\ keyToElement' = [k \in Keys |-> NoElement]
  /\ currentSize' = 0
  /\ Goto(p, "eraseAll")
  /\ UNCHANGED <<orderedCacheKeys, linkedListLock, values, call, found>>

DeleteAll(p) ==
  /\ pc[p] = "idle" /\ p \in MayClear /\ linkedListLock = None
  /\ orderedCacheKeys' = << >>
  /\ keyToElement' = [k \in Keys |-> NoElement]
  /\ currentSize' = 0
  /\ Goto(p, "eraseAll")
  /\ UNCHANGED <<linkedListLock, values, call, found>>

DeleteAllCallback(p) ==
  /\ pc[p] = "eraseAll"
  /\ values' = [k \in Keys |-> 0]
  /\ Return(p)
  /\ UNCHANGED <<listVars, linkedListLock>>

-----------------------------------------------------------------------------
(* QuietClear is an assumption on the clients of the control API: they     *)
(* clear a cache at rest, and no request comes before the answer.          *)
Begin(p) ==
  /\ QuietClear => \A q \in Processes : pc[q] # "eraseAll"
  /\ \/ Set(p) \/ Delete(p) \/ Get(p)
     \/ DeleteAll(p) /\ (QuietClear => \A q \in Processes : pc[q] = "idle")

Continue(p) ==
  \/ DeleteMetadata(p) \/ DeleteKeyCallback(p)
  \/ StartPurge(p) \/ PurgeOldest(p) \/ PurgeErase(p) \/ EndPurge(p)
  \/ AllocateSpace(p) \/ NoSpace(p)
  \/ SetValueCallback(p) \/ SetValueFails(p) \/ PushFront(p) \/ Refund(p)
  \/ MoveToFront(p) \/ DeleteAllCallback(p)

Next == \E p \in Processes : Begin(p) \/ Continue(p)

Spec == Init /\ [][Next]_vars

(* A call that has begun goes on: the scheduler runs it, and a contended   *)
(* sync.RWMutex is handed to each of those that wait for it.               *)
FairSpec == Spec /\ \A p \in Processes : SF_vars(Continue(p))

-----------------------------------------------------------------------------
TypeOK ==
  /\ orderedCacheKeys \in Seq(Element)
  /\ keyToElement \in [Keys -> Element \cup {NoElement}]
  /\ currentSize \in Int
  /\ linkedListLock \in Processes \cup {None}
  /\ values \in [Keys -> {0} \cup Sizes]
  /\ pc \in [Processes -> Labels]
  /\ call \in [Processes -> {NoCall} \cup SetCall \cup DeleteCall]
  /\ found \in [Processes -> Element \cup {NoElement}]

(* Every key's element is in the list and bears the key, so that deleting  *)
(* or moving it finds it, and the bytes given back are the bytes listed.   *)
MappedIsListed ==
  \A k \in Keys : keyToElement[k] # NoElement =>
    InList(keyToElement[k]) /\ keyToElement[k].key = k

(* currentSize is the bytes of the list and those that calls in flight     *)
(* have reserved, and it stays within the bound: "once we verify that we   *)
(* have the space overhead we want to be the process that writes to it".   *)
Reserved ==
  SumFunctionOnSet([p \in Processes |-> call[p].size],
                   {p \in Processes : pc[p] \in {"write", "push", "refund"}})
BytesAccounted ==
  /\ currentSize = Bytes(orderedCacheKeys) + Reserved
  /\ currentSize <= MaxSize

(* A value in the backing store has an element, which the purge will come  *)
(* to, or a call in flight that will give it one or erase it: no value     *)
(* stays out of the bound's reach.                                         *)
Claims(p, k) ==
  \/ pc[p] \in {"push", "delete", "erase"} /\ call[p].key = k
  \/ pc[p] = "purgeErase" /\ found[p].key = k
  \/ pc[p] = "eraseAll"
NoLeakedValue ==
  \A k \in Keys : values[k] # 0 =>
    keyToElement[k] # NoElement \/ \E p \in Processes : Claims(p, k)

(* A listed key can be read, unless a call is about to erase its value.    *)
ListedIsReadable ==
  \A k \in Keys : keyToElement[k] # NoElement =>
    values[k] = keyToElement[k].size \/ \E p \in Processes : Claims(p, k)

(* The list is an LRU list with no key twice and within its bound.         *)
Entries == [i \in DOMAIN orderedCacheKeys |->
  [key |-> orderedCacheKeys[i].key, size |-> orderedCacheKeys[i].size]]
LRU == INSTANCE BoundedLRU WITH entries <- Entries
BoundedLRUSpec == LRU!Spec

(* Every call returns: "Purge the oldest entries until we have enough      *)
(* space" (lru.go) comes to an end.                                        *)
CallsReturn == \A p \in Processes : pc[p] # "idle" ~> pc[p] = "idle"
=============================================================================

----------------------- MODULE CacheInvalidatorProofs -----------------------
(***************************************************************************)
(* Theorems about CacheInvalidator, for any number of goroutines, queries  *)
(* and keys, for all bounds, and through any number of crashes, panics and *)
(* restarts: whose answers a query is given, and which files are out of    *)
(* the purge's reach.                                                      *)
(***************************************************************************)
EXTENDS CacheInvalidator, SharedLemmas

LEMMA MaxOfBounded ==
  ASSUME NEW n \in Nat, NEW S \in SUBSET (0..n), S # {}
  PROVE  Max(S) \in S
<1>1. PICK m \in S : \A x \in S : x <= m
  <2>1. S \in SUBSET Int /\ n \in Int /\ \A x \in S : x <= n
    OBVIOUS
  <2> QED BY <2>1, GreatestInteger
<1> QED BY <1>1 DEF Max

-----------------------------------------------------------------------------
(* What is kept under a key belongs to a query that has this key.          *)
Owned(k) == {v \in Value : k \in KeysOf[v.query]}
FileOf(k) == {None, Torn} \cup Owned(k)
Held == {e \in [key : Keys, value : Value] : e.value \in Owned(e.key)}

Reading == {"memoryGet", "diskHas", "diskGet", "decode"}

(* The variables whose functions the steps update.                         *)
Shape ==
  /\ pc = [p \in Processes |-> pc[p]]
  /\ call = [p \in Processes |-> call[p]]
  /\ answer = [p \in Processes |-> answer[p]]
  /\ files = [k \in Keys |-> files[k]]
  /\ diskMap = [k \in Keys |-> diskMap[k]]
  /\ edits \in Nat

SetOwnsItsKey(p) ==
  /\ call[p].op = "set" => call[p].key \in Keys /\ call[p].value \in Owned(call[p].key)
  /\ pc[p] \in {"purge", "write"} => call[p].op = "set"

GetOwnsItsKey(p) ==
  /\ pc[p] \in Reading =>
       /\ call[p].query \in Queries /\ call[p].key \in Keys
       /\ call[p].key \in KeysOf[call[p].query]
       /\ answer[p] \in FileOf(call[p].key)
  /\ pc[p] = "decode" => answer[p] # None
  /\ pc[p] \notin Reading => answer[p] = None

StoredUnderOwnKey ==
  /\ memory \in Seq(Held)
  /\ \A k \in Keys : files[k] \in FileOf(k)

OwnInv ==
  /\ Shape
  /\ StoredUnderOwnKey
  /\ \A p \in Processes : SetOwnsItsKey(p) /\ GetOwnsItsKey(p)

LEMMA InitOwn == Init => OwnInv
BY DEF Init, OwnInv, Shape, StoredUnderOwnKey, SetOwnsItsKey, GetOwnsItsKey,
       FileOf, Reading, NoCall

LEMMA KeysOfQueries ==
  \A q \in Queries : \A k \in KeysOf[q] : k \in Keys
BY InvalidatorAssumption DEF InvalidatorAssumption

-----------------------------------------------------------------------------
(* The memory level.                                                       *)
LEMMA PlaceOf ==
  ASSUME NEW k, InMemory(k)
  PROVE  Place(k) \in DOMAIN memory /\ memory[Place(k)].key = k
BY DEF InMemory, Place

LEMMA HeldInMemory ==
  ASSUME memory \in Seq(Held), NEW k, InMemory(k)
  PROVE  /\ memory[Place(k)] \in Held
         /\ k \in Keys /\ memory[Place(k)].value \in Owned(k)
<1>1. memory[Place(k)] \in Held /\ memory[Place(k)].key = k
  BY PlaceOf
<1>2. QED
  BY <1>1 DEF Held

LEMMA MemoryWithoutType ==
  ASSUME memory \in Seq(Held), NEW k
  PROVE  MemoryWithout(k) \in Seq(Held)
BY PlaceOf, RemoveAtType DEF MemoryWithout

LEMMA MemoryWithType ==
  ASSUME memory \in Seq(Held), NEW k \in Keys, NEW value \in Owned(k)
  PROVE  MemoryWith(k, value) \in Seq(Held)
<1> DEFINE rest == MemoryWithout(k)
           room == {i \in 0..Len(rest) :
                      MemoryBytes(SubSeq(rest, 1, i)) + value.size <= MaxMemory}
           e == [key |-> k, value |-> value]
<1>1. rest \in Seq(Held) /\ Len(rest) \in Nat /\ room \in SUBSET (0..Len(rest))
  BY MemoryWithoutType
<1>2. e \in Held
  BY DEF Held, Owned
<1>3. MemoryWith(k, value) = IF room = {} THEN << >>
                             ELSE <<e>> \o SubSeq(rest, 1, Max(room))
  BY DEF MemoryWith
<1> HIDE DEF rest, room, e
<1>4. CASE room = {}
  BY <1>3, <1>4
<1>5. CASE room # {}
  <2>1. Max(room) \in 0..Len(rest)
    BY <1>1, <1>5, MaxOfBounded
  <2>2. SubSeq(rest, 1, Max(room)) \in Seq(Held)
    BY <1>1, <2>1
  <2>3. QED
    BY <1>2, <1>3, <1>5, <2>2
<1>6. QED
  BY <1>4, <1>5

-----------------------------------------------------------------------------
(* The steps of one call.  What each of them has to say of the others is   *)
(* that they keep their call, their point in it and their answer.          *)
LEMMA ReturnOwn ==
  ASSUME OwnInv, NEW p \in Processes, Return(p)
  PROVE  \A x \in Processes : SetOwnsItsKey(x)' /\ GetOwnsItsKey(x)'
BY DEF OwnInv, Shape, SetOwnsItsKey, GetOwnsItsKey, FileOf, Owned, Reading,
       Return, Goto, NoCall

LEMMA SetStep ==
  ASSUME OwnInv, NEW p \in Processes, Set(p)
  PROVE  OwnInv'
<1>0. PICK q \in Queries : \E k \in KeysOf[q], size \in SizesOf[q] :
        LET value == [query |-> q, n |-> edits', size |-> size]
        IN /\ call' = [call EXCEPT ![p] =
                        [op |-> "set", query |-> q, key |-> k, value |-> value]]
           /\ memory' = MemoryWith(k, value)
  BY DEF Set
<1>1. PICK k \in KeysOf[q], size \in SizesOf[q] :
        LET value == [query |-> q, n |-> edits', size |-> size]
        IN /\ call' = [call EXCEPT ![p] =
                        [op |-> "set", query |-> q, key |-> k, value |-> value]]
           /\ memory' = MemoryWith(k, value)
  BY <1>0
<1> DEFINE value == [query |-> q, n |-> edits + 1, size |-> size]
<1>2. edits' = edits + 1 /\ edits + 1 \in 1..MaxEdits
  BY InvalidatorAssumption DEF Set, OwnInv, Shape, InvalidatorAssumption
<1>3. k \in Keys /\ size \in Sizes
  BY KeysOfQueries DEF Sizes
<1>4. value \in Owned(k)
  BY <1>2, <1>3 DEF Value, Owned
<1>5. /\ call' = [call EXCEPT ![p] =
                    [op |-> "set", query |-> q, key |-> k, value |-> value]]
      /\ memory' = MemoryWith(k, value)
  BY <1>1, <1>2
<1> HIDE DEF value
<1>6. memory' \in Seq(Held)
  BY <1>3, <1>4, <1>5, MemoryWithType DEF OwnInv, StoredUnderOwnKey
<1>7. \A x \in Processes : SetOwnsItsKey(x)' /\ GetOwnsItsKey(x)'
  BY <1>3, <1>4, <1>5 DEF Set, Goto, OwnInv, Shape, SetOwnsItsKey,
     GetOwnsItsKey, FileOf, Owned, Reading
<1>8. Shape' /\ StoredUnderOwnKey'
  <2>1. UNCHANGED <<answer, files, diskMap>> /\ Goto(p, "disk")
    BY DEF Set, fileVars, diskVars
  <2>2. edits' \in Nat
    BY <1>2
  <2>3. QED
    BY <1>5, <1>6, <2>1, <2>2 DEF Goto, OwnInv, Shape, StoredUnderOwnKey,
       FileOf, Owned
<1>9. QED
  BY <1>7, <1>8 DEF OwnInv

LEMMA EditStep ==
  ASSUME OwnInv, NEW p \in Processes, Delete(p) \/ Clear(p)
  PROVE  OwnInv'
<1>1. call' = [call EXCEPT ![p] = call'[p]] /\ call'[p].op # "set"
  <2>1. CASE Delete(p)
    <3>1. PICK q \in Deleted : \E k \in KeysOf[q] :
            call' = [call EXCEPT ![p] =
                       [op |-> "delete", query |-> q, key |-> k, value |-> None]]
      BY <2>1 DEF Delete
    <3>2. QED
      BY <3>1 DEF OwnInv, Shape
  <2>2. CASE Clear(p)
    BY <2>2 DEF Clear, OwnInv, Shape
  <2>3. QED
    BY <2>1, <2>2
<1>2. memory' \in Seq(Held)
  <2>1. CASE Delete(p)
    <3>1. PICK q \in Deleted : \E k \in KeysOf[q] : memory' = MemoryWithout(k)
      BY <2>1 DEF Delete
    <3>2. QED
      BY <3>1, MemoryWithoutType DEF OwnInv, StoredUnderOwnKey
  <2>2. CASE Clear(p)
    BY <2>2 DEF Clear
  <2>3. QED
    BY <2>1, <2>2
<1>3. /\ UNCHANGED <<answer, files, diskMap>> /\ edits' = edits + 1
      /\ pc[p] = "idle" /\ (Goto(p, "disk") \/ Goto(p, "list"))
  BY DEF Delete, Clear, fileVars, diskVars
<1>4. \A x \in Processes : SetOwnsItsKey(x)' /\ GetOwnsItsKey(x)'
  BY <1>1, <1>3 DEF Goto, OwnInv, Shape, SetOwnsItsKey, GetOwnsItsKey, FileOf,
     Owned, Reading
<1>5. Shape' /\ StoredUnderOwnKey'
  <2>1. Shape'
    BY <1>1, <1>3 DEF Goto, OwnInv, Shape
  <2>2. StoredUnderOwnKey'
    BY <1>2, <1>3 DEF OwnInv, StoredUnderOwnKey, FileOf, Owned
  <2>3. QED
    BY <2>1, <2>2
<1>6. QED
  BY <1>4, <1>5 DEF OwnInv

LEMMA GetStep ==
  ASSUME OwnInv, NEW p \in Processes,
         Get(p) \/ MemoryGet(p) \/ DiskHas(p) \/ DiskGet(p) \/ Decode(p)
  PROVE  OwnInv'
<1>0. Shape /\ StoredUnderOwnKey
  BY DEF OwnInv
<1>1. CASE Get(p)
  <2>0. PICK q \in Queries : \E k \in KeysOf[q] :
          /\ call' = [call EXCEPT ![p] =
                        [op |-> "get", query |-> q, key |-> k, value |-> None]]
          /\ Goto(p, IF InMemory(k) THEN "memoryGet" ELSE "diskHas")
    BY <1>1 DEF Get
  <2>1. PICK k \in KeysOf[q] :
          /\ call' = [call EXCEPT ![p] =
                        [op |-> "get", query |-> q, key |-> k, value |-> None]]
          /\ Goto(p, IF InMemory(k) THEN "memoryGet" ELSE "diskHas")
    BY <2>0
  <2>2. k \in Keys
    BY KeysOfQueries
  <2>3. \A x \in Processes : SetOwnsItsKey(x)' /\ GetOwnsItsKey(x)'
    BY <1>1, <2>1, <2>2 DEF Get, Goto, OwnInv, Shape, SetOwnsItsKey,
       GetOwnsItsKey, FileOf, Owned, Reading
  <2>4. Shape' /\ StoredUnderOwnKey'
    BY <1>0, <1>1, <2>1 DEF Get, Goto, Shape, StoredUnderOwnKey, FileOf, Owned,
       cacheVars, fileVars, diskVars, lifeVars
  <2>5. QED
    BY <2>3, <2>4 DEF OwnInv
<1>2. CASE MemoryGet(p)
  <2> DEFINE k == call[p].key
  <2>1. CASE InMemory(k)
    <3>1. /\ memory' = <<memory[Place(k)]>> \o MemoryWithout(k)
          /\ answer' = [answer EXCEPT ![p] = memory[Place(k)].value]
          /\ Goto(p, "diskHas") /\ UNCHANGED call
      BY <1>2, <2>1 DEF MemoryGet
    <3>2. memory[Place(k)] \in Held /\ memory[Place(k)].value \in Owned(k)
      BY <1>0, <2>1, HeldInMemory DEF StoredUnderOwnKey
    <3>3. memory' \in Seq(Held)
      BY <1>0, <3>1, <3>2, MemoryWithoutType DEF StoredUnderOwnKey
    <3>4. \A x \in Processes : SetOwnsItsKey(x)' /\ GetOwnsItsKey(x)'
      BY <1>2, <3>1, <3>2 DEF MemoryGet, Goto, OwnInv, Shape, SetOwnsItsKey,
         GetOwnsItsKey, FileOf, Owned, Reading
    <3>5. Shape' /\ StoredUnderOwnKey'
      BY <1>0, <1>2, <3>1, <3>3 DEF MemoryGet, Goto, Shape, StoredUnderOwnKey,
         FileOf, Owned, fileVars, diskVars, lifeVars
    <3>6. QED
      BY <3>4, <3>5 DEF OwnInv
  <2>2. CASE ~ InMemory(k)
    <3>1. Return(p) /\ UNCHANGED <<memory, files, diskMap, edits>>
      BY <1>2, <2>2 DEF MemoryGet, fileVars, diskVars, lifeVars
    <3>2. Shape' /\ StoredUnderOwnKey'
      BY <1>0, <3>1 DEF Return, Goto, Shape, StoredUnderOwnKey, FileOf, Owned
    <3>3. QED
      BY <3>1, <3>2, ReturnOwn DEF OwnInv
  <2>3. QED
    BY <2>1, <2>2
<1>3. CASE DiskHas(p)
  <2>1. UNCHANGED <<memory, files, diskMap, edits>>
    BY <1>3 DEF DiskHas, cacheVars, fileVars, diskVars, lifeVars
  <2>2. CASE Return(p)
    <3>1. Shape' /\ StoredUnderOwnKey'
      BY <1>0, <2>1, <2>2 DEF Return, Goto, Shape, StoredUnderOwnKey, FileOf, Owned
    <3>2. QED
      BY <2>2, <3>1, ReturnOwn DEF OwnInv
  <2>3. CASE /\ \/ Goto(p, "diskGet")
                \/ answer[p] # None /\ Goto(p, "decode")
             /\ pc[p] = "diskHas" /\ UNCHANGED <<call, answer>>
    <3>1. \A x \in Processes : SetOwnsItsKey(x)' /\ GetOwnsItsKey(x)'
      BY <2>3 DEF Goto, OwnInv, Shape, SetOwnsItsKey, GetOwnsItsKey, FileOf,
         Owned, Reading
    <3>2. Shape' /\ StoredUnderOwnKey'
      BY <1>0, <2>1, <2>3 DEF Goto, Shape, StoredUnderOwnKey, FileOf, Owned
    <3>3. QED
      BY <3>1, <3>2 DEF OwnInv
  <2>4. \/ Return(p)
        \/ /\ \/ Goto(p, "diskGet")
              \/ answer[p] # None /\ Goto(p, "decode")
           /\ pc[p] = "diskHas" /\ UNCHANGED <<call, answer>>
    BY <1>3, Zenon DEF DiskHas
  <2>5. QED
    BY <2>2, <2>3, <2>4
<1>4. CASE DiskGet(p)
  <2> DEFINE k == call[p].key
  <2>1. UNCHANGED <<memory, files, diskMap, edits>> /\ pc[p] = "diskGet"
    BY <1>4 DEF DiskGet, fileVars, lifeVars
  <2>2. CASE Return(p)
    <3>1. Shape' /\ StoredUnderOwnKey'
      BY <1>0, <2>1, <2>2 DEF Return, Goto, Shape, StoredUnderOwnKey, FileOf, Owned
    <3>2. QED
      BY <2>2, <3>1, ReturnOwn DEF OwnInv
  <2>3. CASE /\ files[k] # None
             /\ answer' = [answer EXCEPT ![p] = files[k]]
             /\ Goto(p, "decode") /\ UNCHANGED call
    <3>1. k \in Keys /\ files[k] \in FileOf(k)
      BY <1>0, <2>1 DEF OwnInv, StoredUnderOwnKey, GetOwnsItsKey, Reading
    <3>2. \A x \in Processes : SetOwnsItsKey(x)' /\ GetOwnsItsKey(x)'
      BY <2>1, <2>3, <3>1 DEF Goto, OwnInv, Shape, SetOwnsItsKey, GetOwnsItsKey,
         FileOf, Owned, Reading
    <3>3. Shape' /\ StoredUnderOwnKey'
      BY <1>0, <2>1, <2>3 DEF Goto, Shape, StoredUnderOwnKey, FileOf, Owned
    <3>4. QED
      BY <3>2, <3>3 DEF OwnInv
  <2>4. QED
    BY <1>4, <2>2, <2>3 DEF DiskGet
<1>5. CASE Decode(p)
  <2>1. Return(p) /\ UNCHANGED <<memory, files, diskMap, edits>>
    BY <1>5 DEF Decode, cacheVars, fileVars, diskVars, lifeVars
  <2>2. Shape' /\ StoredUnderOwnKey'
    BY <1>0, <2>1 DEF Return, Goto, Shape, StoredUnderOwnKey, FileOf, Owned
  <2>3. QED
    BY <2>1, <2>2, ReturnOwn DEF OwnInv
<1>6. QED
  BY <1>1, <1>2, <1>3, <1>4, <1>5

LEMMA DiskStep ==
  ASSUME OwnInv, NEW p \in Processes,
         \/ DiskDelete(p) \/ PurgeOldest(p) \/ EndPurge(p)
         \/ DiskWrite(p) \/ DiskWriteFails(p)
  PROVE  OwnInv'
<1>0. Shape /\ StoredUnderOwnKey
  BY DEF OwnInv
<1>1. UNCHANGED <<memory, call, answer, edits>>
  BY DEF DiskDelete, PurgeOldest, EndPurge, DiskWrite, DiskWriteFails, callVars,
     lifeVars
<1>2. pc' = [pc EXCEPT ![p] = pc'[p]]
  BY <1>0 DEF DiskDelete, AfterDelete, PurgeOldest, EndPurge, DiskWrite,
     DiskWriteFails, Goto, Shape, callVars
<1>3. /\ pc[p] \in {"disk", "purge", "write"}
      /\ pc'[p] \in {"purge", "write", "count"}
      /\ pc[p] = "disk" /\ pc'[p] # "count" => call[p].op = "set"
  BY <1>0 DEF DiskDelete, AfterDelete, PurgeOldest, EndPurge, DiskWrite,
     DiskWriteFails, Goto, Shape, callVars
<1>4. \A x \in Processes : SetOwnsItsKey(x)' /\ GetOwnsItsKey(x)'
  BY <1>1, <1>2, <1>3 DEF OwnInv, Shape, SetOwnsItsKey, GetOwnsItsKey, FileOf,
     Owned, Reading
<1>5. files' = [k \in Keys |-> files'[k]] /\ \A k \in Keys : files'[k] \in FileOf(k)
  <2>1. CASE DiskWrite(p)
    <3>1. /\ files' = [files EXCEPT ![call[p].key] = call[p].value]
          /\ call[p].value \in Owned(call[p].key)
      BY <2>1 DEF DiskWrite, OwnInv, SetOwnsItsKey
    <3>2. QED
      BY <1>0, <3>1 DEF Shape, StoredUnderOwnKey, FileOf
  <2>2. CASE DiskDelete(p) \/ PurgeOldest(p) \/ EndPurge(p)
    <3>1. UNCHANGED files \/ \E k : files' = [files EXCEPT ![k] = None]
      BY <2>2 DEF DiskDelete, PurgeOldest, EndPurge, fileVars
    <3>2. QED
      BY <1>0, <3>1 DEF Shape, StoredUnderOwnKey, FileOf
  <2>3. CASE DiskWriteFails(p)
    <3>1. \/ UNCHANGED files
          \/ \E left \in {None, files[call[p].key]} :
               files' = [files EXCEPT ![call[p].key] = left]
      BY <2>3 DEF DiskWriteFails
    <3>2. QED
      BY <1>0, <3>1 DEF Shape, StoredUnderOwnKey, FileOf
  <2>4. QED
    BY <2>1, <2>2, <2>3
<1>6. StoredUnderOwnKey'
  BY <1>0, <1>1, <1>5 DEF StoredUnderOwnKey, FileOf, Owned
<1>7. diskMap' = [k \in Keys |-> diskMap'[k]]
  BY <1>0 DEF DiskDelete, PurgeOldest, EndPurge, DiskWrite, DiskWriteFails,
     Unlist, diskVars, Shape
<1>8. QED
  BY <1>0, <1>1, <1>2, <1>4, <1>5, <1>6, <1>7 DEF OwnInv, Shape

LEMMA CountStep ==
  ASSUME OwnInv, NEW p \in Processes,
         \/ ReadCounter(p) \/ Increment(p) \/ Compare(p) \/ Reset(p)
         \/ ClearDiskList(p) \/ EraseAll(p)
  PROVE  OwnInv'
<1>0. Shape /\ StoredUnderOwnKey
  BY DEF OwnInv
<1>1. UNCHANGED <<memory, edits>> /\ pc[p] \notin Reading
  BY DEF ReadCounter, Increment, Compare, Reset, ClearDiskList, EraseAll,
     cacheVars, lifeVars, Reading
<1>2. \/ Return(p)
      \/ /\ \/ Goto(p, "increment") \/ Goto(p, "compare")
            \/ Goto(p, "reset") \/ Goto(p, "eraseAll")
         /\ UNCHANGED <<call, answer>>
  BY DEF ReadCounter, Increment, Compare, Reset, ClearDiskList, EraseAll
<1>3. \A x \in Processes : SetOwnsItsKey(x)' /\ GetOwnsItsKey(x)'
  <2>1. CASE Return(p)
    BY <2>1, ReturnOwn
  <2>2. CASE ~ Return(p)
    BY <1>1, <1>2, <2>2 DEF Goto, OwnInv, Shape, SetOwnsItsKey, GetOwnsItsKey,
       FileOf, Owned, Reading
  <2>3. QED
    BY <2>1, <2>2
<1>4. /\ files' \in {files, [k \in Keys |-> None]}
      /\ diskMap' \in {diskMap, [k \in Keys |-> None]}
  BY DEF ReadCounter, Increment, Compare, Reset, ClearDiskList, EraseAll,
     cacheVars, fileVars, diskVars
<1>5. StoredUnderOwnKey'
  BY <1>0, <1>1, <1>4 DEF StoredUnderOwnKey, FileOf, Owned
<1>6. Shape'
  BY <1>0, <1>1, <1>2, <1>4 DEF Shape, Return, Goto
<1>7. QED
  BY <1>3, <1>5, <1>6 DEF OwnInv

-----------------------------------------------------------------------------
(* A crash leaves the files that were there, half of one that was being    *)
(* written, all of it, or nothing.                                         *)
LEMMA RemainsOwned ==
  ASSUME OwnInv, NEW k \in Keys
  PROVE  Remains(k) \subseteq FileOf(k)
<1> SUFFICES ASSUME NEW v \in Remains(k), v # None, v # Torn, v # files[k]
             PROVE  v \in Owned(k)
  BY DEF OwnInv, StoredUnderOwnKey, FileOf
<1>1. PICK p \in Writing(k) : v = call[p].value
  BY DEF Remains
<1>2. p \in Processes /\ pc[p] = "write" /\ call[p].key = k
  BY DEF Writing
<1>3. QED
  BY <1>1, <1>2 DEF OwnInv, SetOwnsItsKey

LEMMA DieStep ==
  ASSUME OwnInv, Die
  PROVE  OwnInv'
<1>1. PICK left \in [Unsure -> UNION {Remains(k) : k \in Unsure}] :
        /\ \A k \in Unsure : left[k] \in Remains(k)
        /\ files' = [k \in Keys |-> IF k \in Unsure THEN left[k] ELSE files[k]]
  BY DEF Die
<1>2. ASSUME NEW k \in Keys PROVE files'[k] \in FileOf(k)
  <2>1. CASE k \in Unsure
    BY <1>1, <2>1, RemainsOwned
  <2>2. CASE k \notin Unsure
    BY <1>1, <2>2 DEF OwnInv, StoredUnderOwnKey
  <2>3. QED
    BY <2>1, <2>2
<1>3. /\ memory' = << >> /\ diskMap' = [k \in Keys |-> None]
      /\ pc' = [p \in Processes |-> "idle"]
      /\ call' = [p \in Processes |-> NoCall]
      /\ answer' = [p \in Processes |-> None] /\ UNCHANGED edits
  BY DEF Die
<1>4. StoredUnderOwnKey'
  BY <1>2, <1>3 DEF StoredUnderOwnKey, FileOf, Owned
<1>5. Shape'
  BY <1>1, <1>3 DEF Shape, OwnInv
<1>6. \A p \in Processes : SetOwnsItsKey(p)' /\ GetOwnsItsKey(p)'
  BY <1>3 DEF SetOwnsItsKey, GetOwnsItsKey, Reading, NoCall
<1>7. QED
  BY <1>4, <1>5, <1>6 DEF OwnInv

LEMMA KeepOwn ==
  ASSUME OwnInv, UNCHANGED <<memory, files, pc, call, answer, edits>>,
         diskMap' = [k \in Keys |-> diskMap'[k]]
  PROVE  OwnInv'
BY DEF OwnInv, Shape, StoredUnderOwnKey, SetOwnsItsKey, GetOwnsItsKey, FileOf,
       Owned, Reading

LEMMA OwnStep == OwnInv /\ [Next]_vars => OwnInv'
<1> SUFFICES ASSUME OwnInv, [Next]_vars PROVE OwnInv'
  OBVIOUS
<1>1. ASSUME NEW p \in Processes, Begin(p) \/ Continue(p) PROVE OwnInv'
  BY <1>1, SetStep, EditStep, GetStep, DiskStep, CountStep DEF Begin, Continue
<1>2. CASE OpenIndex \/ CreateIndex \/ WalkOn \/ WriteIndex
  <2>1. UNCHANGED <<memory, files, diskMap, pc, call, answer, edits>>
    BY <1>2 DEF OpenIndex, CreateIndex, WalkOn, WriteIndex, cacheVars, fileVars,
       diskVars, callVars, lifeVars
  <2>2. QED
    BY <2>1, KeepOwn DEF OwnInv, Shape
<1>3. CASE CreateFails \/ Interrupt
  BY <1>3, DieStep DEF CreateFails, Interrupt
<1>4. CASE Launch
  <2>1. UNCHANGED <<memory, files, pc, call, answer, edits>>
    BY <1>4 DEF Launch, fileVars, callVars
  <2>2. diskMap' = [k \in Keys |-> diskMap'[k]]
    BY <1>4 DEF Launch
  <2>3. QED
    BY <2>1, <2>2, KeepOwn
<1>5. CASE UNCHANGED vars
  <2>1. UNCHANGED <<memory, files, diskMap, pc, call, answer, edits>>
    BY <1>5 DEF vars, cacheVars, fileVars, diskVars, callVars, lifeVars
  <2>2. QED
    BY <2>1, KeepOwn DEF OwnInv, Shape
<1>6. QED
  BY <1>1, <1>2, <1>3, <1>4, <1>5 DEF Next, Save

LEMMA AlwaysOwn == Spec => []OwnInv
BY InitOwn, OwnStep, PTL DEF Spec

(* What a Get decodes, out of either level and after any crash, was stored *)
(* as the answer to a query that may have the key asked for, whatever keys *)
(* getCacheKey's texts give to several queries and whatever several keys   *)
(* to one: the levels, the files and the index add no confusion of keys of *)
(* their own.                                                              *)
AnswerHasKey ==
  \A p \in Processes :
    pc[p] = "decode" /\ answer[p] # Torn =>
      /\ answer[p].query \in Queries
      /\ call[p].key \in KeysOf[answer[p].query]

THEOREM AnswersUnderTheirKey == Spec => []AnswerHasKey
<1>1. OwnInv => AnswerHasKey
  <2> SUFFICES ASSUME OwnInv, NEW p \in Processes, pc[p] = "decode", answer[p] # Torn
               PROVE  /\ answer[p].query \in Queries
                      /\ call[p].key \in KeysOf[answer[p].query]
    BY DEF AnswerHasKey
  <2>1. answer[p] \in Owned(call[p].key)
    BY DEF OwnInv, GetOwnsItsKey, Reading, FileOf
  <2> QED BY <2>1 DEF Owned, Value
<1>2. QED
  BY <1>1, AlwaysOwn, PTL

-----------------------------------------------------------------------------
(* Files out of the purge's reach.  A step that takes a key's element away *)
(* takes its file, too, and the one that writes the file pushes an element.*)
KeptOrErased ==
  \A k \in Keys : \/ files'[k] = None
                 \/ /\ files'[k] = files[k]
                    /\ diskMap'[k] = diskMap[k]

LEMMA ReachKept ==
  ASSUME OnlyLeftoversUnlisted, UNCHANGED <<up, leftovers>>,
         KeptOrErased,
         \A p \in Processes : pc[p] = "eraseAll" => pc'[p] = "eraseAll"
  PROVE  OnlyLeftoversUnlisted'
BY DEF OnlyLeftoversUnlisted, Erasing, KeptOrErased

LEMMA UnlistReach ==
  ASSUME OwnInv, NEW k, Unlist(k), files' = [files EXCEPT ![k] = None]
  PROVE  KeptOrErased
BY DEF OwnInv, Shape, Unlist, diskVars, KeptOrErased

LEMMA ReachStep ==
  ASSUME OwnInv, OwnInv', OnlyLeftoversUnlisted, NEW p \in Processes,
         Begin(p) \/ Continue(p)
  PROVE  OnlyLeftoversUnlisted'
<1>0. UNCHANGED <<up, leftovers>>
  BY DEF Begin, Continue, Set, Delete, Get, Clear, DiskDelete, PurgeOldest,
     EndPurge, DiskWrite, DiskWriteFails, ReadCounter, Increment, Compare, Reset,
     MemoryGet, DiskHas, DiskGet, Decode, ClearDiskList, EraseAll, lifeVars
<1>1. CASE ClearDiskList(p)
  BY <1>1 DEF ClearDiskList, Goto, OwnInv, Shape, OnlyLeftoversUnlisted, Erasing
<1>2. CASE EraseAll(p)
  BY <1>2 DEF EraseAll, OnlyLeftoversUnlisted, Erasing
<1>3. CASE ~ EraseAll(p) /\ ~ ClearDiskList(p)
  <2>1. pc[p] # "eraseAll" /\ pc' = [pc EXCEPT ![p] = pc'[p]]
    BY <1>3 DEF OwnInv, Shape, Begin, Continue, Set, Delete, Get, Clear,
       DiskDelete, AfterDelete, PurgeOldest, EndPurge, DiskWrite, DiskWriteFails,
       ReadCounter, Increment, Compare, Reset, MemoryGet, DiskHas, DiskGet,
       Decode, Return, Goto, callVars
  <2>2. \A x \in Processes : pc[x] = "eraseAll" => pc'[x] = "eraseAll"
    BY <2>1 DEF OwnInv, Shape
  <2>3. CASE DiskWrite(p)
    <3> DEFINE k == call[p].key
               e == [key |-> k, size |-> call[p].value.size, id |-> call[p].value.n]
    <3>1. k \in Keys /\ call[p].value \in Value
      BY <2>3 DEF DiskWrite, OwnInv, SetOwnsItsKey, Owned
    <3>2. call[p].value.size \in Sizes /\ call[p].value.n \in Int
      BY <3>1, InvalidatorAssumption DEF Value, InvalidatorAssumption
    <3>3. e # None
      BY <3>1, <3>2, InvalidatorAssumption DEF InvalidatorAssumption
    <3>4. /\ files' = [files EXCEPT ![k] = call[p].value]
          /\ diskMap' = [diskMap EXCEPT ![k] = e]
      BY <2>3 DEF DiskWrite
    <3> HIDE DEF e
    <3>5. QED
      BY <1>0, <2>2, <3>1, <3>3, <3>4 DEF OwnInv, Shape, OnlyLeftoversUnlisted, Erasing
  <2>4. CASE DiskDelete(p) \/ PurgeOldest(p)
    <3>1. \/ UNCHANGED <<files, diskMap>>
          \/ \E k : Unlist(k) /\ files' = [files EXCEPT ![k] = None]
      BY <2>4 DEF DiskDelete, PurgeOldest, diskVars
    <3>2. UNCHANGED <<files, diskMap>> => KeptOrErased
      BY DEF KeptOrErased
    <3>3. KeptOrErased
      BY <3>1, <3>2, UnlistReach
    <3>4. QED
      BY <1>0, <2>2, <3>3, ReachKept
  <2>5. CASE DiskWriteFails(p)
    <3>1. KeptOrErased
      BY <2>5 DEF DiskWriteFails, OwnInv, Shape, KeptOrErased
    <3>2. QED
      BY <1>0, <2>2, <3>1, ReachKept
  <2>6. CASE ~ (DiskWrite(p) \/ DiskDelete(p) \/ PurgeOldest(p) \/ DiskWriteFails(p))
    <3>1. UNCHANGED <<files, diskMap>>
      BY <1>3, <2>6 DEF Begin, Continue, Set, Delete, Get, Clear, EndPurge,
         ReadCounter, Increment, Compare, Reset, MemoryGet, DiskHas, DiskGet,
         Decode, cacheVars, fileVars, diskVars
    <3>2. QED
      BY <1>0, <2>2, <3>1, ReachKept DEF KeptOrErased
  <2>7. QED
    BY <2>3, <2>4, <2>5, <2>6
<1>4. QED
  BY <1>1, <1>2, <1>3

LEMMA UnlistedStep ==
  OwnInv /\ OwnInv' /\ OnlyLeftoversUnlisted /\ [Next]_vars => OnlyLeftoversUnlisted'
<1> SUFFICES ASSUME OwnInv, OwnInv', OnlyLeftoversUnlisted, [Next]_vars
             PROVE  OnlyLeftoversUnlisted'
  OBVIOUS
<1>1. ASSUME NEW p \in Processes, Begin(p) \/ Continue(p)
      PROVE  OnlyLeftoversUnlisted'
  BY <1>1, ReachStep
<1>2. CASE OpenIndex \/ CreateIndex \/ WalkOn \/ WriteIndex \/ UNCHANGED vars
  <2>1. UNCHANGED <<files, diskMap, pc, up, leftovers>>
    BY <1>2 DEF OpenIndex, CreateIndex, WalkOn, WriteIndex, vars, cacheVars,
       fileVars, diskVars, callVars, lifeVars
  <2>2. QED
    BY <2>1, ReachKept DEF KeptOrErased
<1>3. CASE CreateFails \/ Interrupt
  BY <1>3 DEF CreateFails, Interrupt, Die, OnlyLeftoversUnlisted, Erasing
<1>4. CASE Launch
  <2>1. /\ UNCHANGED files
        /\ leftovers' = {files[k] : k \in {x \in Keys : diskMap'[x] = None}} \ {None}
    BY <1>4 DEF Launch, fileVars
  <2>2. QED
    BY <2>1 DEF OnlyLeftoversUnlisted, Erasing
<1>5. QED
  BY <1>1, <1>2, <1>3, <1>4 DEF Next, Save

(* A file that no element stands for was found by the launch and missing   *)
(* from the index, or a Clear is about to erase it                         *)
(* (OnlyLeftoversUnlisted): whatever calls overlap, fail or break off, the *)
(* process puts no file out of reach of its own purge.                     *)
THEOREM NoFileOutOfReach == Spec => []OnlyLeftoversUnlisted
<1>1. Init => OnlyLeftoversUnlisted
  BY DEF Init, OnlyLeftoversUnlisted, Erasing
<1>2. QED
  BY <1>1, AlwaysOwn, UnlistedStep, PTL DEF Spec

-----------------------------------------------------------------------------
(* The counter of edits.  Goroutines overwrite each other's increments, and *)
(* the one that has written last has yet to compare.                       *)
CounterInv ==
  /\ pc = [p \in Processes |-> pc[p]]
  /\ operationCounter \in Nat
  /\ seen \in [Processes -> Nat]
  /\ SaveNotOverdue

LEMMA CounterKept ==
  ASSUME CounterInv, UNCHANGED <<operationCounter, seen>>,
         NEW p \in Processes, pc[p] \notin {"compare", "reset"},
         pc' = [pc EXCEPT ![p] = pc'[p]]
  PROVE  CounterInv'
BY DEF CounterInv, SaveNotOverdue

LEMMA CounterCallStep ==
  ASSUME CounterInv, NEW p \in Processes, Begin(p) \/ Continue(p)
  PROVE  CounterInv'
<1>0. SaveInterval \in Nat \ {0}
  BY InvalidatorAssumption DEF InvalidatorAssumption
<1>1. CASE ReadCounter(p)
  <2>1. /\ UNCHANGED operationCounter /\ pc[p] = "count"
        /\ seen' = [seen EXCEPT ![p] = operationCounter] /\ Goto(p, "increment")
    BY <1>1 DEF ReadCounter
  <2>2. QED
    BY <2>1 DEF Goto, CounterInv, SaveNotOverdue
<1>2. CASE Increment(p)
  <2>1. /\ operationCounter' = seen[p] + 1 /\ Goto(p, "compare")
        /\ seen' = [seen EXCEPT ![p] = 0]
    BY <1>2 DEF Increment
  <2>2. QED
    BY <2>1 DEF Goto, CounterInv, SaveNotOverdue
<1>3. CASE Compare(p)
  <2>1. UNCHANGED <<operationCounter, seen>>
    BY <1>3 DEF Compare, saveVars
  <2>2. CASE operationCounter < SaveInterval
    BY <1>0, <1>3, <2>1, <2>2 DEF Compare, Return, Goto, CounterInv, SaveNotOverdue
  <2>3. CASE ~ (operationCounter < SaveInterval)
    BY <1>3, <2>1, <2>3 DEF Compare, Goto, CounterInv, SaveNotOverdue
  <2>4. QED
    BY <2>2, <2>3
<1>4. CASE Reset(p)
  BY <1>0, <1>4 DEF Reset, Return, Goto, CounterInv, SaveNotOverdue
<1>5. CASE ~ (ReadCounter(p) \/ Increment(p) \/ Compare(p) \/ Reset(p))
  <2>1. UNCHANGED <<operationCounter, seen>> /\ pc[p] \notin {"compare", "reset"}
    BY <1>5 DEF Begin, Continue, Set, Delete, Get, Clear, DiskDelete, PurgeOldest,
       EndPurge, DiskWrite, DiskWriteFails, MemoryGet, DiskHas, DiskGet, Decode,
       ClearDiskList, EraseAll, saveVars
  <2>2. pc' = [pc EXCEPT ![p] = pc'[p]]
    BY <1>5 DEF CounterInv, Begin, Continue, Set, Delete, Get, Clear, DiskDelete,
       AfterDelete, PurgeOldest, EndPurge, DiskWrite, DiskWriteFails, MemoryGet,
       DiskHas, DiskGet, Decode, ClearDiskList, EraseAll, Return, Goto, callVars
  <2>3. QED
    BY <2>1, <2>2, CounterKept
<1>6. QED
  BY <1>1, <1>2, <1>3, <1>4, <1>5

(* Whatever increments goroutines lose to each other, the counter stays at *)
(* saveInterval only while one of them is about to save (SaveNotOverdue).  *)
THEOREM SaveIsDue == Spec => []SaveNotOverdue
<1>0. SaveInterval \in Nat \ {0}
  BY InvalidatorAssumption DEF InvalidatorAssumption
<1>1. Init => CounterInv
  BY <1>0 DEF Init, CounterInv, SaveNotOverdue
<1>2. CounterInv /\ [Next]_vars => CounterInv'
  <2> SUFFICES ASSUME CounterInv, [Next]_vars PROVE CounterInv'
    OBVIOUS
  <2>1. ASSUME NEW p \in Processes, Begin(p) \/ Continue(p) PROVE CounterInv'
    BY <2>1, CounterCallStep
  <2>2. CASE \/ OpenIndex \/ CreateIndex \/ WalkOn \/ WriteIndex
             \/ Launch \/ UNCHANGED vars
    <3>1. UNCHANGED <<operationCounter, seen, pc>>
      BY <2>2 DEF OpenIndex, CreateIndex, WalkOn, WriteIndex, Launch, vars,
         saveVars, callVars
    <3>2. QED
      BY <3>1 DEF CounterInv, SaveNotOverdue
  <2>3. CASE CreateFails \/ Interrupt
    BY <1>0, <2>3 DEF CreateFails, Interrupt, Die, CounterInv, SaveNotOverdue
  <2>4. QED
    BY <2>1, <2>2, <2>3 DEF Next, Save
<1>3. CounterInv => SaveNotOverdue
  BY DEF CounterInv
<1>4. QED
  BY <1>1, <1>2, <1>3, PTL DEF Spec

-----------------------------------------------------------------------------
(* Types.  A call's point is one that a call of its kind comes to.         *)
Points(p) ==
  /\ pc[p] = "idle" <=> call[p].op = "none"
  /\ pc[p] \in Reading <=> call[p].op = "get"
  /\ pc[p] \in {"list", "eraseAll"} <=> call[p].op = "clear"
  /\ pc[p] = "disk" => call[p].op \in {"set", "delete"}

CallTypes ==
  /\ up \in BOOLEAN
  /\ pc \in [Processes -> Labels] /\ call \in [Processes -> Call]
  /\ \A p \in Processes : Points(p)

DiskTypes ==
  /\ diskList \in Seq(Element)
  /\ diskMap \in [Keys -> Element \cup {None}]
  /\ diskSize \in Int
  /\ diskLock \in Processes \cup {None}
  /\ folder \in BOOLEAN

SaveTypes ==
  /\ index \in Seq(Entry) \cup {None}
  /\ operationCounter \in Nat /\ waiting \in Nat
  /\ writer \in [mode : {"idle", "new", "unlinked"}, at : Element \cup {None},
                 old : Seq(Element) \cup {None}, entries : Seq(Entry)]
  /\ seen \in [Processes -> Nat]

TypeInv == OwnInv /\ CallTypes /\ DiskTypes /\ SaveTypes

LEMMA TypesOk == TypeInv => TypeOK
<1> SUFFICES ASSUME TypeInv PROVE TypeOK
  OBVIOUS
<1>1. memory \in Seq([key : Keys, value : Value])
  <2>1. Held \subseteq [key : Keys, value : Value]
    BY DEF Held
  <2>2. PICK T : T = [key : Keys, value : Value]
    OBVIOUS
  <2>3. memory \in Seq(Held)
    BY DEF TypeInv, OwnInv, StoredUnderOwnKey
  <2> HIDE DEF Held
  <2>4. memory \in Seq(T)
    BY <2>1, <2>2, <2>3, SeqMonotonic
  <2> QED BY <2>2, <2>4
<1>2. files \in [Keys -> Value \cup {None, Torn}]
  BY DEF TypeInv, OwnInv, Shape, StoredUnderOwnKey, FileOf, Owned
<1>3. /\ answer \in [Processes -> Value \cup {None, Torn}]
      /\ \A p \in Processes : pc[p] = "decode" => answer[p] # None
  <2>1. \A p \in Processes : answer[p] \in Value \cup {None, Torn}
    BY DEF TypeInv, OwnInv, GetOwnsItsKey, FileOf, Owned
  <2> QED BY <2>1 DEF TypeInv, OwnInv, Shape, GetOwnsItsKey
<1> QED BY <1>1, <1>2, <1>3 DEF TypeInv, CallTypes, DiskTypes, SaveTypes, TypeOK

LEMMA SizesAreNumbers == \A n \in Sizes : n \in Nat /\ n > 0 /\ n \in Int
<1>1. \A q \in Queries : SizesOf[q] \subseteq Nat \ {0}
  BY InvalidatorAssumption DEF InvalidatorAssumption
<1> QED BY <1>1 DEF Sizes

LEMMA ElementIsSome == \A e \in Element : e # None /\ e.key \in Keys /\ e.size \in Int
BY SizesAreNumbers, InvalidatorAssumption DEF Element, InvalidatorAssumption

LEMMA SizesAreNat == \A e \in Element : e.size \in Nat
BY SizesAreNumbers DEF Element

(* The call of a process, by its kind.                                     *)
LEMMA CallKinds ==
  ASSUME call \in [Processes -> Call], NEW p \in Processes
  PROVE  /\ call[p].op \in {"none", "get", "delete", "set", "clear"}
         /\ call[p].op \in {"get", "delete", "set"} => call[p].query \in Queries /\ call[p].key \in Keys
         /\ call[p].op = "set" => call[p].value \in Value /\ call[p].value.size \in Nat
BY SizesAreNumbers DEF Call, NoCall, Value

LEMMA NewCallTypes ==
  ASSUME TypeInv, NEW p \in Processes, Begin(p)
  PROVE  CallTypes'
<1>1. /\ pc \in [Processes -> Labels] /\ call \in [Processes -> Call] /\ up \in BOOLEAN
      /\ \A x \in Processes : Points(x)
  BY DEF TypeInv, CallTypes
<1>2. \A x \in Processes : x # p => pc'[x] = pc[x] /\ call'[x] = call[x]
  BY <1>1 DEF Begin, Set, Delete, Get, Clear, Goto
<1>3. pc' \in [Processes -> Labels] /\ up' = up
  BY <1>1 DEF Begin, Set, Delete, Get, Clear, Goto, Labels, lifeVars
<1>4. call' \in [Processes -> Call] /\ Points(p)'
  <2>1. CASE Set(p)
    <3>1. PICK q \in Queries : \E k \in KeysOf[q], size \in SizesOf[q] :
            LET value == [query |-> q, n |-> edits', size |-> size]
            IN /\ call' = [call EXCEPT ![p] = [op |-> "set", query |-> q, key |-> k, value |-> value]]
               /\ memory' = MemoryWith(k, value)
      BY <2>1 DEF Set
    <3>2. PICK k \in KeysOf[q], size \in SizesOf[q] :
            LET value == [query |-> q, n |-> edits', size |-> size]
            IN /\ call' = [call EXCEPT ![p] = [op |-> "set", query |-> q, key |-> k, value |-> value]]
               /\ memory' = MemoryWith(k, value)
      BY <3>1
    <3>3. k \in Keys /\ size \in Sizes /\ edits' \in 1..MaxEdits
      BY <2>1, KeysOfQueries, InvalidatorAssumption
         DEF Sizes, Set, TypeInv, OwnInv, Shape, InvalidatorAssumption
    <3>4. [op |-> "set", query |-> q, key |-> k,
             value |-> [query |-> q, n |-> edits', size |-> size]] \in Call
      BY <3>3 DEF Call, Value
    <3> QED BY <1>1, <2>1, <3>2, <3>4 DEF Set, Goto, Points, Reading
  <2>2. CASE Delete(p)
    <3>1. PICK q \in Deleted : \E k \in KeysOf[q] :
            call' = [call EXCEPT ![p] = [op |-> "delete", query |-> q, key |-> k, value |-> None]]
      BY <2>2 DEF Delete
    <3>2. PICK k \in KeysOf[q] :
            call' = [call EXCEPT ![p] = [op |-> "delete", query |-> q, key |-> k, value |-> None]]
      BY <3>1
    <3>3. q \in Queries /\ k \in Keys
      BY KeysOfQueries, InvalidatorAssumption DEF InvalidatorAssumption
    <3> QED BY <1>1, <2>2, <3>2, <3>3 DEF Delete, Goto, Points, Reading, Call
  <2>3. CASE Get(p)
    <3>1. PICK q \in Queries : \E k \in KeysOf[q] :
            call' = [call EXCEPT ![p] = [op |-> "get", query |-> q, key |-> k, value |-> None]]
      BY <2>3 DEF Get
    <3>2. PICK k \in KeysOf[q] :
            call' = [call EXCEPT ![p] = [op |-> "get", query |-> q, key |-> k, value |-> None]]
      BY <3>1
    <3>3. k \in Keys
      BY KeysOfQueries
    <3>4. pc'[p] \in {"memoryGet", "diskHas"}
      BY <1>1, <2>3 DEF Get, Goto
    <3> QED BY <1>1, <3>2, <3>3, <3>4 DEF Points, Reading, Call
  <2>4. CASE Clear(p)
    BY <1>1, <2>4 DEF Clear, Goto, Points, Reading, Call
  <2> QED BY <2>1, <2>2, <2>3, <2>4 DEF Begin
<1> QED BY <1>1, <1>2, <1>3, <1>4 DEF CallTypes, Points

LEMMA CallOnTypes ==
  ASSUME TypeInv, NEW p \in Processes, Continue(p)
  PROVE  CallTypes'
<1>1. /\ pc \in [Processes -> Labels] /\ call \in [Processes -> Call] /\ up \in BOOLEAN
      /\ \A x \in Processes : Points(x)
  BY DEF TypeInv, CallTypes
<1>2. up' = up
  BY DEF Continue, DiskDelete, PurgeOldest, EndPurge, DiskWrite, DiskWriteFails, ReadCounter,
     Increment, Compare, Reset, MemoryGet, DiskHas, DiskGet, Decode, ClearDiskList, EraseAll, lifeVars
<1>3. CASE Return(p)
  BY <1>1, <1>2, <1>3 DEF Return, Goto, CallTypes, Points, Reading, Labels, Call, NoCall
<1>4. CASE UNCHANGED <<pc, call>>
  BY <1>1, <1>2, <1>4 DEF CallTypes, Points
<1>5. CASE /\ UNCHANGED call /\ Goto(p, pc'[p])
           /\ \/ /\ pc[p] \in {"disk", "purge", "write", "count", "increment", "compare"}
                 /\ pc'[p] \in {"purge", "write", "count", "increment", "compare", "reset"}
              \/ pc[p] \in Reading /\ pc'[p] \in Reading
              \/ pc[p] = "list" /\ pc'[p] = "eraseAll"
  BY <1>1, <1>2, <1>5 DEF Goto, CallTypes, Points, Reading, Labels
<1>6. \/ Return(p) \/ UNCHANGED <<pc, call>>
      \/ /\ UNCHANGED call /\ Goto(p, pc'[p])
         /\ \/ /\ pc[p] \in {"disk", "purge", "write", "count", "increment", "compare"}
               /\ pc'[p] \in {"purge", "write", "count", "increment", "compare", "reset"}
            \/ pc[p] \in Reading /\ pc'[p] \in Reading
            \/ pc[p] = "list" /\ pc'[p] = "eraseAll"
  <2>1. \A label : Goto(p, label) => pc'[p] = label
    BY <1>1 DEF Goto
  <2>2. CASE DiskDelete(p) \/ EndPurge(p) \/ DiskWrite(p) \/ DiskWriteFails(p)
             \/ ReadCounter(p) \/ Increment(p)
    BY <2>1, <2>2 DEF DiskDelete, AfterDelete, EndPurge, DiskWrite, DiskWriteFails,
       ReadCounter, Increment
  <2>3. CASE PurgeOldest(p) \/ Reset(p) \/ Decode(p) \/ EraseAll(p)
    BY <2>3 DEF PurgeOldest, Reset, Decode, EraseAll, callVars
  <2>4. CASE Compare(p)
    BY <2>1, <2>4 DEF Compare
  <2>5. CASE MemoryGet(p) \/ DiskGet(p)
    BY <2>1, <2>5 DEF MemoryGet, DiskGet, Reading
  <2>6. CASE DiskHas(p)
    <3>1. \/ Return(p)
          \/ (Goto(p, "diskGet") \/ Goto(p, "decode")) /\ UNCHANGED call /\ pc[p] = "diskHas"
      BY <2>6, Zenon DEF DiskHas
    <3> QED BY <2>1, <3>1 DEF Reading
  <2>7. CASE ClearDiskList(p)
    BY <2>1, <2>7 DEF ClearDiskList
  <2> QED BY <2>2, <2>3, <2>4, <2>5, <2>6, <2>7 DEF Continue
<1> QED BY <1>3, <1>4, <1>5, <1>6

LEMMA DiskWithoutType ==
  ASSUME DiskTypes, NEW e
  PROVE  ListWithout(e) \in Seq(Element)
<1>1. CASE e \in ToSet(diskList)
  <2>1. Position(e) \in DOMAIN diskList
    BY <1>1 DEF Position, ToSet
  <2> QED BY <1>1, <2>1, RemoveAtType DEF DiskTypes, ListWithout
<1>2. CASE e \notin ToSet(diskList)
  BY <1>2 DEF DiskTypes, ListWithout
<1> QED BY <1>1, <1>2

LEMMA UnlistTypes ==
  ASSUME DiskTypes, NEW k \in Keys, Unlist(k)
  PROVE  /\ diskList' \in Seq(Element) /\ diskMap' \in [Keys -> Element \cup {None}]
         /\ diskSize' \in Int
<1>1. CASE diskMap[k] = None
  BY <1>1 DEF Unlist, diskVars, DiskTypes
<1>2. CASE diskMap[k] # None
  <2>1. diskMap[k] \in Element /\ diskMap[k].size \in Int
    BY <1>2, ElementIsSome DEF DiskTypes
  <2> QED BY <1>2, <2>1, DiskWithoutType DEF Unlist, DiskTypes
<1> QED BY <1>1, <1>2

LEMMA PushType ==
  ASSUME NEW S, NEW s \in Seq(S), NEW e \in S
  PROVE  <<e>> \o s \in Seq(S)
OBVIOUS

LEMMA DiskCallTypes ==
  ASSUME TypeInv, NEW p \in Processes, Begin(p) \/ Continue(p)
  PROVE  DiskTypes'
<1>1. /\ diskList \in Seq(Element) /\ diskMap \in [Keys -> Element \cup {None}]
      /\ diskSize \in Int /\ diskLock \in Processes \cup {None} /\ folder \in BOOLEAN
      /\ DiskTypes
  BY DEF TypeInv, DiskTypes
<1>2. call \in [Processes -> Call] /\ Points(p)
  BY DEF TypeInv, CallTypes
<1>3. CASE DiskDelete(p)
  <2>1. call[p].key \in Keys
    BY <1>2, <1>3, CallKinds DEF Points, DiskDelete
  <2>2. UNCHANGED diskVars \/ Unlist(call[p].key)
    BY <1>3 DEF DiskDelete, diskVars
  <2>3. UNCHANGED folder /\ diskLock' \in {p, diskLock}
    BY <1>3 DEF DiskDelete, AfterDelete
  <2> QED BY <1>1, <2>1, <2>2, <2>3, UnlistTypes DEF DiskTypes, diskVars
<1>4. CASE PurgeOldest(p)
  <2>1. Last(diskList) \in Element
    BY <1>1, <1>4 DEF PurgeOldest, Last
  <2>2. Last(diskList).key \in Keys /\ Unlist(Last(diskList).key)
    BY <1>4, <2>1, ElementIsSome DEF PurgeOldest
  <2>3. UNCHANGED <<folder, diskLock>>
    BY <1>4 DEF PurgeOldest
  <2> QED BY <1>1, <2>2, <2>3, UnlistTypes DEF DiskTypes
<1>5. CASE EndPurge(p) \/ DiskWriteFails(p)
  <2>1. call[p].op = "set"
    BY <1>5 DEF EndPurge, DiskWriteFails, TypeInv, OwnInv, SetOwnsItsKey
  <2>2. call[p].value.size \in Nat
    BY <1>2, <2>1, CallKinds
  <2>3. UNCHANGED <<diskList, diskMap>> /\ diskLock' \in {None, diskLock} /\ folder' \in {folder, TRUE}
    BY <1>5 DEF EndPurge, DiskWriteFails, fileVars
  <2>4. diskSize' \in Int
    <3>1. CASE EndPurge(p)
      <4>1. diskSize' = diskSize + (IF Full(p) THEN 0 ELSE call[p].value.size)
        BY <3>1 DEF EndPurge
      <4> QED BY <1>1, <2>2, <4>1
    <3>2. CASE DiskWriteFails(p)
      <4>1. diskSize' = diskSize - call[p].value.size
        BY <3>2 DEF DiskWriteFails
      <4> QED BY <1>1, <2>2, <4>1
    <3> QED BY <1>5, <3>1, <3>2
  <2> QED BY <1>1, <2>3, <2>4 DEF DiskTypes
<1>6. CASE DiskWrite(p)
  <2> DEFINE e == [key |-> call[p].key, size |-> call[p].value.size, id |-> call[p].value.n]
  <2>1. call[p].op = "set"
    BY <1>6 DEF DiskWrite, TypeInv, OwnInv, SetOwnsItsKey
  <2>2. call[p].key \in Keys /\ call[p].value \in Value
    BY <1>2, <2>1, CallKinds
  <2>3. e \in Element
    BY <2>2, InvalidatorAssumption DEF Value, Element, InvalidatorAssumption
  <2>4. /\ diskList' = <<e>> \o diskList /\ diskMap' = [diskMap EXCEPT ![call[p].key] = e]
        /\ folder' = TRUE /\ UNCHANGED <<diskSize, diskLock>>
    BY <1>6 DEF DiskWrite
  <2> HIDE DEF e
  <2> QED BY <1>1, <2>3, <2>4, PushType DEF DiskTypes
<1>7. CASE DiskGet(p)
  <2>1. call[p].key \in Keys
    BY <1>2, <1>7, CallKinds DEF Points, DiskGet, Reading
  <2>2. PICK e : e = diskMap[call[p].key]
    OBVIOUS
  <2>3. diskList' = IF e = None THEN diskList ELSE <<e>> \o ListWithout(e)
    BY <1>7, <2>2 DEF DiskGet
  <2>4. e # None => e \in Element
    BY <1>1, <2>1, <2>2
  <2>5. diskList' \in Seq(Element)
    BY <1>1, <2>3, <2>4, DiskWithoutType, PushType
  <2> QED BY <1>1, <1>7, <2>5 DEF DiskGet, DiskTypes, fileVars
<1>8. CASE ClearDiskList(p) \/ EraseAll(p)
  <2>1. CASE ClearDiskList(p)
    <3>1. /\ diskList' = << >> /\ diskMap' = [k \in Keys |-> None] /\ diskSize' = 0
          /\ UNCHANGED <<diskLock, folder>>
      BY <2>1 DEF ClearDiskList, fileVars
    <3>2. diskMap' \in [Keys -> Element \cup {None}] /\ diskSize' \in Int
      BY <3>1
    <3> QED BY <1>1, <3>1, <3>2 DEF DiskTypes
  <2>2. CASE EraseAll(p)
    BY <1>1, <2>2 DEF EraseAll, DiskTypes, diskVars
  <2> QED BY <1>8, <2>1, <2>2
<1>9. CASE \/ Begin(p) \/ ReadCounter(p) \/ Increment(p) \/ Compare(p) \/ Reset(p)
           \/ MemoryGet(p) \/ DiskHas(p) \/ Decode(p)
  <2>1. UNCHANGED <<diskVars, diskLock, folder>>
    BY <1>9 DEF Begin, Set, Delete, Get, Clear, ReadCounter, Increment, Compare, Reset,
       MemoryGet, DiskHas, Decode, cacheVars, fileVars
  <2> QED BY <1>1, <2>1 DEF DiskTypes, diskVars
<1> QED BY <1>3, <1>4, <1>5, <1>6, <1>7, <1>8, <1>9 DEF Continue

LEMMA SaveCallTypes ==
  ASSUME TypeInv, NEW p \in Processes, Begin(p) \/ Continue(p)
  PROVE  SaveTypes'
<1>1. /\ SaveTypes /\ diskList \in Seq(Element)
  BY DEF TypeInv, DiskTypes
<1>2. CASE ReadCounter(p) \/ Increment(p) \/ Reset(p)
  BY <1>1, <1>2 DEF ReadCounter, Increment, Reset, SaveTypes, cacheVars, fileVars
<1>3. CASE ClearDiskList(p)
  BY <1>1, <1>3 DEF ClearDiskList, SaveTypes, fileVars
<1>4. CASE EraseAll(p)
  BY <1>1, <1>4 DEF EraseAll, SaveTypes
<1>5. CASE \/ Begin(p) \/ DiskDelete(p) \/ PurgeOldest(p) \/ EndPurge(p) \/ DiskWrite(p)
           \/ DiskWriteFails(p) \/ Compare(p) \/ MemoryGet(p) \/ DiskHas(p) \/ DiskGet(p) \/ Decode(p)
  <2>1. UNCHANGED <<index, operationCounter, waiting, writer, seen>>
    BY <1>5 DEF Begin, Set, Delete, Get, Clear, DiskDelete, PurgeOldest, EndPurge, DiskWrite,
       DiskWriteFails, Compare, MemoryGet, DiskHas, DiskGet, Decode, cacheVars, fileVars, saveVars
  <2> QED BY <1>1, <2>1 DEF SaveTypes
<1> QED BY <1>2, <1>3, <1>4, <1>5 DEF Continue

LEMMA WriterStepTypes ==
  ASSUME TypeInv, OpenIndex \/ CreateIndex \/ WalkOn \/ WriteIndex
  PROVE  SaveTypes' /\ DiskTypes' /\ CallTypes'
<1>1. SaveTypes /\ DiskTypes /\ CallTypes /\ diskList \in Seq(Element)
  BY DEF TypeInv, DiskTypes
<1>2. UNCHANGED <<diskVars, diskLock, folder, up, pc, call>>
  BY DEF OpenIndex, CreateIndex, WalkOn, WriteIndex, cacheVars, fileVars, callVars, lifeVars
<1>3. DiskTypes' /\ CallTypes'
  BY <1>1, <1>2 DEF DiskTypes, CallTypes, Points, diskVars
<1>4. SaveTypes'
  <2>1. CASE OpenIndex
    BY <1>1, <2>1 DEF OpenIndex, SaveTypes, cacheVars, fileVars
  <2>2. CASE CreateIndex
    <3>1. (IF diskList = << >> THEN None ELSE diskList[1]) \in Element \cup {None}
      BY <1>1
    <3> QED BY <1>1, <2>2, <3>1 DEF CreateIndex, SaveTypes
  <2>3. CASE WalkOn
    <3>1. Walked \in Seq(Element)
      BY <1>1 DEF Walked, SaveTypes
    <3>2. NextOfWalk \in Element \cup {None}
      <4>1. CASE NextOfWalk = None
        BY <4>1
      <4>2. CASE NextOfWalk # None
        <5>1. \E i \in DOMAIN Walked : NextOfWalk = Walked[i]
          BY <4>2 DEF NextOfWalk
        <5> QED BY <3>1, <5>1
      <4> QED BY <4>1, <4>2
    <3>3. [key |-> writer.at.key, size |-> writer.at.size] \in Entry
      BY <1>1, <2>3 DEF WalkOn, SaveTypes, Element, Entry
    <3>4. Append(writer.entries, [key |-> writer.at.key, size |-> writer.at.size]) \in Seq(Entry)
      BY <1>1, <3>3 DEF SaveTypes
    <3>5. writer' = [writer EXCEPT
            !.entries = Append(writer.entries, [key |-> writer.at.key, size |-> writer.at.size]),
            !.at = NextOfWalk]
      BY <2>3 DEF WalkOn
    <3> QED BY <1>1, <2>3, <3>2, <3>4, <3>5 DEF WalkOn, SaveTypes, cacheVars, fileVars
  <2>4. CASE WriteIndex
    BY <1>1, <2>4 DEF WriteIndex, SaveTypes, Idle
  <2> QED BY <2>1, <2>2, <2>3, <2>4
<1> QED BY <1>3, <1>4

LEMMA DieTypes ==
  ASSUME TypeInv, Die
  PROVE  SaveTypes' /\ DiskTypes' /\ CallTypes'
<1>1. SaveTypes'
  BY DEF Die, TypeInv, SaveTypes, Idle
<1>2. DiskTypes'
  <2>1. folder' \in BOOLEAN
    BY DEF Die
  <2> QED BY <2>1 DEF Die, DiskTypes
<1>3. CallTypes'
  BY DEF Die, CallTypes, Points, Reading, Labels, Call, NoCall
<1> QED BY <1>1, <1>2, <1>3

LEMMA LaunchTypes ==
  ASSUME TypeInv, Launch
  PROVE  SaveTypes' /\ DiskTypes' /\ CallTypes'
<1> DEFINE loaded == ReadIndex
           places(k) == {i \in DOMAIN loaded : loaded[i].key = k}
<1>1. loaded \in Seq(Element)
  <2>1. CASE index = None
    BY <2>1 DEF ReadIndex
  <2>2. CASE index # None
    <3>1. index \in Seq(Entry)
      BY <2>2 DEF TypeInv, SaveTypes
    <3>2. \A i \in 1..Len(index) : index[i] \in Entry /\ i \in Int /\ -i \in Int
      BY <3>1
    <3>3. \A e \in Entry : \A i \in Int : [key |-> e.key, size |-> e.size, id |-> -i] \in Element
      BY DEF Entry, Element
    <3>4. loaded = [i \in DOMAIN index |-> [key |-> index[i].key, size |-> index[i].size, id |-> -i]]
      BY <2>2 DEF ReadIndex
    <3>5. DOMAIN index = 1..Len(index) /\ Len(index) \in Nat
      BY <3>1
    <3> HIDE DEF loaded
    <3>6. loaded \in [1..Len(index) -> Element]
      BY <3>2, <3>3, <3>4, <3>5
    <3> QED BY <3>5, <3>6, SeqDef
  <2> QED BY <2>1, <2>2
<1>2. /\ diskList' = loaded
      /\ diskMap' = [k \in Keys |-> IF places(k) = {} THEN None ELSE loaded[Max(places(k))]]
      /\ diskSize' = Bytes(loaded)
  BY DEF Launch
<1>3. UNCHANGED <<diskLock, fileVars, saveVars, pc, call>> /\ up' = TRUE
  BY DEF Launch, callVars
<1> HIDE DEF loaded
<1>4. \A k \in Keys : places(k) # {} => loaded[Max(places(k))] \in Element
  <2>1. SUFFICES ASSUME NEW k \in Keys, places(k) # {} PROVE loaded[Max(places(k))] \in Element
    OBVIOUS
  <2>2. places(k) \in SUBSET (0..Len(loaded)) /\ Len(loaded) \in Nat /\ places(k) \subseteq DOMAIN loaded
    BY <1>1
  <2> HIDE DEF places
  <2>3. Max(places(k)) \in DOMAIN loaded
    BY <2>1, <2>2, MaxOfBounded
  <2> QED BY <1>1, <2>3
<1>5. diskSize' \in Int
  BY <1>1, <1>2, SumOfSizes, SizesAreNat DEF Bytes
<1> HIDE DEF places
<1>6. diskMap' \in [Keys -> Element \cup {None}]
  BY <1>2, <1>4
<1>7. DiskTypes'
  BY <1>1, <1>2, <1>3, <1>5, <1>6 DEF TypeInv, DiskTypes, fileVars
<1>8. SaveTypes' /\ CallTypes'
  BY <1>3 DEF TypeInv, SaveTypes, CallTypes, Points, fileVars, saveVars
<1> QED BY <1>7, <1>8

LEMMA TypeStep == TypeInv /\ [Next]_vars => TypeInv'
<1> SUFFICES ASSUME TypeInv, [Next]_vars PROVE TypeInv'
  OBVIOUS
<1>0. OwnInv'
  BY OwnStep DEF TypeInv
<1>1. ASSUME NEW p \in Processes, Begin(p) \/ Continue(p) PROVE TypeInv'
  BY <1>0, <1>1, NewCallTypes, CallOnTypes, DiskCallTypes, SaveCallTypes DEF TypeInv
<1>2. CASE OpenIndex \/ CreateIndex \/ WalkOn \/ WriteIndex
  BY <1>0, <1>2, WriterStepTypes DEF TypeInv
<1>3. CASE CreateFails \/ Interrupt
  BY <1>0, <1>3, DieTypes DEF TypeInv, CreateFails, Interrupt
<1>4. CASE Launch
  BY <1>0, <1>4, LaunchTypes DEF TypeInv
<1>5. CASE UNCHANGED vars
  BY <1>0, <1>5 DEF TypeInv, vars, cacheVars, fileVars, diskVars, saveVars, callVars, lifeVars,
     CallTypes, DiskTypes, SaveTypes, Points
<1> QED BY <1>1, <1>2, <1>3, <1>4, <1>5 DEF Next, Save

LEMMA TypeInit == Init => TypeInv
<1>1. Init => CallTypes
  BY DEF Init, CallTypes, Points, Reading, Labels, Call, NoCall
<1>2. Init => DiskTypes /\ SaveTypes
  <2> SUFFICES ASSUME Init PROVE DiskTypes /\ SaveTypes
    OBVIOUS
  <2>1. DiskTypes
    <3>0. diskList = << >> /\ diskSize = 0 /\ diskLock = None /\ folder = FALSE
      BY Zenon DEF Init
    <3>1. diskList \in Seq(Element) /\ diskSize \in Int
      BY <3>0
    <3>3. folder \in BOOLEAN
      BY <3>0, Zenon
    <3>2. diskMap \in [Keys -> Element \cup {None}]
      BY DEF Init
    <3> QED BY <3>0, <3>1, <3>2, <3>3 DEF DiskTypes
  <2>2. SaveTypes
    BY DEF Init, SaveTypes, Idle
  <2> QED BY <2>1, <2>2
<1> QED BY <1>1, <1>2, InitOwn DEF TypeInv

(* Every variable keeps its type (TypeOK) through every interleaving of    *)
(* calls and saves and through any crash and restart.                      *)
THEOREM TypeCorrect == Spec => []TypeOK
BY TypeInit, TypeStep, TypesOk, PTL DEF Spec

-----------------------------------------------------------------------------
(* Replaced answers.  The numbers of the edits tell the values apart: one  *)
(* of them lies under one key only, wherever it is.                        *)
MemoryHas(n, k) == \E i \in DOMAIN memory : memory[i].key = k /\ memory[i].value.n = n
FileHas(n, k) == files[k] \in Value /\ files[k].n = n
CallHas(n, k) ==
  \E p \in Processes : call[p].op = "set" /\ call[p].key = k /\ call[p].value.n = n
Kept(n, k) == MemoryHas(n, k) \/ FileHas(n, k) \/ CallHas(n, k) \/ n \in done[k]
Done == UNION {done[k] : k \in Keys}

Numbered ==
  /\ \A k, l \in Keys : \A n : Kept(n, k) /\ Kept(n, l) => k = l
  /\ \A k \in Keys : \A n : Kept(n, k) => n \in Int /\ n <= edits
  /\ NoKeyTwice(memory)
  /\ \A p, q \in Processes :
       call[p].op = "set" /\ call[q].op = "set" /\ call[p].value.n = call[q].value.n => p = q
  /\ \A p \in Processes : call[p].op = "set" => call[p].value.n \notin Done

(* What a call may replace, and what the past of a Get is made of.         *)
PastOf(p) ==
  /\ older[p] \subseteq Done
  /\ call[p].op \in {"set", "delete"} => older[p] \subseteq done[call[p].key]
  /\ call[p].op = "get" => older[p] \subseteq superseded
  /\ call[p].op = "none" => older[p] = {}

(* A call that edits has taken what it replaces out of memory when it has  *)
(* begun, and off the disk by the time it counts.                          *)
Editing(p) == call[p].op \in {"set", "delete", "clear"}
Erased(p) ==
  Editing(p) => \A n \in older[p] : \A k \in Keys :
    /\ ~MemoryHas(n, k)
    /\ pc[p] \notin {"disk", "list", "eraseAll"} => ~FileHas(n, k)

Replaced ==
  /\ superseded \subseteq Done
  /\ \A n \in superseded : \A k \in Keys : ~MemoryHas(n, k) /\ ~FileHas(n, k)
  /\ \A p \in Processes : PastOf(p) /\ Erased(p)
  /\ \A p \in Processes : answer[p] \in Value => answer[p].n \notin older[p]

PastShape ==
  /\ older = [p \in Processes |-> older[p]]
  /\ done = [k \in Keys |-> done[k]]

PastInv == PastShape /\ Numbered /\ Replaced

(* The memory level loses the entry of a key whose value it is given.      *)
LEMMA WithoutEntries ==
  ASSUME memory \in Seq(Held), NoKeyTwice(memory), NEW k
  PROVE  /\ MemoryWithout(k) \in Seq(Held) /\ NoKeyTwice(MemoryWithout(k))
         /\ \A j \in DOMAIN MemoryWithout(k) :
              \E m \in DOMAIN memory : memory[m].key # k /\ MemoryWithout(k)[j] = memory[m]
<1>1. CASE InMemory(k)
  <2>1. PICK i : i = Place(k)
    OBVIOUS
  <2>2. i \in DOMAIN memory /\ memory[i].key = k /\ MemoryWithout(k) = RemoveAt(memory, i)
    BY <1>1, <2>1, PlaceOf DEF MemoryWithout
  <2>3. /\ NoKeyTwice(RemoveAt(memory, i))
        /\ \A j \in DOMAIN RemoveAt(memory, i) :
             \E m \in DOMAIN memory : m # i /\ RemoveAt(memory, i)[j] = memory[m]
    BY <2>2, RemovedKeys
  <2>4. \A m \in DOMAIN memory : m # i => memory[m].key # k
    BY <2>2 DEF NoKeyTwice
  <2> QED BY <2>2, <2>3, <2>4, MemoryWithoutType
<1>2. CASE ~InMemory(k)
  BY <1>2 DEF MemoryWithout, InMemory
<1> QED BY <1>1, <1>2

LEMMA PrefixEntries ==
  ASSUME NEW s \in Seq(Held), NoKeyTwice(s), NEW m \in 0..Len(s)
  PROVE  /\ SubSeq(s, 1, m) \in Seq(Held) /\ NoKeyTwice(SubSeq(s, 1, m))
         /\ \A j \in DOMAIN SubSeq(s, 1, m) : j \in DOMAIN s /\ SubSeq(s, 1, m)[j] = s[j]
<1>1. PICK t : t = SubSeq(s, 1, m)
  OBVIOUS
<1>2. /\ t \in Seq(Held) /\ DOMAIN t = 1..m /\ DOMAIN s = 1..Len(s) /\ Len(s) \in Nat
      /\ \A j \in 1..m : t[j] = s[j]
  BY <1>1
<1>3. \A j \in 1..m : j \in 1..Len(s)
  BY <1>2
<1> QED BY <1>1, <1>2, <1>3 DEF NoKeyTwice

LEMMA WithEntries ==
  ASSUME memory \in Seq(Held), NoKeyTwice(memory), NEW k \in Keys, NEW value \in Owned(k)
  PROVE  /\ NoKeyTwice(MemoryWith(k, value))
         /\ \A j \in DOMAIN MemoryWith(k, value) :
              \/ MemoryWith(k, value)[j] = [key |-> k, value |-> value]
              \/ \E m \in DOMAIN memory :
                   memory[m].key # k /\ MemoryWith(k, value)[j] = memory[m]
<1> DEFINE rest == MemoryWithout(k)
           room == {i \in 0..Len(rest) :
                      MemoryBytes(SubSeq(rest, 1, i)) + value.size <= MaxMemory}
           e == [key |-> k, value |-> value]
           with == MemoryWith(k, value)
<1>1. /\ rest \in Seq(Held) /\ Len(rest) \in Nat /\ room \in SUBSET (0..Len(rest))
      /\ NoKeyTwice(rest)
      /\ \A j \in DOMAIN rest : \E m \in DOMAIN memory : memory[m].key # k /\ rest[j] = memory[m]
  BY MemoryWithoutType, WithoutEntries
<1>2. e \in Held /\ e.key = k
  BY DEF Held, Owned
<1>3. with = IF room = {} THEN << >> ELSE <<e>> \o SubSeq(rest, 1, Max(room))
  BY DEF MemoryWith
<1> HIDE DEF rest, room, e, with
<1>4. CASE room = {}
  <2>1. NoKeyTwice(with) /\ DOMAIN with = {}
    BY <1>3, <1>4 DEF NoKeyTwice
  <2> QED BY <2>1 DEF with
<1>5. CASE room # {}
  <2>1. Max(room) \in 0..Len(rest)
    BY <1>1, <1>5, MaxOfBounded
  <2>2. PICK left : left = SubSeq(rest, 1, Max(room))
    OBVIOUS
  <2>3. /\ left \in Seq(Held) /\ NoKeyTwice(left)
        /\ \A j \in DOMAIN left : j \in DOMAIN rest /\ left[j] = rest[j]
    BY <1>1, <2>1, <2>2, PrefixEntries
  <2>4. \A j \in DOMAIN left : \E m \in DOMAIN memory : memory[m].key # k /\ left[j] = memory[m]
    BY <1>1, <2>3
  <2>5. \A j \in DOMAIN left : left[j].key # e.key
    BY <1>2, <2>4
  <2>6. /\ NoKeyTwice(with)
        /\ \A j \in DOMAIN with : with[j] = e \/ \E m \in DOMAIN left : with[j] = left[m]
    <3>1. with = <<e>> \o left
      BY <1>3, <1>5, <2>2
    <3> QED BY <1>2, <2>3, <2>5, <3>1, PushedKeys
  <2> QED BY <2>4, <2>6 DEF with, e
<1> QED BY <1>4, <1>5

LEMMA InitPast == Init => PastInv
<1> SUFFICES ASSUME Init PROVE PastInv
  OBVIOUS
<1>1. /\ DOMAIN memory = {} /\ \A k \in Keys : files[k] = None /\ done[k] = {}
      /\ \A p \in Processes : /\ call[p] = NoCall /\ answer[p] = None /\ older[p] = {}
                              /\ pc[p] = "idle"
      /\ superseded = {} /\ None \notin Value
  BY InvalidatorAssumption DEF Init, InvalidatorAssumption, Value
<1>2. \A k \in Keys : \A n : ~Kept(n, k)
  BY <1>1 DEF Kept, MemoryHas, FileHas, CallHas, NoCall
<1>3. Numbered
  BY <1>1, <1>2 DEF Numbered, NoKeyTwice, NoCall
<1>4. Replaced
  BY <1>1 DEF Replaced, PastOf, Erased, Editing, NoCall
<1>5. PastShape
  BY DEF Init, PastShape
<1> QED BY <1>3, <1>4, <1>5 DEF PastInv

LEMMA InFlight ==
  ASSUME PastInv, NEW n, NEW k, CallHas(n, k)
  PROVE  n \notin Done
BY DEF PastInv, Numbered, CallHas

(* The steps that change no more than the files and the points of calls.   *)
ErasedNext(p) ==
  Editing(p) /\ pc'[p] \notin {"disk", "list", "eraseAll"} =>
    \/ pc[p] \notin {"disk", "list", "eraseAll"}
    \/ \A n \in older[p] : \A k \in Keys : ~FileHas(n, k)'

FilesFromCalls == \A k \in Keys : \A n : FileHas(n, k)' => FileHas(n, k) \/ CallHas(n, k)

LEMMA FilesPast ==
  ASSUME PastInv, UNCHANGED <<memory, call, answer, older, done, superseded, edits>>,
         FilesFromCalls, \A p \in Processes : ErasedNext(p)
  PROVE  PastInv'
<1>1. \A n, k : /\ MemoryHas(n, k)' <=> MemoryHas(n, k)
                /\ CallHas(n, k)' <=> CallHas(n, k)
  BY DEF MemoryHas, CallHas
<1>2. Done' = Done
  BY DEF Done
<1>3. \A k \in Keys : \A n : Kept(n, k)' => Kept(n, k)
  BY <1>1 DEF Kept, FilesFromCalls
<1>4. Numbered'
  BY <1>2, <1>3 DEF PastInv, Numbered
<1>5. \A k \in Keys : \A n \in Done : FileHas(n, k)' => FileHas(n, k)
  BY InFlight DEF FilesFromCalls
<1>6. \A n \in superseded : \A k \in Keys : ~MemoryHas(n, k)' /\ ~FileHas(n, k)'
  BY <1>1, <1>5 DEF PastInv, Replaced
<1>7. ASSUME NEW p \in Processes PROVE PastOf(p)' /\ Erased(p)'
  <2>1. PastOf(p) /\ Erased(p) /\ ErasedNext(p) /\ older[p] \subseteq Done
    BY DEF PastInv, Replaced, PastOf
  <2>2. PastOf(p)'
    BY <1>2, <2>1 DEF PastOf
  <2>3. Erased(p)'
    BY <1>1, <1>5, <2>1 DEF Erased, ErasedNext, Editing
  <2> QED BY <2>2, <2>3
<1>8. Replaced'
  BY <1>2, <1>6, <1>7 DEF PastInv, Replaced
<1> QED BY <1>4, <1>8 DEF PastInv, PastShape

(* A Get reads what the levels have, which is not what had been replaced   *)
(* when it began.                                                          *)
LEMMA ReadPast ==
  ASSUME PastInv, NEW p \in Processes, call[p].op = "get", NEW v,
         v \in Value => \E k \in Keys : MemoryHas(v.n, k) \/ FileHas(v.n, k),
         answer' = [answer EXCEPT ![p] = v], answer = [q \in Processes |-> answer[q]],
         \A k \in Keys : \A n : MemoryHas(n, k)' => MemoryHas(n, k),
         NoKeyTwice(memory'),
         UNCHANGED <<files, call, older, done, superseded, edits>>,
         \A q \in Processes : Editing(q) => pc'[q] = pc[q]
  PROVE  PastInv'
<1>1. \A n, k : (FileHas(n, k)' <=> FileHas(n, k)) /\ (CallHas(n, k)' <=> CallHas(n, k))
  BY DEF FileHas, CallHas
<1>2. Done' = Done
  BY DEF Done
<1>3. \A k \in Keys : \A n : Kept(n, k)' => Kept(n, k)
  BY <1>1 DEF Kept
<1>4. Numbered'
  BY <1>2, <1>3 DEF PastInv, Numbered
<1>5. \A n \in superseded : \A k \in Keys : ~MemoryHas(n, k)' /\ ~FileHas(n, k)'
  BY <1>1 DEF PastInv, Replaced
<1>6. ASSUME NEW q \in Processes PROVE PastOf(q)' /\ Erased(q)'
  <2>1. PastOf(q) /\ Erased(q)
    BY DEF PastInv, Replaced
  <2>2. PastOf(q)'
    BY <1>2, <2>1 DEF PastOf
  <2>3. Erased(q)'
    BY <1>1, <2>1 DEF Erased, Editing
  <2> QED BY <2>2, <2>3
<1>7. \A q \in Processes : answer'[q] \in Value => answer'[q].n \notin older'[q]
  <2>1. v \in Value => v.n \notin superseded
    BY DEF PastInv, Replaced
  <2>2. older[p] \subseteq superseded
    BY DEF PastInv, Replaced, PastOf
  <2>3. answer'[p] = v /\ \A q \in Processes : q # p => answer'[q] = answer[q]
    OBVIOUS
  <2> QED BY <2>1, <2>2, <2>3 DEF PastInv, Replaced
<1>8. Replaced'
  BY <1>2, <1>5, <1>6, <1>7 DEF PastInv, Replaced
<1> QED BY <1>4, <1>8 DEF PastInv, PastShape

(* What a call has replaced is gone when it returns.                       *)
LEMMA ReturnPast ==
  ASSUME TypeInv, PastInv, NEW p \in Processes, Return(p),
         Editing(p) => \A n \in older[p] : \A k \in Keys : ~FileHas(n, k)',
         \A k \in Keys : \A n : FileHas(n, k)' => FileHas(n, k),
         UNCHANGED <<memory, edits>>
  PROVE  PastInv'
<1>0. /\ pc = [q \in Processes |-> pc[q]] /\ call = [q \in Processes |-> call[q]]
      /\ answer = [q \in Processes |-> answer[q]] /\ older = [q \in Processes |-> older[q]]
      /\ done = [k \in Keys |-> done[k]]
      /\ call[p].op \in {"none", "get", "delete", "set", "clear"}
      /\ call[p].op = "set" => call[p].key \in Keys
      /\ None \notin Value
  BY CallKinds, InvalidatorAssumption
     DEF TypeInv, OwnInv, Shape, PastInv, PastShape, CallTypes, InvalidatorAssumption, Value
<1>1. /\ call'[p] = NoCall /\ answer'[p] = None /\ older'[p] = {} /\ pc'[p] = "idle"
      /\ \A q \in Processes : q # p => /\ call'[q] = call[q] /\ answer'[q] = answer[q]
                                      /\ older'[q] = older[q] /\ pc'[q] = pc[q]
  BY <1>0 DEF Return, Goto
<1>2. /\ superseded \subseteq superseded'
      /\ superseded' \subseteq superseded \cup (IF Editing(p) THEN older[p] ELSE {})
  BY <1>0 DEF Return, Editing, PastInv, Replaced, PastOf
<1>3. /\ \A k \in Keys : done[k] \subseteq done'[k]
      /\ \A k \in Keys : \A n \in done'[k] : n \in done[k] \/
           (call[p].op = "set" /\ k = call[p].key /\ n = call[p].value.n)
  BY <1>0 DEF Return
<1>4. \A n, k : (MemoryHas(n, k)' <=> MemoryHas(n, k)) /\ (CallHas(n, k)' => CallHas(n, k))
  BY <1>1 DEF MemoryHas, CallHas, NoCall
<1>5. \A k \in Keys : \A n : Kept(n, k)' => Kept(n, k)
  <2>1. \A k \in Keys : \A n : n \in done'[k] => n \in done[k] \/ CallHas(n, k)
    BY <1>3 DEF CallHas
  <2> QED BY <1>4, <2>1 DEF Kept
<1>6. Done \subseteq Done' /\ \A n \in Done' : n \in Done \/ (call[p].op = "set" /\ n = call[p].value.n)
  BY <1>3 DEF Done
<1>7. Numbered'
  <2>1. \A q \in Processes : call'[q].op = "set" => q # p /\ call[q].op = "set" /\ call'[q] = call[q]
    BY <1>1 DEF NoCall
  <2>2. \A q \in Processes : call'[q].op = "set" => call'[q].value.n \notin Done'
    BY <1>6, <2>1 DEF PastInv, Numbered
  <2> QED BY <1>5, <2>1, <2>2 DEF PastInv, Numbered
<1>8. \A n \in superseded' : \A k \in Keys : ~MemoryHas(n, k)' /\ ~FileHas(n, k)'
  <2>1. Editing(p) => \A n \in older[p] : \A k \in Keys : ~MemoryHas(n, k)
    BY DEF PastInv, Replaced, Erased
  <2> QED BY <1>2, <1>4, <2>1 DEF PastInv, Replaced
<1>9. superseded' \subseteq Done'
  <2>1. older[p] \subseteq Done /\ superseded \subseteq Done
    BY DEF PastInv, Replaced, PastOf
  <2> QED BY <1>2, <1>6, <2>1
<1>10. ASSUME NEW q \in Processes PROVE PastOf(q)' /\ Erased(q)'
  <2>1. CASE q = p
    BY <1>1, <2>1 DEF PastOf, Erased, NoCall
  <2>2. CASE q # p
    <3>1. PastOf(q) /\ Erased(q)
      BY DEF PastInv, Replaced
    <3>2. call[q].op \in {"set", "delete"} => call[q].key \in Keys
      BY CallKinds DEF TypeInv, CallTypes
    <3>3. PastOf(q)'
      BY <1>1, <1>2, <1>3, <1>6, <2>2, <3>1, <3>2 DEF PastOf
    <3>4. Erased(q)'
      BY <1>1, <1>4, <2>2, <3>1 DEF Erased, Editing
    <3> QED BY <3>3, <3>4
  <2> QED BY <2>1, <2>2
<1>11. \A q \in Processes : answer'[q] \in Value => answer'[q].n \notin older'[q]
  BY <1>0, <1>1 DEF PastInv, Replaced
<1>12. Replaced'
  BY <1>8, <1>9, <1>10, <1>11 DEF Replaced
<1>13. PastShape'
  <2>1. done' = [k \in Keys |-> done'[k]]
    BY <1>0 DEF Return
  <2> QED BY <1>0, <2>1 DEF Return, PastShape
<1> QED BY <1>7, <1>12, <1>13 DEF PastInv

(* A call that begins has a past, and a Set a value that is new.           *)
LEMMA BeginPast ==
  ASSUME TypeInv, PastInv, NEW p \in Processes, pc[p] = "idle",
         call' = [call EXCEPT ![p] = call'[p]], older' = [older EXCEPT ![p] = older'[p]],
         pc' = [pc EXCEPT ![p] = pc'[p]],
         UNCHANGED <<files, answer, done, superseded>>, PastOf(p)', Erased(p)',
         NoKeyTwice(memory'), edits' \in Int, edits <= edits',
         \A k \in Keys : \A n : MemoryHas(n, k)' =>
           MemoryHas(n, k) \/ (call'[p].op = "set" /\ k = call'[p].key /\ n = call'[p].value.n),
         call'[p].op = "set" => call'[p].value.n \in Int /\ edits < call'[p].value.n
                                /\ call'[p].value.n <= edits' /\ call'[p].key \in Keys
  PROVE  PastInv'
<1>0. /\ pc = [q \in Processes |-> pc[q]] /\ call = [q \in Processes |-> call[q]]
      /\ older = [q \in Processes |-> older[q]] /\ edits \in Int
      /\ answer[p] = None /\ None \notin Value
      /\ \A q \in Processes : call[q].op \in {"set", "delete"} => call[q].key \in Keys
  BY CallKinds, InvalidatorAssumption
     DEF TypeInv, OwnInv, Shape, PastInv, PastShape, CallTypes, GetOwnsItsKey, Reading,
         InvalidatorAssumption, Value
<1>1. \A q \in Processes : q # p => /\ call'[q] = call[q] /\ older'[q] = older[q] /\ pc'[q] = pc[q]
  BY <1>0
<1>2. Done' = Done
  BY DEF Done
<1>3. \A k \in Keys : \A n : Kept(n, k)' =>
        Kept(n, k) \/ (call'[p].op = "set" /\ k = call'[p].key /\ n = call'[p].value.n)
  <2>1. \A n, k : FileHas(n, k)' => FileHas(n, k)
    BY DEF FileHas
  <2>2. \A n, k : CallHas(n, k)' =>
          CallHas(n, k) \/ (call'[p].op = "set" /\ k = call'[p].key /\ n = call'[p].value.n)
    BY <1>1 DEF CallHas
  <2> QED BY <2>1, <2>2 DEF Kept
<1>4. \A k \in Keys : \A n : Kept(n, k) => n \in Int /\ n <= edits
  BY DEF PastInv, Numbered
<1>5. \A n \in Done : n \in Int /\ n <= edits
  BY <1>4 DEF Done, Kept
<1>6. \A k \in Keys : \A n : Kept(n, k)' => n \in Int /\ n <= edits'
  BY <1>0, <1>3, <1>4
<1>7. \A k, l \in Keys : \A n : Kept(n, k)' /\ Kept(n, l)' => k = l
  <2>1. \A k \in Keys : call'[p].op = "set" => ~Kept(call'[p].value.n, k)
    BY <1>0, <1>4
  <2>2. \A k, l \in Keys : \A n : Kept(n, k) /\ Kept(n, l) => k = l
    BY DEF PastInv, Numbered
  <2> QED BY <1>3, <2>1, <2>2
<1>8. ASSUME NEW q \in Processes, NEW r \in Processes, call'[q].op = "set", call'[r].op = "set",
             call'[q].value.n = call'[r].value.n
      PROVE  q = r
  <2>1. \A x \in Processes : call[x].op = "set" => Kept(call[x].value.n, call[x].key)
    BY DEF Kept, CallHas
  <2>2. \A x \in Processes : call[x].op = "set" => call[x].value.n \in Int /\ call[x].value.n <= edits
    BY <1>0, <1>4, <2>1
  <2>3. CASE q # p /\ r # p
    BY <1>1, <1>8, <2>3 DEF PastInv, Numbered
  <2>4. CASE q = p \/ r = p
    BY <1>0, <1>1, <1>8, <2>2, <2>4
  <2> QED BY <2>3, <2>4
<1>9. \A q \in Processes : call'[q].op = "set" => call'[q].value.n \notin Done'
  <2>1. call'[p].op = "set" => call'[p].value.n \notin Done
    BY <1>0, <1>5
  <2>2. \A q \in Processes : call[q].op = "set" => call[q].value.n \notin Done
    BY DEF PastInv, Numbered
  <2> QED BY <1>1, <1>2, <2>1, <2>2
<1>10. Numbered'
  BY <1>6, <1>7, <1>8, <1>9 DEF Numbered
<1>11. \A k \in Keys : \A n \in Done : MemoryHas(n, k)' => MemoryHas(n, k)
  BY <1>0, <1>5
<1>12. \A n, k : FileHas(n, k)' <=> FileHas(n, k)
  BY DEF FileHas
<1>13. \A n \in superseded' : \A k \in Keys : ~MemoryHas(n, k)' /\ ~FileHas(n, k)'
  BY <1>11, <1>12 DEF PastInv, Replaced
<1>14. ASSUME NEW q \in Processes PROVE PastOf(q)' /\ Erased(q)'
  <2>1. CASE q = p
    BY <2>1
  <2>2. CASE q # p
    <3>1. PastOf(q) /\ Erased(q) /\ older[q] \subseteq Done
      BY DEF PastInv, Replaced, PastOf
    <3>2. PastOf(q)'
      BY <1>1, <1>2, <2>2, <3>1 DEF PastOf
    <3>3. Erased(q)'
      BY <1>1, <1>11, <1>12, <2>2, <3>1 DEF Erased, Editing
    <3> QED BY <3>2, <3>3
  <2> QED BY <2>1, <2>2
<1>15. \A q \in Processes : answer'[q] \in Value => answer'[q].n \notin older'[q]
  BY <1>0, <1>1 DEF PastInv, Replaced
<1>16. Replaced'
  BY <1>2, <1>13, <1>14, <1>15 DEF PastInv, Replaced
<1>17. PastShape'
  BY <1>0 DEF PastInv, PastShape
<1> QED BY <1>10, <1>16, <1>17 DEF PastInv

LEMMA BeginStep ==
  ASSUME TypeInv, PastInv, NEW p \in Processes, Begin(p)
  PROVE  PastInv'
<1>0. /\ memory \in Seq(Held) /\ NoKeyTwice(memory) /\ edits \in Int
      /\ pc = [q \in Processes |-> pc[q]] /\ call = [q \in Processes |-> call[q]]
      /\ older = [q \in Processes |-> older[q]] /\ older[p] = {} /\ pc[p] = "idle"
  <2>1. pc[p] = "idle"
    BY DEF Begin, Set, Delete, Get, Clear
  <2>2. older[p] = {}
    BY <2>1 DEF PastInv, Replaced, PastOf, TypeInv, CallTypes, Points
  <2> QED BY <2>1, <2>2 DEF TypeInv, OwnInv, Shape, StoredUnderOwnKey, PastInv, PastShape, Numbered
<1>1. CASE Set(p)
  <2>0. PICK q \in Queries : \E k \in KeysOf[q], size \in SizesOf[q] :
          LET value == [query |-> q, n |-> edits', size |-> size]
          IN /\ call' = [call EXCEPT ![p] = [op |-> "set", query |-> q, key |-> k, value |-> value]]
             /\ older' = [older EXCEPT ![p] = done[k]]
             /\ memory' = MemoryWith(k, value)
    BY <1>1 DEF Set
  <2>1. PICK k \in KeysOf[q], size \in SizesOf[q] :
          LET value == [query |-> q, n |-> edits', size |-> size]
          IN /\ call' = [call EXCEPT ![p] = [op |-> "set", query |-> q, key |-> k, value |-> value]]
             /\ older' = [older EXCEPT ![p] = done[k]]
             /\ memory' = MemoryWith(k, value)
    BY <2>0
  <2> DEFINE value == [query |-> q, n |-> edits', size |-> size]
  <2>2. /\ edits' = edits + 1 /\ edits' \in 1..MaxEdits /\ k \in Keys /\ size \in Sizes
        /\ pc' = [pc EXCEPT ![p] = "disk"] /\ UNCHANGED <<files, answer, done, superseded>>
    BY <1>1, KeysOfQueries, InvalidatorAssumption
       DEF Set, Goto, fileVars, Sizes, TypeInv, OwnInv, Shape, InvalidatorAssumption
  <2>3. value \in Owned(k) /\ value.n = edits + 1
    BY <2>2 DEF Owned, Value
  <2>4. /\ call'[p].op = "set" /\ call'[p].key = k /\ call'[p].value = value
        /\ call' = [call EXCEPT ![p] = call'[p]]
        /\ older' = [older EXCEPT ![p] = older'[p]] /\ older'[p] = done[k]
        /\ memory' = MemoryWith(k, value)
        /\ pc' = [pc EXCEPT ![p] = pc'[p]] /\ pc'[p] = "disk"
    BY <1>0, <2>1, <2>2
  <2> HIDE DEF value
  <2>5. /\ NoKeyTwice(memory')
        /\ \A j \in DOMAIN memory' : \/ memory'[j] = [key |-> k, value |-> value]
             \/ \E m \in DOMAIN memory : memory[m].key # k /\ memory'[j] = memory[m]
    BY <1>0, <2>2, <2>3, <2>4, WithEntries
  <2>6. \A l \in Keys : \A n : MemoryHas(n, l)' =>
          \/ MemoryHas(n, l) /\ l # k
          \/ l = k /\ n = value.n
    BY <2>5 DEF MemoryHas
  <2>7. PastOf(p)'
    BY <2>2, <2>4 DEF PastOf, Done
  <2>8. Erased(p)'
    <3>1. \A n \in done[k] : Kept(n, k)
      BY DEF Kept
    <3>2. \A n \in done[k] : n # value.n
      BY <1>0, <2>2, <2>3, <3>1 DEF PastInv, Numbered
    <3>3. \A n \in done[k] : \A l \in Keys : MemoryHas(n, l) => l = k
      BY <2>2, <3>1 DEF PastInv, Numbered, Kept
    <3>4. \A n \in done[k] : \A l \in Keys : ~MemoryHas(n, l)'
      BY <2>6, <3>2, <3>3
    <3> QED BY <2>4, <3>4 DEF Erased
  <2>9. /\ edits' \in Int /\ edits <= edits'
        /\ call'[p].op = "set" => /\ call'[p].value.n \in Int /\ edits < call'[p].value.n
                                  /\ call'[p].value.n <= edits' /\ call'[p].key \in Keys
    BY <1>0, <2>2, <2>3, <2>4
  <2>10. \A l \in Keys : \A n : MemoryHas(n, l)' =>
           MemoryHas(n, l) \/ (call'[p].op = "set" /\ l = call'[p].key /\ n = call'[p].value.n)
    BY <2>4, <2>6
  <2>11. /\ pc[p] = "idle" /\ call' = [call EXCEPT ![p] = call'[p]]
         /\ older' = [older EXCEPT ![p] = older'[p]] /\ pc' = [pc EXCEPT ![p] = pc'[p]]
    BY <1>0, <2>4
  <2> QED BY <2>2, <2>5, <2>7, <2>8, <2>9, <2>10, <2>11, BeginPast
<1>2. CASE Delete(p)
  <2>0. PICK q \in Deleted : \E k \in KeysOf[q] :
          /\ call' = [call EXCEPT ![p] = [op |-> "delete", query |-> q, key |-> k, value |-> None]]
          /\ older' = [older EXCEPT ![p] = done[k]]
          /\ memory' = MemoryWithout(k)
    BY <1>2 DEF Delete
  <2>1. PICK k \in KeysOf[q] :
          /\ call' = [call EXCEPT ![p] = [op |-> "delete", query |-> q, key |-> k, value |-> None]]
          /\ older' = [older EXCEPT ![p] = done[k]]
          /\ memory' = MemoryWithout(k)
    BY <2>0
  <2>2. /\ edits' = edits + 1 /\ k \in Keys
        /\ pc' = [pc EXCEPT ![p] = "disk"] /\ UNCHANGED <<files, answer, done, superseded>>
    BY <1>2, KeysOfQueries, InvalidatorAssumption DEF Delete, Goto, fileVars, InvalidatorAssumption
  <2>4. /\ call'[p].op = "delete" /\ call'[p].key = k /\ call' = [call EXCEPT ![p] = call'[p]]
        /\ older' = [older EXCEPT ![p] = older'[p]] /\ older'[p] = done[k]
        /\ pc' = [pc EXCEPT ![p] = pc'[p]] /\ pc'[p] = "disk"
    BY <1>0, <2>1, <2>2
  <2>5. /\ NoKeyTwice(memory')
        /\ \A j \in DOMAIN memory' :
             \E m \in DOMAIN memory : memory[m].key # k /\ memory'[j] = memory[m]
    BY <1>0, <2>1, WithoutEntries
  <2>6. \A l \in Keys : \A n : MemoryHas(n, l)' => MemoryHas(n, l) /\ l # k
    BY <2>5 DEF MemoryHas
  <2>7. PastOf(p)'
    BY <2>2, <2>4 DEF PastOf, Done
  <2>8. Erased(p)'
    <3>1. \A n \in done[k] : \A l \in Keys : MemoryHas(n, l) => l = k
      BY <2>2 DEF PastInv, Numbered, Kept
    <3>2. \A n \in done[k] : \A l \in Keys : ~MemoryHas(n, l)'
      BY <2>6, <3>1
    <3> QED BY <2>4, <3>2 DEF Erased
  <2>9. /\ edits' \in Int /\ edits <= edits'
        /\ \A l \in Keys : \A n : MemoryHas(n, l)' => MemoryHas(n, l)
        /\ call'[p].op # "set"
    BY <1>0, <2>2, <2>4, <2>6
  <2> QED BY <1>0, <2>2, <2>4, <2>5, <2>7, <2>8, <2>9, BeginPast
<1>3. CASE Clear(p)
  <2>1. /\ call' = [call EXCEPT ![p] = call'[p]] /\ call'[p].op = "clear"
        /\ older' = [older EXCEPT ![p] = older'[p]] /\ older'[p] = Done
        /\ pc' = [pc EXCEPT ![p] = pc'[p]] /\ edits' = edits + 1 /\ memory' = << >>
        /\ pc'[p] = "list" /\ UNCHANGED <<files, answer, done, superseded>>
    BY <1>0, <1>3 DEF Clear, Goto, fileVars, Done
  <2>2. NoKeyTwice(memory') /\ \A n, k : ~MemoryHas(n, k)'
    BY <2>1 DEF NoKeyTwice, MemoryHas
  <2>3. PastOf(p)' /\ Erased(p)'
    BY <2>1, <2>2 DEF PastOf, Erased, Done
  <2> QED BY <1>0, <2>1, <2>2, <2>3, BeginPast
<1>4. CASE Get(p)
  <2>0. PICK q \in Queries : \E k \in KeysOf[q] :
          call' = [call EXCEPT ![p] = [op |-> "get", query |-> q, key |-> k, value |-> None]]
    BY <1>4 DEF Get
  <2>1. /\ call' = [call EXCEPT ![p] = call'[p]] /\ call'[p].op = "get"
        /\ older' = [older EXCEPT ![p] = older'[p]] /\ older'[p] = superseded
        /\ pc' = [pc EXCEPT ![p] = pc'[p]]
        /\ UNCHANGED <<memory, edits, files, answer, done, superseded>>
    BY <1>0, <1>4, <2>0 DEF Get, Goto, cacheVars, fileVars, lifeVars
  <2>2. \A n, k : MemoryHas(n, k)' => MemoryHas(n, k)
    BY <2>1 DEF MemoryHas
  <2>3. PastOf(p)' /\ Erased(p)'
    BY <2>1 DEF PastOf, Erased, Editing, Done, PastInv, Replaced
  <2> QED BY <1>0, <2>1, <2>2, <2>3, BeginPast
<1> QED BY <1>1, <1>2, <1>3, <1>4 DEF Begin

LEMMA DiskPast ==
  ASSUME TypeInv, PastInv, NEW p \in Processes,
         \/ DiskDelete(p) \/ PurgeOldest(p) \/ EndPurge(p)
         \/ DiskWrite(p) \/ DiskWriteFails(p)
  PROVE  PastInv'
<1>0. /\ pc = [q \in Processes |-> pc[q]] /\ files = [k \in Keys |-> files[k]]
      /\ call[p].op \in {"set", "delete"} => call[p].key \in Keys
      /\ Points(p) /\ SetOwnsItsKey(p) /\ None \notin Value
  BY CallKinds, InvalidatorAssumption
     DEF TypeInv, OwnInv, Shape, CallTypes, InvalidatorAssumption, Value
<1>1. UNCHANGED <<memory, call, answer, older, done, superseded, edits>>
  BY DEF DiskDelete, PurgeOldest, EndPurge, DiskWrite, DiskWriteFails, callVars, pastVars,
     lifeVars
<1>2. pc' = [pc EXCEPT ![p] = pc'[p]]
  BY <1>0 DEF DiskDelete, AfterDelete, PurgeOldest, EndPurge, DiskWrite, DiskWriteFails,
     Goto, callVars
<1>3. FilesFromCalls
  <2>1. CASE DiskDelete(p) \/ PurgeOldest(p) \/ EndPurge(p)
    <3>1. UNCHANGED files \/ \E k : files' = [files EXCEPT ![k] = None]
      BY <2>1 DEF DiskDelete, PurgeOldest, EndPurge, fileVars
    <3> QED BY <1>0, <3>1 DEF FilesFromCalls, FileHas
  <2>2. CASE DiskWrite(p)
    <3>1. files' = [files EXCEPT ![call[p].key] = call[p].value] /\ call[p].op = "set"
      BY <1>0, <2>2 DEF DiskWrite, SetOwnsItsKey
    <3> QED BY <1>0, <3>1 DEF FilesFromCalls, FileHas, CallHas
  <2>3. CASE DiskWriteFails(p)
    <3>1. \/ UNCHANGED files
          \/ \E left \in {None, files[call[p].key]} :
               files' = [files EXCEPT ![call[p].key] = left]
      BY <2>3 DEF DiskWriteFails
    <3> QED BY <1>0, <3>1 DEF FilesFromCalls, FileHas
  <2> QED BY <2>1, <2>2, <2>3
<1>4. ErasedNext(p)
  <2>1. CASE DiskDelete(p)
    <3>1. call[p].op \in {"set", "delete"} /\ call[p].key \in Keys
      BY <1>0, <2>1 DEF DiskDelete, Points
    <3>2. older[p] \subseteq done[call[p].key]
      BY <3>1 DEF PastInv, Replaced, PastOf
    <3>3. files'[call[p].key] = None /\ \A k \in Keys : files'[k] = files[k] \/ files'[k] = None
      BY <1>0, <2>1, <3>1 DEF DiskDelete
    <3>4. \A n \in done[call[p].key] : \A k \in Keys : FileHas(n, k) => k = call[p].key
      BY <3>1 DEF PastInv, Numbered, Kept
    <3>5. \A n \in older[p] : \A k \in Keys : ~FileHas(n, k)'
      BY <1>0, <3>2, <3>3, <3>4 DEF FileHas
    <3> QED BY <3>5 DEF ErasedNext
  <2>2. CASE PurgeOldest(p) \/ EndPurge(p) \/ DiskWrite(p) \/ DiskWriteFails(p)
    BY <2>2 DEF PurgeOldest, EndPurge, DiskWrite, DiskWriteFails, ErasedNext
  <2> QED BY <2>1, <2>2
<1>5. \A q \in Processes : ErasedNext(q)
  BY <1>0, <1>2, <1>4 DEF ErasedNext
<1> QED BY <1>1, <1>3, <1>5, FilesPast

(* A call that only goes on changes nothing that the past is made of.      *)
LEMMA GoOnPast ==
  ASSUME TypeInv, PastInv, NEW p \in Processes, pc' = [pc EXCEPT ![p] = pc'[p]],
         pc[p] \notin {"disk", "list", "eraseAll"} \/ pc'[p] = "eraseAll",
         UNCHANGED <<memory, files, call, answer, older, done, superseded, edits>>
  PROVE  PastInv'
<1>1. pc = [q \in Processes |-> pc[q]]
  BY DEF TypeInv, OwnInv, Shape
<1>2. \A q \in Processes : ErasedNext(q)
  BY <1>1 DEF ErasedNext
<1>3. FilesFromCalls
  BY DEF FilesFromCalls, FileHas
<1> QED BY <1>2, <1>3, FilesPast

LEMMA CountPast ==
  ASSUME TypeInv, PastInv, NEW p \in Processes,
         \/ ReadCounter(p) \/ Increment(p) \/ Compare(p) \/ Reset(p)
         \/ Decode(p) \/ ClearDiskList(p) \/ EraseAll(p)
  PROVE  PastInv'
<1>0. pc = [q \in Processes |-> pc[q]] /\ None \notin Value
  BY InvalidatorAssumption DEF TypeInv, OwnInv, Shape, InvalidatorAssumption, Value
<1>1. Erased(p)
  BY DEF PastInv, Replaced
<1>2. UNCHANGED <<memory, edits>>
  BY DEF ReadCounter, Increment, Compare, Reset, Decode, ClearDiskList, EraseAll, cacheVars,
     lifeVars
<1>3. CASE EraseAll(p)
  <2>1. \A k \in Keys : \A n : ~FileHas(n, k)'
    BY <1>0, <1>3 DEF EraseAll, FileHas
  <2> QED BY <1>2, <1>3, <2>1, ReturnPast DEF EraseAll
<1>4. CASE (Compare(p) /\ Return(p)) \/ Reset(p) \/ Decode(p)
  <2>1. Return(p) /\ pc[p] \in {"compare", "reset", "decode"} /\ UNCHANGED files
    BY <1>4 DEF Compare, Reset, Decode, cacheVars, fileVars
  <2>2. \A n, k : FileHas(n, k)' <=> FileHas(n, k)
    BY <2>1 DEF FileHas
  <2>3. Editing(p) => \A n \in older[p] : \A k \in Keys : ~FileHas(n, k)'
    BY <1>1, <2>1, <2>2 DEF Erased
  <2> QED BY <1>2, <2>1, <2>2, <2>3, ReturnPast
<1>5. CASE ReadCounter(p) \/ Increment(p) \/ (Compare(p) /\ ~Return(p)) \/ ClearDiskList(p)
  <2>1. /\ pc[p] \in {"count", "increment", "compare"} \/ pc'[p] = "eraseAll"
        /\ pc' = [pc EXCEPT ![p] = pc'[p]]
        /\ UNCHANGED <<files, call, answer, older, done, superseded>>
    BY <1>0, <1>5 DEF ReadCounter, Increment, Compare, ClearDiskList, Goto, cacheVars, fileVars,
       pastVars
  <2> QED BY <1>2, <2>1, GoOnPast
<1> QED BY <1>3, <1>4, <1>5

LEMMA GetPast ==
  ASSUME TypeInv, PastInv, NEW p \in Processes, MemoryGet(p) \/ DiskHas(p) \/ DiskGet(p)
  PROVE  PastInv'
<1>0. /\ pc = [q \in Processes |-> pc[q]] /\ answer = [q \in Processes |-> answer[q]]
      /\ memory \in Seq(Held) /\ NoKeyTwice(memory)
      /\ pc[p] \in Reading /\ call[p].op = "get" /\ call[p].key \in Keys
  <2>1. pc[p] \in Reading /\ Points(p)
    BY DEF MemoryGet, DiskHas, DiskGet, Reading, TypeInv, CallTypes
  <2>2. call[p].op = "get" /\ call[p].key \in Keys
    BY <2>1, CallKinds DEF Points, TypeInv, CallTypes
  <2> QED BY <2>1, <2>2 DEF TypeInv, OwnInv, Shape, StoredUnderOwnKey, PastInv, Numbered
<1>1. UNCHANGED <<files, edits>>
  BY DEF MemoryGet, DiskHas, DiskGet, cacheVars, fileVars, lifeVars
<1>2. \A n, k : FileHas(n, k)' <=> FileHas(n, k)
  BY <1>1 DEF FileHas
<1>3. CASE Return(p)
  <2>1. UNCHANGED memory
    <3>1. CASE DiskHas(p) \/ DiskGet(p)
      BY <3>1 DEF DiskHas, DiskGet, cacheVars
    <3>2. CASE MemoryGet(p)
      <4>1. call'[p] = NoCall
        BY <1>3 DEF Return, TypeInv, OwnInv, Shape
      <4> QED BY <1>0, <3>2, <4>1 DEF MemoryGet, NoCall
    <3> QED BY <3>1, <3>2
  <2>2. ~Editing(p)
    BY <1>0 DEF Editing
  <2> QED BY <1>1, <1>2, <1>3, <2>1, <2>2, ReturnPast
<1>4. CASE DiskHas(p) /\ ~Return(p)
  <2>1. /\ UNCHANGED <<memory, call, answer, older, done, superseded>>
        /\ pc' = [pc EXCEPT ![p] = pc'[p]] /\ pc[p] = "diskHas"
    BY <1>0, <1>4 DEF DiskHas, Goto, cacheVars, pastVars
  <2> QED BY <1>1, <2>1, GoOnPast
<1>5. CASE (MemoryGet(p) \/ DiskGet(p)) /\ ~Return(p)
  <2>1. /\ UNCHANGED <<call, older, done, superseded>>
        /\ pc' = [pc EXCEPT ![p] = pc'[p]]
    BY <1>0, <1>5 DEF MemoryGet, DiskGet, Goto, pastVars
  <2>2. \A q \in Processes : Editing(q) => pc'[q] = pc[q]
    BY <1>0, <2>1 DEF Editing
  <2>3. CASE DiskGet(p)
    <3>1. answer' = [answer EXCEPT ![p] = files[call[p].key]] /\ UNCHANGED memory
      BY <1>5, <2>3 DEF DiskGet
    <3>2. \A n, k : MemoryHas(n, k)' => MemoryHas(n, k)
      BY <3>1 DEF MemoryHas
    <3>3. files[call[p].key] \in Value =>
            \E k \in Keys : MemoryHas(files[call[p].key].n, k) \/ FileHas(files[call[p].key].n, k)
      BY <1>0 DEF FileHas
    <3> QED BY <1>0, <1>1, <2>1, <2>2, <3>1, <3>2, <3>3, ReadPast
  <2>4. CASE MemoryGet(p)
    <3> DEFINE k == call[p].key
    <3>1. /\ InMemory(k) /\ memory' = <<memory[Place(k)]>> \o MemoryWithout(k)
          /\ answer' = [answer EXCEPT ![p] = memory[Place(k)].value]
      BY <1>5, <2>4 DEF MemoryGet
    <3>2. PICK e \in Held : e = memory[Place(k)]
      BY <1>0, <3>1, HeldInMemory
    <3>3. PICK rest : rest = MemoryWithout(k)
      OBVIOUS
    <3>4. /\ rest \in Seq(Held) /\ NoKeyTwice(rest)
          /\ \A j \in DOMAIN rest : \E m \in DOMAIN memory : memory[m].key # k /\ rest[j] = memory[m]
      BY <1>0, <3>3, WithoutEntries
    <3>5. e.key = k /\ Place(k) \in DOMAIN memory /\ MemoryHas(e.value.n, k)
      BY <3>1, <3>2, PlaceOf DEF MemoryHas
    <3>6. \A j \in DOMAIN rest : rest[j].key # e.key
      BY <3>4, <3>5
    <3>7. /\ NoKeyTwice(memory')
          /\ \A j \in DOMAIN memory' : memory'[j] = e \/ \E m \in DOMAIN rest : memory'[j] = rest[m]
      BY <3>1, <3>2, <3>3, <3>4, <3>6, PushedKeys
    <3>8. \A j \in DOMAIN memory' : \E m \in DOMAIN memory : memory'[j] = memory[m]
      BY <3>2, <3>4, <3>5, <3>7
    <3>9. \A l \in Keys : \A n : MemoryHas(n, l)' => MemoryHas(n, l)
      BY <3>8 DEF MemoryHas
    <3>10. e.value \in Value => \E l \in Keys : MemoryHas(e.value.n, l) \/ FileHas(e.value.n, l)
      BY <1>0, <3>5
    <3>11. answer' = [answer EXCEPT ![p] = e.value]
      BY <3>1, <3>2
    <3> QED BY <1>0, <1>1, <2>1, <2>2, <3>7, <3>9, <3>10, <3>11, ReadPast
  <2> QED BY <1>5, <2>3, <2>4
<1> QED BY <1>3, <1>4, <1>5

(* After a crash no call has a past, and a file holds what it held or what *)
(* was being written into it.                                              *)
LEMMA DiePast ==
  ASSUME TypeInv, PastInv, Die
  PROVE  PastInv'
<1>0. None \notin Value /\ Torn \notin Value /\ files = [k \in Keys |-> files[k]]
  BY InvalidatorAssumption DEF TypeInv, OwnInv, Shape, InvalidatorAssumption, Value
<1>1. /\ memory' = << >> /\ pc' = [p \in Processes |-> "idle"]
      /\ call' = [p \in Processes |-> NoCall] /\ answer' = [p \in Processes |-> None]
      /\ older' = [p \in Processes |-> {}] /\ UNCHANGED <<done, superseded, edits>>
  BY DEF Die
<1>2. PICK left \in [Unsure -> UNION {Remains(k) : k \in Unsure}] :
        /\ \A k \in Unsure : left[k] \in Remains(k)
        /\ files' = [k \in Keys |-> IF k \in Unsure THEN left[k] ELSE files[k]]
  BY DEF Die
<1>3. ASSUME NEW k \in Keys, NEW n, FileHas(n, k)' PROVE FileHas(n, k) \/ CallHas(n, k)
  <2>1. files'[k] = files[k] \/ files'[k] \in Remains(k)
    BY <1>2
  <2>2. CASE files'[k] = files[k]
    BY <1>3, <2>2 DEF FileHas
  <2>3. CASE files'[k] \in Remains(k) /\ files'[k] # files[k]
    <3>1. PICK p \in Writing(k) : files'[k] = call[p].value
      BY <1>0, <1>3, <2>3 DEF Remains, FileHas
    <3>2. p \in Processes /\ call[p].key = k /\ call[p].op = "set"
      BY <3>1 DEF Writing, TypeInv, OwnInv, SetOwnsItsKey
    <3> QED BY <1>3, <3>1, <3>2 DEF FileHas, CallHas
  <2> QED BY <2>1, <2>2, <2>3
<1>4. Done' = Done
  BY <1>1 DEF Done
<1>5. \A n, k : ~MemoryHas(n, k)' /\ ~CallHas(n, k)'
  BY <1>1 DEF MemoryHas, CallHas, NoCall
<1>6. \A k \in Keys : \A n : Kept(n, k)' => Kept(n, k)
  BY <1>1, <1>3, <1>5 DEF Kept
<1>7. Numbered'
  <2>1. NoKeyTwice(memory') /\ \A p \in Processes : call'[p].op # "set"
    BY <1>1 DEF NoKeyTwice, NoCall
  <2> QED BY <1>1, <1>6, <2>1 DEF PastInv, Numbered
<1>8. \A n \in superseded' : \A k \in Keys : ~MemoryHas(n, k)' /\ ~FileHas(n, k)'
  BY <1>1, <1>3, <1>5, InFlight DEF PastInv, Replaced
<1>9. \A p \in Processes : /\ PastOf(p)' /\ Erased(p)'
                           /\ answer'[p] \in Value => answer'[p].n \notin older'[p]
  BY <1>0, <1>1 DEF PastOf, Erased, Editing, NoCall
<1>10. Replaced'
  BY <1>1, <1>4, <1>8, <1>9 DEF PastInv, Replaced
<1> QED BY <1>1, <1>7, <1>10 DEF PastInv, PastShape

LEMMA PastStep == TypeInv /\ PastInv /\ [Next]_vars => PastInv'
<1> SUFFICES ASSUME TypeInv, PastInv, [Next]_vars PROVE PastInv'
  OBVIOUS
<1>1. ASSUME NEW p \in Processes, Begin(p) \/ Continue(p) PROVE PastInv'
  BY <1>1, BeginStep, DiskPast, CountPast, GetPast DEF Continue
<1>2. CASE OpenIndex \/ CreateIndex \/ WalkOn \/ WriteIndex \/ Launch \/ UNCHANGED vars
  <2>1. UNCHANGED <<memory, files, pc, call, answer, older, done, superseded, edits>>
    BY <1>2 DEF OpenIndex, CreateIndex, WalkOn, WriteIndex, Launch, vars, cacheVars, fileVars,
       callVars, pastVars, lifeVars
  <2>2. FilesFromCalls /\ \A p \in Processes : ErasedNext(p)
    BY <2>1 DEF FilesFromCalls, FileHas, ErasedNext
  <2> QED BY <2>1, <2>2, FilesPast
<1>3. CASE CreateFails \/ Interrupt
  BY <1>3, DiePast DEF CreateFails, Interrupt
<1> QED BY <1>1, <1>2, <1>3 DEF Next, Save

(* No Get comes to an answer that had been replaced, deleted or cleared    *)
(* when it began (NoStaleAnswer): neither level, no crash in the middle of *)
(* a write and no restart with an old index brings one back.               *)
THEOREM NothingStale == Spec => []NoStaleAnswer
<1>1. TypeInv /\ PastInv => NoStaleAnswer
  <2> SUFFICES ASSUME TypeInv, PastInv, NEW p \in Processes, pc[p] = "decode", answer[p] # Torn
               PROVE  answer[p].n \notin older[p]
    BY DEF NoStaleAnswer
  <2>1. answer[p] \in Value
    BY DEF TypeInv, OwnInv, GetOwnsItsKey, Reading, FileOf, Owned
  <2> QED BY <2>1 DEF PastInv, Replaced
<1>2. TypeInv /\ PastInv /\ [Next]_vars => (TypeInv /\ PastInv)'
  BY TypeStep, PastStep
<1>3. Init => TypeInv /\ PastInv
  BY TypeInit, InitPast
<1> QED BY <1>1, <1>2, <1>3, PTL DEF Spec
=============================================================================

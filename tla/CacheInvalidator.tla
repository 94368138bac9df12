-------------------------- MODULE CacheInvalidator --------------------------
(***************************************************************************)
(* The two-level cache of groove/proxy/cache/invalidator.go: an LRU cache  *)
(* in memory over an LRU cache on disk, and the index file that carries    *)
(* the disk's list from one process to the next.  An operation of one      *)
(* level is a step here (LRUCache has its inside), except that a disk Set  *)
(* deletes, purges and writes in steps of their own, for the purge's loop  *)
(* and a crash during the write are what matters at this height.  The      *)
(* files are diskv's and outlive the process.                              *)
(***************************************************************************)
EXTENDS Integers, FiniteSets, SequencesExt

CONSTANTS
  Processes,     \* goroutines, each making one call at a time
  Queries, Keys,
  KeysOf,        \* the keys a query may be looked up and stored under
  SizesOf,       \* the sizes an answer to it may have
  MaxMemory, MaxDisk,
  SaveInterval,  \* saveInterval
  Refused,       \* keys diskv writes no file for: base64 has slashes
  MayFail,       \* whether writing a file can fail
  Clearers,      \* the processes that call Clear
  Deleted,       \* the queries some caller deletes; the proxy itself deletes none
  MaxEdits, MaxCrashes, MaxWalk,  \* bounds: calls that write, crashes, steps of a walk
  None, Torn     \* no value; a file that a crash has left half written

Sizes == UNION {SizesOf[q] : q \in Queries}

ASSUME InvalidatorAssumption ==
  /\ IsFiniteSet(Processes) /\ Clearers \subseteq Processes
  /\ Deleted \subseteq Queries
  /\ KeysOf \in [Queries -> SUBSET Keys]
  /\ SizesOf \in [Queries -> SUBSET (Nat \ {0})]
  /\ MaxMemory \in Nat /\ MaxDisk \in Nat
  /\ SaveInterval \in Nat \ {0}
  /\ Refused \subseteq Keys
  /\ MayFail \in BOOLEAN
  /\ MaxEdits \in Nat /\ MaxCrashes \in Nat /\ MaxWalk \in Nat
  /\ None # Torn /\ None \notin [key : Keys, size : Sizes, id : Int]
  /\ None \notin Processes
  /\ None \notin [query : Queries, n : 1..MaxEdits, size : Sizes]
  /\ Torn \notin [query : Queries, n : 1..MaxEdits, size : Sizes]

VARIABLES
  up,                \* whether the process is running
  memory,            \* memory level: entries, freshest first
  diskList,          \* disk level: orderedCacheKeys, keyToElement,
  diskMap,           \* currentSize and the holder of linkedListLock
  diskSize,
  diskLock,
  files, folder,     \* diskv's files, and whether their folder exists
  index,             \* index.json: its entries, or None where there is no file
  operationCounter,
  waiting,           \* save goroutines that have not got indexWriteLock
  writer,            \* the one that has it
  pc, call,          \* each process's call and the point it has reached
  answer,            \* the value each Get has come to
  seen,              \* the operationCounter each process has read
  edits, crashes,
  leftovers,         \* files that this process found and its index did not list
  older,             \* superseded when the call of a process began
  done, superseded   \* edits completed, and completed later ones replaced

diskVars == <<diskList, diskMap, diskSize>>
fileVars == <<files, folder, index>>
cacheVars == <<memory, diskVars, diskLock, fileVars>>
saveVars == <<operationCounter, waiting, writer, seen>>
pastVars == <<older, done, superseded>>
callVars == <<pc, call, answer, pastVars>>
lifeVars == <<up, edits, crashes, leftovers>>
vars == <<cacheVars, saveVars, callVars, lifeVars>>

-----------------------------------------------------------------------------
Value == [query : Queries, n : 1..MaxEdits, size : Sizes]
Element == [key : Keys, size : Sizes, id : Int]
Entry == [key : Keys, size : Sizes]
Labels == {"idle", "memoryGet", "diskHas", "diskGet", "decode", "disk", "purge",
           "write", "count", "increment", "compare", "reset", "list", "eraseAll"}
NoCall == [op |-> "none", query |-> None, key |-> None, value |-> None]
Call == {NoCall} \cup [op : {"get", "delete"}, query : Queries, key : Keys, value : {None}]
                 \cup [op : {"set"}, query : Queries, key : Keys, value : Value]
                 \cup [op : {"clear"}, query : {None}, key : {None}, value : {None}]
Idle == [mode |-> "idle", at |-> None, old |-> None, entries |-> << >>]

Goto(p, label) == pc' = [pc EXCEPT ![p] = label]

(* What a caller may count on once its call has returned: the edit is in,  *)
(* and the edits completed before it began are over.                       *)
Return(p) ==
  /\ Goto(p, "idle")
  /\ call' = [call EXCEPT ![p] = NoCall]
  /\ answer' = [answer EXCEPT ![p] = None]
  /\ older' = [older EXCEPT ![p] = {}]
  /\ IF call[p].op = "get" THEN UNCHANGED <<done, superseded>> ELSE
       /\ superseded' = superseded \cup older[p]
       /\ done' = IF call[p].op = "set"
                    THEN [done EXCEPT ![call[p].key] = @ \cup {call[p].value.n}]
                    ELSE done

Bytes(list) == SumFunction([i \in DOMAIN list |-> list[i].size])
Position(e) == CHOOSE i \in DOMAIN diskList : diskList[i] = e
ListWithout(e) ==
  IF e \in ToSet(diskList) THEN RemoveAt(diskList, Position(e)) ELSE diskList

Init ==
  /\ up = TRUE
  /\ memory = << >>
  /\ diskList = << >> /\ diskMap = [k \in Keys |-> None]
  /\ diskSize = 0 /\ diskLock = None
  /\ files = [k \in Keys |-> None] /\ folder = FALSE /\ index = None
  /\ operationCounter = 0 /\ waiting = 0 /\ writer = Idle
  /\ pc = [p \in Processes |-> "idle"] /\ call = [p \in Processes |-> NoCall]
  /\ answer = [p \in Processes |-> None] /\ seen = [p \in Processes |-> 0]
  /\ edits = 0 /\ crashes = 0 /\ leftovers = {}
  /\ older = [p \in Processes |-> {}]
  /\ done = [k \in Keys |-> {}] /\ superseded = {}

-----------------------------------------------------------------------------
(* The memory level as a list of keys and values, each Set, Get and Delete *)
(* of it a step: a Set keeps of the other entries, oldest out first, what  *)
(* fits beside the new one, and nothing at all when that alone is too big. *)
InMemory(k) == \E i \in DOMAIN memory : memory[i].key = k
Place(k) == CHOOSE i \in DOMAIN memory : memory[i].key = k
MemoryWithout(k) == IF InMemory(k) THEN RemoveAt(memory, Place(k)) ELSE memory
MemoryBytes(list) == SumFunction([i \in DOMAIN list |-> list[i].value.size])
MemoryWith(k, value) ==
  LET rest == MemoryWithout(k)
      room == {i \in 0..Len(rest) :
                 MemoryBytes(SubSeq(rest, 1, i)) + value.size <= MaxMemory}
  IN IF room = {} THEN << >>
     ELSE <<[key |-> k, value |-> value]>> \o SubSeq(rest, 1, Max(room))

(* Set begins with the memory level, ...                                   *)
Set(p) ==
  /\ up /\ pc[p] = "idle" /\ edits < MaxEdits
  /\ edits' = edits + 1
  /\ \E q \in Queries : \E k \in KeysOf[q], size \in SizesOf[q] :
       LET value == [query |-> q, n |-> edits', size |-> size]
       IN /\ call' = [call EXCEPT ![p] =
                        [op |-> "set", query |-> q, key |-> k, value |-> value]]
          /\ older' = [older EXCEPT ![p] = done[k]]
          /\ memory' = MemoryWith(k, value)
  /\ Goto(p, "disk")
  /\ UNCHANGED <<diskVars, diskLock, fileVars, saveVars, answer, done,
                 superseded, up, crashes, leftovers>>

(* ... and so does Delete.                                                 *)
Delete(p) ==
  /\ up /\ pc[p] = "idle" /\ edits < MaxEdits
  /\ edits' = edits + 1
  /\ \E q \in Deleted : \E k \in KeysOf[q] :
       /\ call' = [call EXCEPT ![p] =
                     [op |-> "delete", query |-> q, key |-> k, value |-> None]]
       /\ older' = [older EXCEPT ![p] = done[k]]
       /\ memory' = MemoryWithout(k)
  /\ Goto(p, "disk")
  /\ UNCHANGED <<diskVars, diskLock, fileVars, saveVars, answer, done,
                 superseded, up, crashes, leftovers>>

-----------------------------------------------------------------------------
(* The disk level.  deleteWithProtection finds the element of a key in the *)
(* map: an element that no key maps to cannot leave the list.              *)
Unlist(k) ==
  IF diskMap[k] = None THEN UNCHANGED diskVars ELSE
    /\ diskList' = ListWithout(diskMap[k])
    /\ diskSize' = diskSize - diskMap[k].size
    /\ diskMap' = [diskMap EXCEPT ![k] = None]

AfterDelete(p) ==
  IF call[p].op = "set" THEN Goto(p, "purge") /\ diskLock' = p
                        ELSE Goto(p, "count") /\ UNCHANGED diskLock

(* Mutant: only the memory level gives up the old value.                   *)
DiskDelete_MemoryOnly(p) ==
  /\ pc[p] = "disk" /\ diskLock = None
  /\ AfterDelete(p)
  /\ UNCHANGED <<memory, diskVars, fileVars, saveVars, call, answer, pastVars,
                 lifeVars>>

(* Set deletes a key that has a file, Delete any key.                      *)
DiskDelete(p) ==
  LET k == call[p].key
  IN /\ pc[p] = "disk" /\ diskLock = None
     /\ IF call[p].op = "set" /\ files[k] = None
          THEN UNCHANGED <<diskVars, files>>
          ELSE Unlist(k) /\ files' = [files EXCEPT ![k] = None]
     /\ AfterDelete(p)
     /\ UNCHANGED <<memory, folder, index, saveVars, call, answer, pastVars,
                    lifeVars>>

Full(p) == diskSize + call[p].value.size > MaxDisk

(* Mutant: the purge takes entries off the list and leaves their files.    *)
PurgeOldest_KeepsFile(p) ==
  /\ pc[p] = "purge" /\ Full(p) /\ diskList # << >>
  /\ Unlist(Last(diskList).key)
  /\ UNCHANGED <<memory, diskLock, fileVars, saveVars, callVars, lifeVars>>

(* One turn of the purge's loop, which keeps the lock.  A turn that finds  *)
(* nothing to remove changes nothing, and the next one finds the same: it  *)
(* is a stuttering step and the loop spins.                                *)
PurgeOldest(p) ==
  /\ pc[p] = "purge" /\ Full(p) /\ diskList # << >>
  /\ LET k == Last(diskList).key
     IN Unlist(k) /\ files' = [files EXCEPT ![k] = None]
  /\ UNCHANGED <<memory, diskLock, folder, index, saveVars, callVars,
                 lifeVars>>

(* allocateSpace reserves the bytes, or Set gives up.                      *)
EndPurge(p) ==
  /\ pc[p] = "purge" /\ (~Full(p) \/ diskList = << >>)
  /\ diskLock' = None
  /\ diskSize' = diskSize + (IF Full(p) THEN 0 ELSE call[p].value.size)
  /\ Goto(p, IF Full(p) THEN "count" ELSE "write")
  /\ UNCHANGED <<memory, diskList, diskMap, fileVars, saveVars, call, answer,
                 pastVars, lifeVars>>

DiskWrite(p) ==
  LET k == call[p].key
      e == [key |-> k, size |-> call[p].value.size, id |-> call[p].value.n]
  IN /\ pc[p] = "write" /\ diskLock = None /\ k \notin Refused
     /\ files' = [files EXCEPT ![k] = call[p].value]
     /\ folder' = TRUE
     /\ diskList' = <<e>> \o diskList
     /\ diskMap' = [diskMap EXCEPT ![k] = e]
     /\ Goto(p, "count")
     /\ UNCHANGED <<memory, diskSize, diskLock, index, saveVars, call, answer,
                    pastVars, lifeVars>>

(* diskv refuses a key before it touches the disk; a write that fails      *)
(* later removes the file when it has come to open it.  Set reports the    *)
(* error to the CacheInvalidator, which drops it.                          *)
DiskWriteFails(p) ==
  LET k == call[p].key
  IN /\ pc[p] = "write" /\ diskLock = None
     /\ \/ k \in Refused /\ UNCHANGED <<files, folder>>
        \/ /\ MayFail /\ k \notin Refused
           /\ \E left \in {None, files[k]} : files' = [files EXCEPT ![k] = left]
           /\ folder' \in {folder, TRUE}
     /\ diskSize' = diskSize - call[p].value.size
     /\ Goto(p, "count")
     /\ UNCHANGED <<memory, diskList, diskMap, diskLock, index, saveVars, call,
                    answer, pastVars, lifeVars>>

-----------------------------------------------------------------------------
(* writeIndex, first half: operationCounter is read, written, read again   *)
(* and reset with no lock, in every goroutine that has edited.             *)
ReadCounter(p) ==
  /\ pc[p] = "count"
  /\ seen' = [seen EXCEPT ![p] = operationCounter]
  /\ Goto(p, "increment")
  /\ UNCHANGED <<cacheVars, operationCounter, waiting, writer, call, answer,
                 pastVars, lifeVars>>

Increment(p) ==
  /\ pc[p] = "increment"
  /\ operationCounter' = seen[p] + 1
  /\ seen' = [seen EXCEPT ![p] = 0]
  /\ Goto(p, "compare")
  /\ UNCHANGED <<cacheVars, waiting, writer, call, answer, pastVars, lifeVars>>

(* Mutant: one edit more than the interval goes by without a save.         *)
Compare_OffByOne(p) ==
  /\ pc[p] = "compare"
  /\ IF operationCounter <= SaveInterval THEN Return(p)
     ELSE Goto(p, "reset") /\ UNCHANGED <<call, answer, pastVars>>
  /\ UNCHANGED <<cacheVars, saveVars, lifeVars>>

Compare(p) ==
  /\ pc[p] = "compare"
  /\ IF operationCounter < SaveInterval THEN Return(p)
     ELSE Goto(p, "reset") /\ UNCHANGED <<call, answer, pastVars>>
  /\ UNCHANGED <<cacheVars, saveVars, lifeVars>>

Reset(p) ==
  /\ pc[p] = "reset"
  /\ operationCounter' = 0
  /\ waiting' = waiting + 1
  /\ Return(p)
  /\ UNCHANGED <<cacheVars, writer, seen, lifeVars>>

-----------------------------------------------------------------------------
(* Get looks at both levels, asking each Has before it asks Get, and the   *)
(* disk's answer overrides the memory's.                                   *)
Get(p) ==
  /\ up /\ pc[p] = "idle"
  /\ \E q \in Queries : \E k \in KeysOf[q] :
       /\ call' = [call EXCEPT ![p] =
                     [op |-> "get", query |-> q, key |-> k, value |-> None]]
       /\ Goto(p, IF InMemory(k) THEN "memoryGet" ELSE "diskHas")
  /\ older' = [older EXCEPT ![p] = superseded]
  /\ UNCHANGED <<cacheVars, saveVars, answer, done, superseded, lifeVars>>

(* An entry that has been evicted since is an error, whatever the disk has.*)
MemoryGet(p) ==
  LET k == call[p].key
      held == memory[Place(k)]
  IN /\ pc[p] = "memoryGet"
     /\ IF InMemory(k)
          THEN /\ memory' = <<held>> \o MemoryWithout(k)
               /\ answer' = [answer EXCEPT ![p] = held.value]
               /\ Goto(p, "diskHas")
               /\ UNCHANGED <<call, pastVars>>
          ELSE Return(p) /\ UNCHANGED memory
     /\ UNCHANGED <<diskVars, diskLock, fileVars, saveVars, lifeVars>>

DiskHas(p) ==
  LET onDisk == files[call[p].key] # None
  IN /\ pc[p] = "diskHas"
     /\ \/ onDisk /\ Goto(p, "diskGet") /\ UNCHANGED <<call, answer, pastVars>>
        \/ /\ ~onDisk /\ answer[p] # None
           /\ Goto(p, "decode") /\ UNCHANGED <<call, answer, pastVars>>
        \/ ~onDisk /\ answer[p] = None /\ Return(p)
     /\ UNCHANGED <<cacheVars, saveVars, lifeVars>>

(* Mutant: a file that is gone is taken for an answer.                     *)
DiskGet_NoError(p) ==
  LET k == call[p].key
  IN /\ pc[p] = "diskGet" /\ diskLock = None
     /\ answer' = [answer EXCEPT ![p] = files[k]]
     /\ Goto(p, "decode")
     /\ UNCHANGED <<cacheVars, saveVars, call, pastVars, lifeVars>>

(* An element is moved to the front before its file is read.               *)
DiskGet(p) ==
  LET k == call[p].key
  IN /\ pc[p] = "diskGet" /\ diskLock = None
     /\ diskList' = IF diskMap[k] = None THEN diskList
                    ELSE <<diskMap[k]>> \o ListWithout(diskMap[k])
     /\ IF files[k] = None THEN Return(p)
        ELSE /\ answer' = [answer EXCEPT ![p] = files[k]]
             /\ Goto(p, "decode")
             /\ UNCHANGED <<call, pastVars>>
     /\ UNCHANGED <<memory, diskMap, diskSize, diskLock, fileVars, saveVars,
                    lifeVars>>

Decode(p) ==
  /\ pc[p] = "decode" /\ Return(p)
  /\ UNCHANGED <<cacheVars, saveVars, lifeVars>>

-----------------------------------------------------------------------------
(* Clear empties the memory level, then the disk's list, then the disk's   *)
(* folder, in which the index file lies, too.                              *)
Clear(p) ==
  /\ up /\ pc[p] = "idle" /\ p \in Clearers /\ edits < MaxEdits
  /\ edits' = edits + 1
  /\ memory' = << >>
  /\ call' = [call EXCEPT ![p] =
                [op |-> "clear", query |-> None, key |-> None, value |-> None]]
  /\ older' = [older EXCEPT ![p] = UNION {done[k] : k \in Keys}]
  /\ Goto(p, "list")
  /\ UNCHANGED <<diskVars, diskLock, fileVars, saveVars, answer, done,
                 superseded, up, crashes, leftovers>>

(* A writer under way goes on along the list it has begun.                 *)
ClearDiskList(p) ==
  /\ pc[p] = "list" /\ diskLock = None
  /\ diskList' = << >> /\ diskMap' = [k \in Keys |-> None] /\ diskSize' = 0
  /\ writer' = IF writer.mode # "idle" /\ writer.old = None
                 THEN [writer EXCEPT !.old = diskList] ELSE writer
  /\ Goto(p, "eraseAll")
  /\ UNCHANGED <<memory, diskLock, fileVars, operationCounter, waiting, seen,
                 call, answer, pastVars, lifeVars>>

EraseAll(p) ==
  /\ pc[p] = "eraseAll"
  /\ files' = [k \in Keys |-> None] /\ index' = None /\ folder' = FALSE
  /\ writer' = IF writer.mode = "new" THEN [writer EXCEPT !.mode = "unlinked"]
                                      ELSE writer
  /\ Return(p)
  /\ UNCHANGED <<memory, diskVars, diskLock, operationCounter, waiting, seen,
                 lifeVars>>

-----------------------------------------------------------------------------
(* The end of the process, by an interrupt or by a panic, between any two  *)
(* steps.  A file that is being written may be there, or half of it; a     *)
(* folder that is being erased may have lost some of its files.            *)
Writing(k) == {p \in Processes : pc[p] = "write" /\ call[p].key = k /\ k \notin Refused}
Erasing == {p \in Processes : pc[p] = "eraseAll"}
Remains(k) ==
  {files[k]} \cup (IF Writing(k) = {} THEN {} ELSE {Torn})
             \cup {call[p].value : p \in Writing(k)} \cup {None : p \in Erasing}
Unsure == {k \in Keys : Remains(k) # {files[k]}}

Die ==
  /\ up' = FALSE
  /\ \E left \in [Unsure -> UNION {Remains(k) : k \in Unsure}] :
       /\ \A k \in Unsure : left[k] \in Remains(k)
       /\ files' = [k \in Keys |-> IF k \in Unsure THEN left[k] ELSE files[k]]
  /\ index' \in {index} \cup {None : p \in Erasing}
  /\ folder' = (folder \/ \E k \in Keys : files'[k] # None)
  /\ memory' = << >>
  /\ diskList' = << >> /\ diskMap' = [k \in Keys |-> None]
  /\ diskSize' = 0 /\ diskLock' = None
  /\ operationCounter' = 0 /\ waiting' = 0 /\ writer' = Idle
  /\ pc' = [p \in Processes |-> "idle"] /\ call' = [p \in Processes |-> NoCall]
  /\ answer' = [p \in Processes |-> None] /\ seen' = [p \in Processes |-> 0]
  /\ older' = [p \in Processes |-> {}]
  /\ UNCHANGED <<done, superseded, edits, leftovers>>

Interrupt ==
  /\ up /\ crashes < MaxCrashes
  /\ crashes' = crashes + 1
  /\ Die

(* readIndex, whose file may not be there.  An element's id tells it from  *)
(* those that this process will push.                                      *)
ReadIndex ==
  IF index = None THEN << >>
  ELSE [i \in DOMAIN index |->
          [key |-> index[i].key, size |-> index[i].size, id |-> -i]]

(* buildDiskCache: the list comes from the index and not from the files.   *)
Launch ==
  /\ ~up /\ up' = TRUE
  /\ LET loaded == ReadIndex
         places(k) == {i \in DOMAIN loaded : loaded[i].key = k}
     IN /\ diskList' = loaded
        /\ diskMap' = [k \in Keys |-> IF places(k) = {} THEN None
                                      ELSE loaded[Max(places(k))]]
        /\ diskSize' = Bytes(loaded)
        /\ leftovers' = {files[k] : k \in {x \in Keys : diskMap'[x] = None}} \ {None}
  /\ UNCHANGED <<memory, diskLock, fileVars, saveVars, callVars, edits,
                 crashes>>

-----------------------------------------------------------------------------
(* writeIndex, second half: the save goroutine.  os.Open gives it the file *)
(* there is for reading only, and the write that fails in the end fails    *)
(* silently; os.Create gives it a new and empty one.                       *)
OpenIndex ==
  /\ waiting > 0 /\ writer.mode = "idle" /\ index # None
  /\ waiting' = waiting - 1
  /\ UNCHANGED <<cacheVars, operationCounter, writer, seen, callVars,
                 lifeVars>>

CreateIndex ==
  /\ waiting > 0 /\ writer.mode = "idle" /\ index = None /\ folder
  /\ waiting' = waiting - 1
  /\ index' = << >>
  /\ writer' = [mode |-> "new", old |-> None, entries |-> << >>,
                at |-> IF diskList = << >> THEN None ELSE diskList[1]]
  /\ UNCHANGED <<memory, diskVars, diskLock, files, folder, operationCounter,
                 seen, callVars, lifeVars>>

(* Without the folder there is no creating the file: panic(err).           *)
CreateFails ==
  /\ waiting > 0 /\ writer.mode = "idle" /\ index = None /\ ~folder
  /\ Die
  /\ UNCHANGED crashes

(* element.Next(), in a list that the calls change meanwhile: nothing once *)
(* the element has been removed, and what comes after its place of now     *)
(* when it has been moved.                                                 *)
Walked == IF writer.old = None THEN diskList ELSE writer.old
NextOfWalk ==
  LET after == {i \in DOMAIN Walked : i > 1 /\ Walked[i - 1] = writer.at}
  IN IF after = {} THEN None ELSE Walked[CHOOSE i \in after : TRUE]

WalkOn ==
  /\ writer.at # None /\ Len(writer.entries) < MaxWalk
  /\ writer' = [writer EXCEPT
       !.entries = Append(@, [key |-> writer.at.key, size |-> writer.at.size]),
       !.at = NextOfWalk]
  /\ UNCHANGED <<cacheVars, operationCounter, waiting, seen, callVars,
                 lifeVars>>

WriteIndex ==
  /\ writer.mode # "idle" /\ writer.at = None
  /\ index' = IF writer.mode = "new" THEN writer.entries ELSE index
  /\ writer' = Idle
  /\ UNCHANGED <<memory, diskVars, diskLock, files, folder, operationCounter,
                 waiting, seen, callVars, lifeVars>>

-----------------------------------------------------------------------------
Begin(p) == Set(p) \/ Delete(p) \/ Get(p) \/ Clear(p)

Continue(p) ==
  \/ DiskDelete(p) \/ PurgeOldest(p) \/ EndPurge(p)
  \/ DiskWrite(p) \/ DiskWriteFails(p)
  \/ ReadCounter(p) \/ Increment(p) \/ Compare(p) \/ Reset(p)
  \/ MemoryGet(p) \/ DiskHas(p) \/ DiskGet(p) \/ Decode(p)
  \/ ClearDiskList(p) \/ EraseAll(p)

Save == OpenIndex \/ CreateIndex \/ CreateFails \/ WalkOn \/ WriteIndex

Next ==
  \/ \E p \in Processes : Begin(p) \/ Continue(p)
  \/ Save \/ Interrupt \/ Launch

Spec == Init /\ [][Next]_vars

(* A call that has begun goes on, whoever else contends for its lock, and  *)
(* a save goroutine that has been started runs.                            *)
FairSpec == Spec /\ WF_vars(Save) /\ \A p \in Processes : SF_vars(Continue(p))

-----------------------------------------------------------------------------
TypeOK ==
  /\ up \in BOOLEAN /\ folder \in BOOLEAN
  /\ memory \in Seq([key : Keys, value : Value])
  /\ diskList \in Seq(Element)
  /\ diskMap \in [Keys -> Element \cup {None}]
  /\ diskSize \in Int
  /\ diskLock \in Processes \cup {None}
  /\ files \in [Keys -> Value \cup {None, Torn}]
  /\ index \in Seq(Entry) \cup {None}
  /\ operationCounter \in Nat /\ waiting \in Nat
  /\ writer.mode \in {"idle", "new", "unlinked"}
  /\ writer.at \in Element \cup {None}
  /\ writer.old \in Seq(Element) \cup {None}
  /\ writer.entries \in Seq(Entry)
  /\ pc \in [Processes -> Labels]
  /\ call \in [Processes -> Call]
  /\ answer \in [Processes -> Value \cup {None, Torn}]
  /\ \A p \in Processes : pc[p] = "decode" => answer[p] # None
  /\ seen \in [Processes -> Nat]

(* A Get never answers with a value that had been replaced, deleted or     *)
(* cleared, by a call that had returned, when the Get began: not from the  *)
(* other level, not after a crash, and not after a restart that has loaded *)
(* an index older than the files.                                          *)
NoStaleAnswer ==
  \A p \in Processes : pc[p] = "decode" =>
    answer[p] = Torn \/ answer[p].n \notin older[p]

(* Where no two queries share a key: what a query is answered with was     *)
(* stored as the answer to it, whatever calls overlap or are cut off.      *)
AnswersOwnQuery ==
  \A p \in Processes : pc[p] = "decode" =>
    answer[p] = Torn \/ answer[p].query = call[p].query

(* "Sort arguments to align them across cache requests with same           *)
(* parameters" (cache_key.go): the answers to one query are on disk under  *)
(* one key.                                                                *)
OneEntryPerQuery ==
  \A k, l \in Keys :
    files[k] \notin {None, Torn} /\ files[l] \notin {None, Torn} /\ k # l
      => files[k].query # files[l].query

(* A file the purge cannot come to, because no element stands for its key, *)
(* was there when the process was launched and missing from the index, or  *)
(* a Clear is about to erase it: the process itself leaves none behind.    *)
OnlyLeftoversUnlisted ==
  \A k \in Keys : files[k] # None /\ diskMap[k] = None =>
    \/ ~up
    \/ files[k] \in leftovers
    \/ Erasing # {}

(* Whatever increments are lost between goroutines, the counter does not   *)
(* stay at the "amount of edits before the meta-index is saved to disk"    *)
(* (invalidator.go): a call is about to find it there and to save.         *)
SaveNotOverdue ==
  operationCounter >= SaveInterval =>
    \E p \in Processes : pc[p] \in {"compare", "reset"}

(* Every call returns: "Purge the oldest entries until we have enough      *)
(* space" (lru.go) comes to an end.                                        *)
CallsReturn == \A p \in Processes : pc[p] # "idle" ~> pc[p] = "idle"
=============================================================================

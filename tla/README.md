# Groove proxy: TLA+ models, model checking and proofs

This directory holds a formal model of the Groove proxy (`src/groove/proxy`, a
Go program built on a fork of goproxy), the instances on which TLC checks it,
and theorems about it that the TLA+ proof system (TLAPS) checks for every value
of the constants.

Groove is a man-in-the-middle proxy for crawlers and unit tests. A client's
request runs in a goroutine of its own through three request handlers
(headers, recorder, cache), a round trip through one of several *dialers*, and
two response handlers (recorder, cache). Another goroutine serves the control
API, which changes the same data. Little of that data is locked, and where it
is, the locks are the interesting part: nearly everything that can go wrong in
this program goes wrong between two goroutines.

How to run things (TLA+ tools and community modules on the path):

    tlc -workers 2 -config MCRecorder.cfg MCRecorder
    tlapm RequestCacheProofs.tla

## 1. Inventory

| Component | Source | State | Operations | Model |
|---|---|---|---|---|
| Request cache | `cache.go` | cache mode, `inflightRequests` (URL -> mutex), `blockingLocks`, the store | `GetCacheContents`, `AcquireRequestLock`, `ReleaseRequestLock`, `SetValidCacheContents`, `SetFailedCacheContents`, `Clear`, the two middleware handlers | `RequestCache`, `SingleFlight` |
| LRU cache | `cache/lru.go` | list of metadata, map of its elements, `currentSize`, `linkedListLock`, backing store | `Set`, `Get`, `Delete`, `DeleteAll` | `LRUCache`, `BoundedLRU` |
| Cache invalidator | `cache/invalidator.go` | memory level, disk level, index file, `operationCounter` | two-level `Get`/`Set`/`Clear`, index writer, start from the index | `CacheInvalidator`, over two levels whose inside is `LRUCache` |
| Tape recorder | `recorder.go`, `archives.go` | mode, `records`, `consumedRecords` | `LogPair`, `FindMatchingResponse`, `LoadData`, `Clear`, `ClearTapeID`, `ExportData` | `Recorder` |
| Headers | `headers.go` | none | gives a request its tape and resource type | `Recorder` (`Arrive`), `Dialers` (`TypeOf`) |
| Control API | `controller.go` | none of its own | tape record/stop/load/retrieve/clear, cache mode/clear, dialer load | `RequestCache`, `Recorder`, `Dialers` |
| Dialer session | `dialers.go` | `DialerDefinitions`, contexts (`remainingTries`, `attemptedDialers`) | `NewDialerContext`, `NextDialer` | `Dialers` |
| Round tripper | `transport.go` | `protocolMap`, `handlerMap` | `RoundTrip`, `solveProtocol`, `solveTransport` | `Dialers` |
| Certificate store | `optimized_storage.go` | map of certificates, map of host mutexes | `Fetch`, `hostLock` | `CertStore` |
| Cache key | `cache_key.go` | none | `getCacheKey` and its sort | `CacheKey` |
| Helpers | `utilities.go` | none | `filterSlice`, `contains`, `getRedirectHistory` | inside `Recorder` and `Dialers` |
| Process | `main.go` | all of the above | start, interrupt | `Launch`, `Interrupt` of the modules |
| End proxy dialer, CA installation | `end_proxy.go`, `cert.go` | none | network and file I/O, one call each | not modelled |
| Python and Node clients | `groove-python`, `groove-node` | the child process | wrappers of the control API, `launch()` | not modelled |
| Benchmarks | `proxy-benchmarks` | - | a separate measuring tool | not modelled |

How they interact:

- *Calls.* recorder handler -> cache handler -> `RoundTrip` -> recorder response
  handler -> cache response handler, all in the request's goroutine. If the
  recorder answers (a tape is loaded) the cache's request handler is skipped,
  but the response handlers still run.
- *Shared state.* `recorder.mode` is read by the recorder *and* the cache, at
  different moments of one request. `cache.mode` is read by the lock and by the
  writers of the store. Both are written by the control API at any moment.
- *Callbacks.* The LRU list calls the backing store outside its lock, except
  while it purges.
- *The environment.* Origins answer, fail or break off; the clock expires
  entries; an interrupt ends the process at once, and the disk level of the
  cache survives it.

What is hard to test here, and what would show it: `PROJECT.json` lists every
hazard at its line. The main groups are the request locks (a release by a
request that holds nothing), the mode that changes under a request, the LRU
purge, lost updates of the recorder's slices, definitions replaced while
requests choose one, and the index file.

What makes each component correct:

- request cache: one outbound request per URL; every lock taken is given back;
  every request ends; counters exact;
- LRU cache: bounded, consistent list/map/bytes/values, every call returns;
- recorder: a session keeps what was recorded; a tape is replayed once, in
  order, and blocks nothing it could have replayed;
- invalidator: no replaced answer comes back, whichever level or file it lies in;
  every file is within reach of the purge; every call returns;
- cache key: one key per query, and no key for two;
- dialers: best dialer first, all of them before failing, the transport of the
  chosen dialer, every round trip ends;
- certificates: generated once per host, and a slow host holds up only itself.

## 2. Plan

Modules, in the order of their importance. A module with a theorem has no
RECURSIVE operator; a parameter is a CONSTANT with a named assumption.

1. `RequestCache` with the abstract `SingleFlight`, proofs in
   `RequestCacheProofs` - **done**
2. `LRUCache` with the abstract `BoundedLRU`, proofs in `LRUCacheProofs` - **done**
3. `CertStore`, `CertStoreProofs` - **done**
4. `Dialers`, `DialersProofs` - **done**
5. `Recorder`, `RecorderProofs` - **done**. `FilterSlice` is a recursive
   function where `SelectSeq` of the standard modules would do, because the
   provers know nothing of `SelectSeq`
6. `CacheInvalidator`: the two levels, the index file, crash and restart,
   proofs in `CacheInvalidatorProofs` - **done**
7. `CacheKey`: the sort of `cache_key.go` with its comparator - **done**, as the
   keys of `CacheInvalidator`'s instances
8. A composition of `RequestCache` with `CacheInvalidator` as its store, in
   place of the abstract one that may drop anything. What the store adds to the
   request cache is a fatal panic and an endless purge; both are already among
   the outcomes of `RequestCache` (a crash at any step) or shown here - **left
   out** for that reason

`SharedLemmas` holds what the proofs about several components need of naturals,
lists and sums. Every safety invariant, action property and refinement that a
passing run checks is proved, but for `AnswersOwnQuery`, which depends on the
keys; what is left to TLC is at the end of section 5.

Abstract specifications: `SingleFlight` (what the README promises of the locks)
and `BoundedLRU` (what a bounded LRU list is). The two levels together are no
bounded map, because what the index misses is served and not counted:
`NoStaleAnswer` and `OnlyLeftoversUnlisted` say what is left of one.

## 3. The modules and the code

Conventions: `pc[r]` says where goroutine `r` is; a label is a point where
another goroutine can run, so two steps stand for two statements only if
something can happen between them that matters. Operators named `X_Y` next to
an action `X` are *mutants*: the plausible bug named in their comment, kept
beside the original to show that a property notices it. They are no part of
`Next`.

### RequestCache (`cache.go`, with `recorder.go` and `controller.go` for the modes)

`lockMap` is the domain of `inflightRequests`, `locked` the state of the
mutexes, `blocking` is `blockingLocks`. `ReplayTape`/`PassRecorder` are the
recorder's request handler, `CacheHit`/`CacheMiss`/`SkipCache` the cache's,
`FindLock` ... `UncountBlocked` are `AcquireRequestLock` step by step,
`RespondError`/`RespondAndStore`/`RespondWithoutRelease` the response handler
with its early return, `TryLock`/`Unlock` the "liberal" release. `MapRace` is
the read of the map outside `lockGeneration`; the Go runtime may end the
process there. The store maps keys to a kind of entry and an age in
{fresh, expired}; any entry may vanish (`Evict`), as any can in the real one.
`Launch` starts a process from the store and nothing else. `holds` and `stray`
are history: who has locked what, and which mutexes were unlocked by others.

`SingleFlight` is the promise "Limit outbound requests of the same URL to 1
concurrent request" as a state machine over the set of outbound requests.

### LRUCache (`cache/lru.go`)

The list, the map, the byte count and the lock as in the code. `Set` is
`Set` -> (`DeleteMetadata`, `DeleteKeyCallback`) -> `StartPurge`,
`PurgeOldest`/`PurgeErase`, `EndPurge` -> `AllocateSpace` -> `SetValueCallback`
-> `PushFront`, with `NoSpace`, `SetValueFails` and `Refund` for the error
paths. Elements have identities because the code compares pointers: two
elements of one key are what the endless purge is made of. `QuietClear`
restricts `DeleteAll` to moments when no other call is under way: an assumption
on the users of the control API, made where `BytesAccounted`, `ListedIsReadable`
and the refinement need it. The proofs make it for these three and for no other.

`BoundedLRU` is a list of entries, no key twice, at most `MaxSize` bytes, with
put, touch, drop and clear.

### Recorder (`recorder.go`, `archives.go`, the tape calls of `controller.go`)

`records` is a sequence of pointers, `heap` what each points to, because
`contains` compares pointers and JSON decoding writes *through* the pointers it
finds. `FilterSlice` is `filterSlice`; a request searches the records that
match it, in their order. `PassThrough` and `LookUp` read the mode,
`FindMatchingResponse` the records, both one step each; `AlreadySeen`,
`FoundRecord` and `NoMatch` are a turn of its loop. A slice is read in one step
(`ReadConsumed`, `ReadRecords`, `ReadForFilter`) and written in a later one
(`MarkConsumed`, `AppendRecord`, `FilterRecords`, `FilterConsumed`), and the
look into the marks (`FoundRecord`) is a step before both. A control call sets the mode and leaves a
script of steps in `control` (`Clear`, `DecodeRecord`, `Truncate`, ...); clients
make one call at a time. `Recorder.Clear`'s two assignments are one step: every
step of another goroutine touches only one of the two slices after having read
both, so it commutes with one of the halves. `tape/retrieve` changes nothing.
The history variables are described above the properties. `stored` are the
records that were appended, `settled` those that were marked, with nobody else
between reading the slice and writing it (and, for a mark, nobody about to mark
the same record): what overlaps may lose its own work,
and `SessionRecorded` and `ReplayOnce` say that nothing else is lost by it,
then or later. `lost` says that since the last clear a goroutine has written a slice
that another had written after it was read (not merely that two overlapped); the
order of replay and the blocked requests are then no longer spoken of.

### Dialers (`dialers.go`, `transport.go`, `controller.go`'s dialer/load)

`definitions` is emptied by `DialerLoad` and filled by `AppendDefinition`, one
step each; `RejectRegex` is the early return on a bad expression.
`NextDialer`/`ExhaustedDialers` are `NextDialer` with its filter, the maximum
that starts at 0 and the random choice. A turn of `RoundTrip` is protocol (from
the map, or by dialing), transport (from the map, or new), send.
`DefinitionsRace` is the unguarded read of the slice while it is written.
`MaxId` bounds how many definitions a process ever creates.

### CertStore (`optimized_storage.go`)

Each lock and unlock is a step: the store's mutex, the host's mutex, the write
side of the map's lock; its read side is held for one read, one step. A mutex
is identified by the call that created it. `GenCert` is goproxy's callback; it
may fail and it may take for ever.

### CacheInvalidator (`cache/invalidator.go`, with `cache/lru.go`)

`memory` is the memory level, one list of keys and values. `diskList`,
`diskMap`, `diskSize` and `diskLock` are the disk level's bookkeeping, `files`
and `folder` what diskv has on disk, `index` the file `index.json`; the last
three outlive the process. A call is a record in `call`, and `pc` is where it is:
`Set` and `Delete` change the memory level and go on to the disk level
(`DiskDelete`, then for a `Set` `PurgeOldest`, `EndPurge` and `DiskWrite` or
`DiskWriteFails`), then to the counter (`ReadCounter`, `Increment`, `Compare`,
`Reset`: one unlocked read or write each). `Get` is `Get` (the memory's `Has`),
`MemoryGet`, `DiskHas`, `DiskGet`, `Decode`. `Clear` is `Clear` (the memory
level), `ClearDiskList`, `EraseAll`.

An operation of one level is one step wherever `LRUCache` has its inside: there
the interleavings within a level are explored, here those between the levels,
the files, the index and a crash. The turns of the purge are steps of their own
here, too, because an element that no key maps to makes a turn that changes
nothing: the loop then spins with the lock held, and `CallsReturn` sees it.

`OpenIndex`, `CreateIndex` and `CreateFails` are the three outcomes of the
save goroutine's `os.Open`: the index exists and is opened for reading (nothing
will be written), it is created, or it cannot be created and the goroutine
panics. `WalkOn` is one turn of the walk along the list, which changes meanwhile:
`NextOfWalk` is `element.Next()`, which ends at a removed element, follows a
moved one to its new place, and stays in the old list when a clear replaces it
(`writer.old`). `WriteIndex` writes what was collected, into a file that a clear
may have unlinked in between.

`Die` is the end of the process at any step, by an interrupt or a panic: a file
being written is there, torn or absent, a folder being erased has lost any part
of its files. `Launch` loads the index as `buildDiskCache` does. A torn file
decodes to an error, which is a miss.

`done`, `superseded`, `older` and `leftovers` are history: which edits have
returned, which of them a later edit that has returned replaced, which were so
replaced when a call began, and which files a launch found that its index does
not list.

### CacheKey (`cache_key.go`)

`QueryArrays` is every order in which Go may walk the query's map, `Less` the
comparator with its repeated test, `Sort` the insertion sort that package
`sort` uses below 12 elements, `GetCacheKey` the set of keys a request may have.
`MCCacheInvalidator` computes the keys of its queries with it and numbers them.

### External parts

diskv (which refuses a key with a slash, writes in place and creates its folder
with the first file), the file system, package `sort`,
goproxy (the order of the handlers, one goroutine per request, `ctx.Error` for
a failed round trip), `container/list`, the Go runtime's allocation and its map
and mutex checks, and `genCert` are not under `src/`; they are modelled from
how the code uses them, and marked external in `PROJECT.json`.

## 4. What is checked

| Run | Instance | What it shows |
|---|---|---|
| `rc_full` | 2 requests, 1 URL, all modes, all outcomes, restarts | types; a lock excludes until somebody unlocks it who does not hold it; `blockingLocks` exact |
| `rc_no_tape` | 2 requests (GET, POST), mode changes at will, no tape | no lock is abandoned; every request completes |
| `rc_uncacheable` | 3 requests, 2 URLs, nothing cacheable | the locks implement `SingleFlight`; no fatal `Unlock` |
| `rc_fatal_unlock` (*violated*) | 2 requests, cacheable, standard mode | a hit's release overlaps another release: `Unlock` of an unlocked mutex ends the process |
| `lru_shared` | 3 goroutines, 2 shared keys, bound 2 | map and list agree, bytes are accounted for, no value leaks |
| `lru_disjoint` | 2 goroutines, 3 keys, no key shared, failing writes, a value beyond the bound | implements `BoundedLRU`; listed keys are readable; every call returns |
| `cert_store` | 3 connections, 2 hosts, failures | generated once, stored = returned, only the own host blocks |
| `dialers` | 2 requests, 1 host, two lists, one rejected half way | order of the tries, none left out, right transport, every round trip ends |
| `recorder` | 2 requests, a tape of two records, one of them with a tape's identifier, 3 pointers | what is settled is not replayed again, what is stored stays; replay in order, block only what was played, until an update is lost |
| `invalidator` | 2 goroutines, 3 queries, 2 sizes, one key refused by diskv, failing writes, deletes, clears, a crash and any panics | no replaced answer, none of another query whose key is another; only what a lost index misses escapes the purge; the counter does not stay at the interval |
| `invalidator_spin` (*violated*) | 1 goroutine, a save after every edit, 1 crash | after a restart the purge meets an element of the stale index and spins with the lock held |
| `cache_key_order` (*violated*) | 1 goroutine, a query `a=2&b=1` | its answers are stored under two keys |

Every property has a mutant (`PROJECT.json`): a plausible bug in the code it
speaks about, on which TLC finds the property violated.

**Bounds.** Two goroutines show every pairwise race, and each violation found
needs only two. `rc_uncacheable`, `lru_shared` and `cert_store` have three, so
that a third can pass while two are engaged (the third request beside a holder
and a waiter; a purge while two pushes are pending). One URL or host suffices
where different ones share nothing but a map whose lock is modelled;
`rc_uncacheable` has a second URL with a shared key because lock names and store
names differ in the code. Three pointers in `Recorder` are a tape of two
records and one late exchange; where the pointers are used up a goroutine
waits, which only removes behaviours beyond the bound. `Elements` in `LRUCache`
is at least the number of elements that can be in sight at once, so no push
ever waits. Sizes 1 and 2 with a bound of 2 (or 1, 2, 4 with a bound of 3)
make values that fit together, that need a purge, and that never fit.
`MaxId = 5` allows one full load on top of the initial definition and another
that is rejected. In `invalidator`, three edits (`MaxEdits`: a set, what
replaces it, and what purges or deletes or clears either), one crash that is
not a panic (`MaxCrashes`), an index walked for two elements at most (`MaxWalk`)
and a save at every second edit (`SaveInterval` is 10 in the proxy, and nothing
depends on it but the counter) let an old value, its file and an index that
names it meet; a memory bound of 1 and a disk bound of 2 make the levels hold
different entries. Its queries have values that ascend with their names and
neither `&` nor `=` in them, so that each has one key and no two share one:
`AnswersOwnQuery` is checked for such queries only. What other queries meet is
`cache_key_order`, and section 6. Symmetry is used in `lru_shared`,
`recorder` and `invalidator`, for safety only.

**Fairness.** The Go scheduler runs every goroutine that can run: weak fairness
on a request's own steps. A contended `sync.Mutex` goes to each waiter in the
end, because it enters its starvation mode after a millisecond: strong fairness
on the lock step. `RequestsComplete` and `RoundTripsEnd` assume of the
environment that every origin answers or fails and that dialing ends: the
actions of a round trip are among the fair steps. The code does not enforce it
(`transport.go` sets no timeout), so the two say that the proxy itself keeps
nobody waiting; an origin that hangs keeps its URL's lock. A certificate's generation is
not: `OnlyOwnHostBlocks` says exactly what may wait for it. In
`invalidator_spin` a call goes on strongly fairly, so that no contender for the
lock can keep it out, and a save goroutine weakly fairly: what does not return
there is not for want of a turn. Clients, the control API, the clock and
evictions are never fair.

## 5. What is proved

For every value of the constants that satisfies the modules' assumptions, with
any number of goroutines, URLs, keys, hosts and definitions:

| Theorem | Statement | By |
|---|---|---|
| `RequestCacheProofs!TypeCorrect` | `[]TypeOK` | inductive as it stands |
| `LockExclusion` | `[]ExclusionUntilStrayUnlock` | `LockInv` |
| `BlockedRequestsCounted` | `[]BlockingCountExact` | `CountInv`, with the cardinality of a set that gains or loses one element |
| `LocksReleased` | no tape: `[]NoAbandonedLock` | `ReleaseInv` |
| `UncacheableUnlocks` | uncacheable traffic: `[]UnlockNeverFatal` | `UncacheableInv` |
| `UncacheableSingleFlight` | uncacheable traffic: `Spec => SingleFlightSpec` | the same, step by step |
| `LRUCacheProofs!TypeCorrect` | `[]TypeOK` | `TypeInv` |
| `MapAgreesWithList` | `[]MappedIsListed` | lemmas on `RemoveAt` and `ToSet` |
| `NoValueLeaks` | `[]NoLeakedValue` | itself, with the types |
| `EveryByteCounted` | quiet clears and a bound: `[]BytesAccounted` | itself, with the types and `MappedIsListed`; lemmas on sums |
| `ListedCanBeRead` | no key shared, too: `[]ListedIsReadable` | `DisjointInv` |
| `ImplementsBoundedLRU` | no key shared, too: `Spec => BoundedLRUSpec` | `DisjointInv`, `ListIsMapped`, `BytesAccounted`, step by step |
| `CertStoreProofs!TypeCorrect` | `[]TypeOK` | `Inv` |
| `CertificateGeneratedOnce` | `[]GeneratedOnce` | `Inv` |
| `FetchReturnsStored` | `[]ReturnedIsStored` | `Inv` |
| `DialersProofs!TypeCorrect` | `[]TypeOK` | inductive as it stands |
| `RightTransport` | `[]TransportOfDialer` | `Inv` |
| `HighestFirst` | `[]HighestPriorityFirst` | `ChoiceInv` |
| `TriesAllDialers` | no limit on the tries, no negative priority: `[]FailsOnlyExhausted` | `FailInv` |
| `RecorderProofs!TypeCorrect` | `[]TypeOK` | inductive as it stands |
| `RecordingIsKept` | `[]SessionRecorded` | `StoredInv` |
| `ReplayedInOrder` | `[]ReplayInOrder` | `ReplayInv` |
| `BlockedRightly` | `[]BlockedOnlyWhenPlayed` | `ReplayInv` |
| `ReplayedOnce` | `Spec => ReplayOnce` (a property of steps) | `SettledInv` |
| `CacheInvalidatorProofs!TypeCorrect` | `[]TypeOK` | `TypeInv` |
| `AnswersUnderTheirKey` | `[]AnswerHasKey`: an answer was stored for a query that may have the key asked for | `OwnInv` |
| `NothingStale` | `[]NoStaleAnswer` | `PastInv`, with `TypeInv` |
| `NoFileOutOfReach` | `[]OnlyLeftoversUnlisted` | itself, with `OwnInv` |
| `SaveIsDue` | `[]SaveNotOverdue` | `CounterInv` |

The hypotheses beside the modules' assumptions, and what they are for:

- *No tape* and *uncacheable traffic* are the conditions under which the
  request locks work (section 6 has what happens otherwise).
- *Quiet clears and a bound*: `DeleteAll` comes when no other call is under
  way, and `MaxSize` is not -1. A clear beside a `Set` makes `currentSize` too
  small, and with -1 the code admits nothing while its bytes, 0, exceed the
  bound; both are in section 6. The proxy's own bound is never -1.
- *No key shared*: two goroutines never set or delete the same key. Two `Set`s
  of one key at once push two elements for it, and then neither the refinement
  nor `ListedIsReadable` holds; `lru_disjoint` is an instance with the
  hypothesis, `lru_shared` one without it. The code does not see to it: a hit of
  the request cache stores its key again without holding a lock, and two URLs
  can share a key.
- *No limit on the tries* is `TotalTries = 0`, which `NewDialerSession` sets and
  nothing changes. A definition of *negative priority* is never chosen, a fault
  of its own (section 6) that would hide all others from `FailsOnlyExhausted`.

The strengthenings, and why they are needed:

- `LockInv` adds to the exclusion that one goroutine at a time is inserting a
  mutex, that it inserts where there is none, and that a mutex once inserted
  stays: without it `InsertLock` could put a fresh, unlocked mutex under a
  holder.
- `ReleaseInv` adds that no tape is loaded and that a holder is at a label from
  which it still comes to its release.
- `UncacheableInv` says that the store is empty, so no request skips its lock;
  then being past the lock and holding it are the same, the release's `TryLock`
  always fails and its `Unlock` is always the holder's.
- `CertStore`'s `Inv` follows the host's mutex from the moment it is inserted
  under the store's lock: every fetch for a host has the same mutex in hand,
  so at most one is between the search and the return, and what it found stays
  true while it generates.
- `Dialers`' `Inv` says that every transport in the map is the one its key
  names, and that a request keeps its dialer and protocol from the moment its
  transport is solved.
- `OwnInv` says that whatever lies under a key, in memory, in a file, in the
  hands of a `Set` that is writing or of a `Get` that is reading, belongs to a
  query with that key; a file that a crash leaves is old, new or torn, and so
  still does. Two queries may share a key, for the texts of `getCacheKey` do not
  escape `&` and `=`: the theorem says that nothing else mixes their answers up.
  That the memory level
  stays a list takes a lemma on `Max`, from the library's theorem that every set
  of naturals has a least element.
- `OnlyLeftoversUnlisted` needs `OwnInv` only for the element a write pushes to
  be one; every other step that takes an element away takes its file, too.
- `CounterInv` adds that the counter and what was read of it are naturals.
- `TypeInv` of `CacheInvalidator` adds to the types that a call is at a point
  its kind comes to (`Points`): the key and value of a `Set` are used long after
  it began, and only a `Set` gets there.
- `PastInv` follows every edit through both levels. By `Numbered` an edit's
  value lies under one key, wherever it is kept: memory, a file, a call that is
  still writing, the history of what is done. By `Replaced` what is superseded
  is nowhere any more; a call that edits has taken what it replaces out of
  memory when it has begun (`Erased`) and off the disk when it counts, and
  nothing brings it back, since a value that is still being written is not yet
  done. A Get can then only read what was not superseded when it began.
- `DisjointInv` says that from the moment a call has taken its key off the list
  nobody else lists the key or writes its value (`Unlisted`), that a purge has
  the lock and the key it erases is nobody's (`PurgeLocks`), that a clear is
  alone, and that what is listed has its value. Without `Unlisted` a purge of
  another goroutine could erase a value just written. `ListIsMapped`, the
  converse of `MappedIsListed`, is what makes every `Unlist` a `Drop`; where no
  key is shared it is inductive.
- `BytesAccounted` is inductive because each step changes one goroutine's share
  of the reserved bytes, and with it `currentSize`, by the same amount.
- `ChoiceInv` says that the dialer being tried is valid for the request, and
  that every definition outranking it has been tried. `ContextIsOld` (what a
  request saw of the definitions had been given out before) tells a definition
  appended later from those its context was made of.
- `FailInv` counts: what an undisturbed request has tried and the tries it has
  left add up to the definitions (`TriesLeft`), so a request without a try left
  has tried them all.
- `StoredInv` says that a request that holds a slice it has read, to append to
  it, holds all stored records in it, and so does a `tape/clear` that filters: whoever
  writes a slice back writes them, too. The steps a tape call has yet to do come
  in their order (`Ordered`), so that nothing is decoded beside a filter.
  `SettledInv` says the same of the settled records and the marks, and that no
  request that has found a settled record still waits to mark it.
- `Quiet` says that during a tape call no request counts as having matched
  anything, because its search may be of a tape that is gone.
- `HoldInv` says that no record is twice in a slice and that the record a
  request is about to append is held by nobody else: an append would otherwise
  put a replayed record behind an unplayed one. `ReplayInv` says, unless an
  update was lost, that the marks are the records replayed (`MarksOk`), that the
  order is kept (`InOrder`), and that a search has passed no record that is yet
  to be replayed (`SearchOk`, then `MarkOk`), whatever two searches of the same
  records do in between.

Induction. The library's induction theorems take a predicate as a parameter,
which the provers cannot instantiate. `SharedLemmas` has one for *sets* of
naturals instead, from the theorem that every nonempty set of naturals has a
least element (`SetInduction`): a fact about every `n` is proved as "the set of
those `n` is all of `Nat`". That gives finite sums over the community modules'
`SumFunctionOnSet` (one share or one element taken out of a sum, a sum
reindexed), which `BytesAccounted` and the bound of `BoundedLRU` need, and what
`FilterSlice` returns: the elements to keep, each once, in their order.

*Only model-checked:* all liveness (`RequestsComplete`, `CallsReturn`,
`OnlyOwnHostBlocks`, `RoundTripsEnd`), which rests on fairness and ENABLED; and
the keys of `CacheKey`, which the proofs know nothing of: `KeysOf` gives every
query any set of keys there. `AnswersOwnQuery`, which needs distinct keys, is
checked for the keys `getCacheKey` makes of the instance's queries.

## 6. Where the code and its documents disagree

With a run (see `findings` in `PROJECT.json`):

- `cache.go:245`: the two stages of the release do not ensure "that we can
  always successfully unlock" (`rc_fatal_unlock`). The same release lets a
  request out beside the holder, against the "1 concurrent request" of the
  README of the repository: `rc_uncacheable` shows the traffic for which the
  promise holds, and `ExclusionUntilStrayUnlock` that nothing else breaks it.
- `invalidator.go:247`: the index is opened for reading once it exists, so the
  first one saved is never updated. A restart loads it, a `Set` of a key it lists
  that has no file any more pushes a second element, and the purge of
  `lru.go:90` cannot remove the first (`invalidator_spin`): every later call on
  the disk level hangs.
- `cache_key.go:31`: the comparator is no ordering, and one query can have
  several keys (`cache_key_order`).

Met while reading or modelling, without a run of their own:

- A request that waited for a lock goes out although the answer has just been
  stored: the store is not looked at again (`cache.go:316`), although the
  comment at `cache.go:29` says "the second will block until the first comes back
  and we verify its cache entry". A tape loaded
  while a request is out leaves its URL's lock locked for ever
  (`cache.go:336`), and later requests for it hang. A hit renews the expiry of
  its entry (`cache.go:350`). A reply from a tape enters the cache when the
  tape is stopped before the response handler runs. In standard mode a
  response that broke off is stored and served as a 502 (`cache.go:109`).
- Two concurrent `Set`s of one key push two elements, and the purge spins on
  the one that the map has lost (`lru.go:90`, "Purge the oldest entries until we
  have enough space"): no stale index is needed for the hang. A clear under way
  during a `Set` does the same.
- Saving the index panics when the cache's folder does not exist, as after a
  clear or when the first key is refused (`invalidator.go:252`). A crash between
  creating the index and writing it leaves an empty one for ever. Files that the
  index misses are served, and neither counted nor purged
  (`invalidator.go:144`). Lost increments put a save off for longer than
  `saveInterval` edits (`invalidator.go:230`; the counter itself never stays
  there, `SaveNotOverdue`). An entry evicted between `Has` and `Get` is an error
  although the other level has it (`invalidator.go:154`).
- base64 has slashes, and diskv writes no file for such a key: those answers are
  never on disk, while a key without one is (`cache_key.go:71`). Names and
  values of a query are not escaped in its key: `a=1&b=2` and a single `a` with
  the value `1&b=2` share one (`cache_key.go:68`), and so do the hosts' ports and
  schemes, which the key leaves out.
- `maxSize` -1, documented as no bound, admits nothing (`lru.go:177`); a clear
  during a `Set` leaves `currentSize` too small (`lru.go:138`).
- A request served while `dialer/load` replaces the definitions finds none and
  fails without a try (`controller.go:159`), although the comment there says
  "we're guaranteed to have one valid dialer". A definition with a negative
  priority is never chosen (`dialers.go:241`); an empty `requiresUrlRegex`
  beside resource types matches every URL (`dialers.go:43`); `ConnectDial`
  calls `NewDialerContext(nil)`, which dereferences the request (`main.go:100`,
  `dialers.go:191`).
- Of two exchanges logged together one is lost (`recorder.go:57`), although
  `recorder.go:35` says "A recorder supports multiple concurrent tape writes":
  `SessionRecorded` says that no other exchange is lost with it. A record found
  by two requests at once is replayed to both (`recorder.go:153`), although
  `recorder.go:152` says "Only allow each request to be played back one time":
  `ReplayOnce` says that it is not replayed once more to a third when its mark
  was settled before. An append that
  started before a clear brings the old session's records back
  (`recorder.go:57`); a late exchange is decoded over by a load, or becomes
  part of the tape (`recorder.go:117`). A tape that cannot be loaded leaves the
  proxy replaying an empty one (`controller.go:94`). `tape/clear` answers
  without a body on success, which the Python client takes for a failure; the
  Python client's `TapeRecord` drops the tape's identifier that the Node client
  keeps. Two calls of the Node client's `launch()` at once start two proxies
  and keep the handle of one (`proxy.ts:86`).

## 7. Not modelled

The wire (TLS hello, HTTP versions beyond the name of the protocol, the end
proxy's conversation, the CA on disk), the bytes of bodies and headers, logging
and gzip: no property is about them. Regular expressions are names that match
or do not. `end_proxy.go` is one conversation per dial and `cert.go` file and
command I/O run once from the command line: neither keeps a state between calls.
The clients wrap the control API. `proxy-benchmarks` measures several proxies
and is no part of this one; its copies of transports and of example proxies are
not modelled for that reason. In `CacheInvalidator`, the two halves of one
level's `Set`, `Get` and `Delete` are not interleaved (they are in `LRUCache`), the
tearing of a slice or a map by a data race is not represented, and a write of
the index is whole or missing: a torn `index.json` does not decode and loads as
an empty one, which a missing or empty one does, too.
Negative priorities are in the model (`MaxPriority`) but in
no instance.
